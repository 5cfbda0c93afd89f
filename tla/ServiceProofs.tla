--------------------------- MODULE ServiceProofs ---------------------------
(***************************************************************************)
(* Proofs about the schema of the database, for any servers and any number   *)
(* of migrations; about the cooldown of the sources, the analysis of a paper *)
(* and the catalog of papers, for any sources, requests, processes and       *)
(* works; and about the services together.                                  *)
(***************************************************************************)
EXTENDS Services, EvaluationProofs, SequenceTheorems, FiniteSetTheorems, WellFoundedInduction,
        TLAPS

-----------------------------------------------------------------------------
(* The schema of the database: first what the revisions are, then what they do. *)

\* The columns the revisions add.
ColumnNames == {"search_mode", "ranking_rule_version", "diversity_seed", "composition_json",
    "provides_abstract", "source_url", "source_record_id", "rights_basis", "license",
    "retrieved_at", "response_hash", "acquisition_run_id", "parse_status",
    "material_binding_json", "analysis_run_id", "analysis_mode", "provider", "model_name",
    "prompt_version", "input_evidence_hash", "provider_output_hash", "fallback_reason",
    "latency_ms", "attempt_count", "token_usage_json", "response_status",
    "validated_output_hash", "purpose", "expected_output", "plan_kind", "lease_owner",
    "lease_expires_at", "next_allowed_at"}

\* A revision names tables of the models and columns, each once and after those it refers to.
OrderedByKeys(u) ==
  \A i, k \in DOMAIN u :
    /\ u[i] = u[k] => i = k
    /\ <<u[i], u[k]>> \in References => k < i
AllModelled(u) == \A i \in DOMAIN u : u[i] \in LocalTables \cup ColumnNames

\* The statements of the revisions one by one, and how many there are.
LEMMA Statements1 ==
  /\ DOMAIN Upgrade1 = 1..24 /\ Len(Upgrade1) = 24
  /\ Upgrade1[1] = "papers" /\ Upgrade1[2] = "users" /\ Upgrade1[3] = "favorites"
  /\ Upgrade1[4] = "notes" /\ Upgrade1[5] = "paper_documents" /\ Upgrade1[6] = "paper_sources"
  /\ Upgrade1[7] = "reading_status" /\ Upgrade1[8] = "research_profiles"
  /\ Upgrade1[9] = "research_projects" /\ Upgrade1[10] = "session_tokens"
  /\ Upgrade1[11] = "tags" /\ Upgrade1[12] = "agent_runs" /\ Upgrade1[13] = "gap_candidates"
  /\ Upgrade1[14] = "jobs" /\ Upgrade1[15] = "paper_analyses" /\ Upgrade1[16] = "paper_chunks"
  /\ Upgrade1[17] = "paper_tags" /\ Upgrade1[18] = "recommendations"
  /\ Upgrade1[19] = "search_sessions" /\ Upgrade1[20] = "gap_evidence"
  /\ Upgrade1[21] = "job_events" /\ Upgrade1[22] = "research_plans"
  /\ Upgrade1[23] = "plan_items" /\ Upgrade1[24] = "paper_chunks_fts"
BY DEF Upgrade1, PapersAndUsers, ProjectsAndRuns, JobsAndAnalyses, SearchesAndPlans

LEMMA Statements5 ==
  /\ DOMAIN Upgrade5 = 1..35 /\ Len(Upgrade5) = 35
  /\ Upgrade5[1] = "source_url" /\ Upgrade5[2] = "source_record_id"
  /\ Upgrade5[3] = "rights_basis" /\ Upgrade5[4] = "license" /\ Upgrade5[5] = "retrieved_at"
  /\ Upgrade5[6] = "response_hash" /\ Upgrade5[7] = "acquisition_run_id"
  /\ Upgrade5[8] = "parse_status" /\ Upgrade5[9] = "analysis_run_id"
  /\ Upgrade5[10] = "analysis_mode" /\ Upgrade5[11] = "provider"
  /\ Upgrade5[12] = "model_name" /\ Upgrade5[13] = "prompt_version"
  /\ Upgrade5[14] = "input_evidence_hash" /\ Upgrade5[15] = "provider_output_hash"
  /\ Upgrade5[16] = "fallback_reason" /\ Upgrade5[17] = "latency_ms"
  /\ Upgrade5[18] = "attempt_count" /\ Upgrade5[19] = "token_usage_json"
  /\ Upgrade5[20] = "response_status" /\ Upgrade5[21] = "validated_output_hash"
  /\ Upgrade5[22] = "source_runtime_states" /\ Upgrade5[23] = "authors"
  /\ Upgrade5[24] = "paper_authors" /\ Upgrade5[25] = "author_source_records"
  /\ Upgrade5[26] = "dataset_cards" /\ Upgrade5[27] = "paper_dataset_mentions"
  /\ Upgrade5[28] = "direction_cluster_runs" /\ Upgrade5[29] = "direction_clusters"
  /\ Upgrade5[30] = "direction_cluster_members" /\ Upgrade5[31] = "evaluation_studies"
  /\ Upgrade5[32] = "evaluation_tasks" /\ Upgrade5[33] = "evaluation_assignments"
  /\ Upgrade5[34] = "evaluation_ratings" /\ Upgrade5[35] = "evaluation_results"
BY DEF Upgrade5, DocumentColumns, AnalysisColumns, CallColumns, AuthorsAndDatasets,
       ClustersAndStudies, StudyRows

LEMMA Statements3 ==
  /\ DOMAIN Upgrade3 = 1..11 /\ Len(Upgrade3) = 11
  /\ Upgrade3[1] = "search_mode" /\ Upgrade3[2] = "ranking_rule_version"
  /\ Upgrade3[3] = "diversity_seed" /\ Upgrade3[4] = "composition_json"
  /\ Upgrade3[5] = "user_settings" /\ Upgrade3[6] = "paper_sets"
  /\ Upgrade3[7] = "paper_set_items" /\ Upgrade3[8] = "comparison_runs"
  /\ Upgrade3[9] = "gap_candidates" /\ Upgrade3[10] = "gap_explanations"
  /\ Upgrade3[11] = "idempotency_records"
BY DEF Upgrade3, SessionColumns, Rebuilt

LEMMA Statements2 ==
  /\ DOMAIN Upgrade2 = 1..3 /\ Len(Upgrade2) = 3
  /\ Upgrade2[1] = "prompt_versions" /\ Upgrade2[2] = "tool_calls"
  /\ Upgrade2[3] = "source_requests"
  /\ DOMAIN Upgrade9 = 1..2 /\ Len(Upgrade9) = 2
  /\ Upgrade9[1] = "plan_kind" /\ Upgrade9[2] = "abstract_translation_cache"
BY DEF Upgrade2, Upgrade9

LEMMA ColumnStatements ==
  /\ DOMAIN Upgrade4 = 1..1 /\ Len(Upgrade4) = 1
  /\ Upgrade4[1] = "provides_abstract"
  /\ DOMAIN Upgrade6 = 1..1 /\ Len(Upgrade6) = 1
  /\ Upgrade6[1] = "material_binding_json"
  /\ DOMAIN Upgrade7 = 1..2 /\ Len(Upgrade7) = 2
  /\ Upgrade7[1] = "purpose" /\ Upgrade7[2] = "expected_output"
  /\ DOMAIN Upgrade8 = 1..3 /\ Len(Upgrade8) = 3
  /\ Upgrade8[1] = "lease_owner" /\ Upgrade8[2] = "lease_expires_at"
  /\ Upgrade8[3] = "next_allowed_at"
BY DEF Upgrade4, Upgrade6, Upgrade7, Upgrade8

\* The names of all tables.
TableNames == {"papers", "users", "favorites", "notes", "paper_documents", "paper_sources",
    "reading_status", "research_profiles", "research_projects", "session_tokens", "tags",
    "agent_runs", "gap_candidates", "jobs", "paper_analyses", "paper_chunks", "paper_tags",
    "recommendations", "search_sessions", "gap_evidence", "job_events", "research_plans",
    "plan_items", "paper_chunks_fts", "prompt_versions", "tool_calls", "source_requests",
    "user_settings", "paper_sets", "paper_set_items", "comparison_runs", "gap_explanations",
    "idempotency_records", "source_runtime_states", "authors", "paper_authors",
    "author_source_records", "dataset_cards", "paper_dataset_mentions",
    "direction_cluster_runs", "direction_clusters", "direction_cluster_members",
    "evaluation_studies", "evaluation_tasks", "evaluation_assignments", "evaluation_ratings",
    "evaluation_results", "abstract_translation_cache"}

\* These are the tables of the models and the full-text index.
LEMMA NamesAreTables == TableNames \subseteq LocalTables
<1>0. \A t, p : <<t, p>> \in References => t \in LocalTables
  BY DEF LocalTables, Models
<1>1. /\ <<"research_projects", "users">> \in AccountReferences
      /\ <<"session_tokens", "users">> \in AccountReferences
      /\ <<"research_profiles", "users">> \in AccountReferences
      /\ <<"abstract_translation_cache", "papers">> \in AccountReferences
      /\ <<"paper_sources", "papers">> \in AccountReferences
  BY DEF AccountReferences
<1>2. {"research_projects", "session_tokens", "research_profiles",
       "abstract_translation_cache", "paper_sources"}
        \subseteq LocalTables
  BY <1>0, <1>1 DEF References
<1>3. /\ <<"favorites", "users">> \in LibraryReferences
      /\ <<"notes", "users">> \in LibraryReferences
      /\ <<"reading_status", "users">> \in LibraryReferences
      /\ <<"paper_documents", "users">> \in LibraryReferences
      /\ <<"search_sessions", "users">> \in LibraryReferences
      /\ <<"tags", "users">> \in LibraryReferences
      /\ <<"paper_tags", "users">> \in LibraryReferences
  BY DEF LibraryReferences
<1>4. {"favorites", "notes", "reading_status", "paper_documents",
       "search_sessions", "tags", "paper_tags"}
        \subseteq LocalTables
  BY <1>0, <1>3 DEF References
<1>5. /\ <<"paper_analyses", "users">> \in AnalysisReferences
      /\ <<"recommendations", "users">> \in AnalysisReferences
      /\ <<"paper_chunks", "users">> \in AnalysisReferences
      /\ <<"gap_candidates", "users">> \in AnalysisReferences
      /\ <<"gap_evidence", "papers">> \in AnalysisReferences
  BY DEF AnalysisReferences
<1>6. {"paper_analyses", "recommendations", "paper_chunks", "gap_candidates",
       "gap_evidence"}
        \subseteq LocalTables
  BY <1>0, <1>5 DEF References
<1>7. /\ <<"research_plans", "users">> \in RunReferences
      /\ <<"plan_items", "users">> \in RunReferences
      /\ <<"agent_runs", "users">> \in RunReferences
      /\ <<"tool_calls", "users">> \in RunReferences
      /\ <<"source_requests", "users">> \in RunReferences
  BY DEF RunReferences
<1>8. {"research_plans", "plan_items", "agent_runs", "tool_calls",
       "source_requests"}
        \subseteq LocalTables
  BY <1>0, <1>7 DEF References
<1>9. /\ <<"paper_dataset_mentions", "users">> \in GraphReferences
      /\ <<"direction_cluster_runs", "users">> \in GraphReferences
      /\ <<"paper_authors", "authors">> \in GraphReferences
      /\ <<"author_source_records", "authors">> \in GraphReferences
      /\ <<"direction_clusters", "direction_cluster_runs">> \in GraphReferences
  BY DEF GraphReferences
<1>10. {"paper_dataset_mentions", "direction_cluster_runs", "paper_authors",
        "author_source_records", "direction_clusters"}
         \subseteq LocalTables
  BY <1>0, <1>9 DEF References
<1>11. /\ <<"direction_cluster_members", "papers">> \in StudyReferences
      /\ <<"evaluation_tasks", "papers">> \in StudyReferences
      /\ <<"evaluation_studies", "users">> \in StudyReferences
      /\ <<"evaluation_assignments", "users">> \in StudyReferences
      /\ <<"evaluation_ratings", "users">> \in StudyReferences
      /\ <<"evaluation_results", "evaluation_studies">> \in StudyReferences
  BY DEF StudyReferences
<1>12. {"direction_cluster_members", "evaluation_tasks", "evaluation_studies",
        "evaluation_assignments", "evaluation_ratings", "evaluation_results"}
         \subseteq LocalTables
  BY <1>0, <1>11 DEF References
<1>13. /\ <<"jobs", "users">> \in JobReferences
      /\ <<"paper_sets", "users">> \in JobReferences
      /\ <<"job_events", "users">> \in JobReferences
      /\ <<"user_settings", "users">> \in JobReferences
      /\ <<"idempotency_records", "users">> \in JobReferences
      /\ <<"comparison_runs", "users">> \in JobReferences
      /\ <<"gap_explanations", "users">> \in JobReferences
      /\ <<"paper_set_items", "papers">> \in JobReferences
  BY DEF JobReferences
<1>14. {"jobs", "paper_sets", "job_events", "user_settings",
        "idempotency_records", "comparison_runs", "gap_explanations",
        "paper_set_items"}
         \subseteq LocalTables
  BY <1>0, <1>13 DEF References
<1>15. Independent \cup {"paper_chunks_fts"} \subseteq LocalTables
  BY DEF LocalTables, Models
<1> QED BY <1>2, <1>4, <1>6, <1>8, <1>10, <1>12, <1>14, <1>15 DEF TableNames, Independent

LEMMA TablesAreNames == LocalTables \subseteq TableNames
<1> SUFFICES ASSUME NEW x \in References PROVE x[1] \in TableNames
  BY DEF LocalTables, Models, Independent, TableNames
<1>1. CASE x \in AccountReferences
  BY <1>1 DEF AccountReferences, TableNames
<1>2. CASE x \in LibraryReferences
  BY <1>2 DEF LibraryReferences, TableNames
<1>3. CASE x \in AnalysisReferences
  BY <1>3 DEF AnalysisReferences, TableNames
<1>4. CASE x \in RunReferences
  BY <1>4 DEF RunReferences, TableNames
<1>5. CASE x \in GraphReferences
  BY <1>5 DEF GraphReferences, TableNames
<1>6. CASE x \in StudyReferences
  BY <1>6 DEF StudyReferences, TableNames
<1>7. CASE x \in JobReferences
  BY <1>7 DEF JobReferences, TableNames
<1> QED BY <1>1, <1>2, <1>3, <1>4, <1>5, <1>6, <1>7 DEF References

LEMMA TablesNamed == TableNames = LocalTables
BY NamesAreTables, TablesAreNames

\* The columns that are added, and to which tables.
LEMMA ColumnsAdded ==
  /\ DOMAIN AddedColumns \subseteq TableNames
  /\ ColumnNames \cap TableNames = {}
  /\ \A t \in DOMAIN AddedColumns : AddedColumns[t] \subseteq ColumnNames
  /\ \A n \in ColumnNames : \E t \in DOMAIN AddedColumns : n \in AddedColumns[t]
<1>1. /\ DOMAIN AddedColumns = {"search_sessions", "paper_sources", "paper_documents",
         "paper_analyses", "tool_calls", "plan_items", "source_runtime_states",
         "research_plans"}
      /\ AddedColumns["search_sessions"] = Range(SessionColumns)
      /\ AddedColumns["paper_sources"] = Range(Upgrade4)
      /\ AddedColumns["paper_documents"] = Range(DocumentColumns) \cup Range(Upgrade6)
      /\ AddedColumns["paper_analyses"] = Range(AnalysisColumns)
      /\ AddedColumns["tool_calls"] = Range(CallColumns)
      /\ AddedColumns["plan_items"] = Range(Upgrade7)
      /\ AddedColumns["source_runtime_states"] = Range(Upgrade8)
      /\ AddedColumns["research_plans"] = {"plan_kind"}
  BY DEF AddedColumns
<1>2. /\ Range(Upgrade4) = {"provides_abstract"}
      /\ Range(Upgrade6) = {"material_binding_json"}
      /\ Range(Upgrade7) = {"purpose", "expected_output"}
      /\ Range(Upgrade8) = {"lease_owner", "lease_expires_at", "next_allowed_at"}
  BY DEF Range, Upgrade4, Upgrade6, Upgrade7, Upgrade8
<1>3. Range(SessionColumns) = {"search_mode", "ranking_rule_version", "diversity_seed", "composition_json"}
  BY DEF Range, SessionColumns
<1>4. Range(DocumentColumns) = {"source_url", "source_record_id", "rights_basis", "license", "retrieved_at",
      "response_hash", "acquisition_run_id", "parse_status"}
  BY DEF Range, DocumentColumns
<1>5. Range(AnalysisColumns) = {"analysis_run_id", "analysis_mode", "provider", "model_name", "prompt_version",
      "input_evidence_hash", "provider_output_hash", "fallback_reason"}
  BY DEF Range, AnalysisColumns
<1>6. Range(CallColumns) = {"latency_ms", "attempt_count", "token_usage_json", "response_status",
      "validated_output_hash"}
  BY DEF Range, CallColumns
<1>7. ColumnNames \cap TableNames = {}
  BY DEF ColumnNames, TableNames
<1> QED BY <1>1, <1>2, <1>3, <1>4, <1>5, <1>6, <1>7 DEF ColumnNames, TableNames

LEMMA TableOfFacts ==
  /\ \A t \in LocalTables : TableOf(t) = t
  /\ \A n \in LocalTables \cup ColumnNames : TableOf(n) \in LocalTables
<1>1. ASSUME NEW t \in LocalTables PROVE TableOf(t) = t
  <2>1. ~\E u \in DOMAIN AddedColumns : t \in AddedColumns[u]
    BY ColumnsAdded, TablesNamed
  <2> QED BY <2>1 DEF TableOf
<1>2. ASSUME NEW n \in ColumnNames PROVE TableOf(n) \in LocalTables
  <2>1. \E u \in DOMAIN AddedColumns : n \in AddedColumns[u]
    BY ColumnsAdded
  <2>2. TableOf(n) \in DOMAIN AddedColumns
    BY <2>1 DEF TableOf
  <2> QED BY <2>2, ColumnsAdded, TablesNamed
<1> QED BY <1>1, <1>2

\* Every revision creates its tables after those they refer to.
LEMMA FirstOrdered == OrderedByKeys(Upgrade1)
<1>1. ASSUME NEW i \in 1..24, NEW k \in 1..24, Upgrade1[i] = Upgrade1[k]
      PROVE  i = k
  BY <1>1, Statements1, SMTT(60)
<1>2. ASSUME NEW i \in 1..24, NEW k \in 1..24, <<Upgrade1[i], Upgrade1[k]>> \in References
      PROVE  k < i
  <2>1. CASE <<Upgrade1[i], Upgrade1[k]>> \in AccountReferences
    BY <2>1, Statements1, SMTT(60) DEF AccountReferences
  <2>2. CASE <<Upgrade1[i], Upgrade1[k]>> \in LibraryReferences
    BY <2>2, Statements1, SMTT(60) DEF LibraryReferences
  <2>3. CASE <<Upgrade1[i], Upgrade1[k]>> \in AnalysisReferences
    BY <2>3, Statements1, SMTT(60) DEF AnalysisReferences
  <2>4. CASE <<Upgrade1[i], Upgrade1[k]>> \in RunReferences
    BY <2>4, Statements1, SMTT(60) DEF RunReferences
  <2>5. CASE <<Upgrade1[i], Upgrade1[k]>> \in GraphReferences
    BY <2>5, Statements1, SMTT(60) DEF GraphReferences
  <2>6. CASE <<Upgrade1[i], Upgrade1[k]>> \in StudyReferences
    BY <2>6, Statements1, SMTT(60) DEF StudyReferences
  <2>7. CASE <<Upgrade1[i], Upgrade1[k]>> \in JobReferences
    BY <2>7, Statements1, SMTT(60) DEF JobReferences
  <2> QED BY <1>2, <2>1, <2>2, <2>3, <2>4, <2>5, <2>6, <2>7 DEF References
<1>3. DOMAIN Upgrade1 = 1..24
  BY Statements1
<1> QED BY <1>1, <1>2, <1>3 DEF OrderedByKeys

LEMMA FifthOrdered == OrderedByKeys(Upgrade5)
<1>1. ASSUME NEW i \in 1..35, NEW k \in 1..35, Upgrade5[i] = Upgrade5[k]
      PROVE  i = k
  BY <1>1, Statements5, SMTT(60)
<1>2. ASSUME NEW i \in 1..35, NEW k \in 1..35, <<Upgrade5[i], Upgrade5[k]>> \in References
      PROVE  k < i
  <2>1. CASE <<Upgrade5[i], Upgrade5[k]>> \in AccountReferences
    BY <2>1, Statements5, SMTT(60) DEF AccountReferences
  <2>2. CASE <<Upgrade5[i], Upgrade5[k]>> \in LibraryReferences
    BY <2>2, Statements5, SMTT(60) DEF LibraryReferences
  <2>3. CASE <<Upgrade5[i], Upgrade5[k]>> \in AnalysisReferences
    BY <2>3, Statements5, SMTT(60) DEF AnalysisReferences
  <2>4. CASE <<Upgrade5[i], Upgrade5[k]>> \in RunReferences
    BY <2>4, Statements5, SMTT(60) DEF RunReferences
  <2>5. CASE <<Upgrade5[i], Upgrade5[k]>> \in GraphReferences
    BY <2>5, Statements5, SMTT(60) DEF GraphReferences
  <2>6. CASE <<Upgrade5[i], Upgrade5[k]>> \in StudyReferences
    BY <2>6, Statements5, SMTT(60) DEF StudyReferences
  <2>7. CASE <<Upgrade5[i], Upgrade5[k]>> \in JobReferences
    BY <2>7, Statements5, SMTT(60) DEF JobReferences
  <2> QED BY <1>2, <2>1, <2>2, <2>3, <2>4, <2>5, <2>6, <2>7 DEF References
<1>3. DOMAIN Upgrade5 = 1..35
  BY Statements5
<1> QED BY <1>1, <1>2, <1>3 DEF OrderedByKeys

LEMMA ThirdOrdered == OrderedByKeys(Upgrade3)
<1>1. ASSUME NEW i \in 1..11, NEW k \in 1..11, Upgrade3[i] = Upgrade3[k]
      PROVE  i = k
  BY <1>1, Statements3, SMTT(60)
<1>2. ASSUME NEW i \in 1..11, NEW k \in 1..11, <<Upgrade3[i], Upgrade3[k]>> \in References
      PROVE  k < i
  BY <1>2, Statements3, SMTT(60) DEF References, AccountReferences, LibraryReferences,
      AnalysisReferences, RunReferences, GraphReferences, StudyReferences, JobReferences
<1>3. DOMAIN Upgrade3 = 1..11
  BY Statements3
<1> QED BY <1>1, <1>2, <1>3 DEF OrderedByKeys

LEMMA OthersOrdered ==
  OrderedByKeys(Upgrade2) /\ OrderedByKeys(Upgrade4) /\ OrderedByKeys(Upgrade6)
    /\ OrderedByKeys(Upgrade7) /\ OrderedByKeys(Upgrade8) /\ OrderedByKeys(Upgrade9)
<1>2. OrderedByKeys(Upgrade2)
  BY Statements2 DEF OrderedByKeys, References, AccountReferences, LibraryReferences,
      AnalysisReferences, RunReferences, GraphReferences, StudyReferences, JobReferences
<1>9. OrderedByKeys(Upgrade9)
  BY Statements2 DEF OrderedByKeys, References, AccountReferences, LibraryReferences,
      AnalysisReferences, RunReferences, GraphReferences, StudyReferences, JobReferences
<1>4. OrderedByKeys(Upgrade4) /\ OrderedByKeys(Upgrade6) /\ OrderedByKeys(Upgrade7)
        /\ OrderedByKeys(Upgrade8)
  BY ColumnStatements DEF OrderedByKeys, References, AccountReferences, LibraryReferences,
      AnalysisReferences, RunReferences, GraphReferences, StudyReferences, JobReferences
<1> QED BY <1>2, <1>4, <1>9

\* Every revision is about tables of the models.
LEMMA FirstNamed == AllModelled(Upgrade1)
BY Statements1, TablesNamed, SMTT(30) DEF AllModelled, TableNames, ColumnNames

LEMMA FifthNamed == AllModelled(Upgrade5)
BY Statements5, TablesNamed, SMTT(30) DEF AllModelled, TableNames, ColumnNames

LEMMA OthersNamed ==
  /\ AllModelled(Upgrade2) /\ AllModelled(Upgrade3) /\ AllModelled(Upgrade4)
  /\ AllModelled(Upgrade6) /\ AllModelled(Upgrade7) /\ AllModelled(Upgrade8)
  /\ AllModelled(Upgrade9)
BY Statements2, Statements3, ColumnStatements, TablesNamed, SMTT(30)
DEF AllModelled, TableNames, ColumnNames

\* What the proofs use of the revisions.
LEMMA RevisionFacts ==
  \A r \in Revisions :
    /\ Len(Upgrades[r]) \in 1..35 /\ DOMAIN Upgrades[r] = 1..Len(Upgrades[r])
    /\ OrderedByKeys(Upgrades[r]) /\ AllModelled(Upgrades[r])
<1>1. DOMAIN Upgrade1 = 1..24 /\ Len(Upgrade1) = 24
  BY Statements1
<1>2. /\ DOMAIN Upgrade2 = 1..3 /\ Len(Upgrade2) = 3
      /\ DOMAIN Upgrade9 = 1..2 /\ Len(Upgrade9) = 2
  BY Statements2
<1>3. DOMAIN Upgrade3 = 1..11 /\ Len(Upgrade3) = 11
  BY Statements3
<1>4. /\ DOMAIN Upgrade4 = 1..1 /\ Len(Upgrade4) = 1
      /\ DOMAIN Upgrade6 = 1..1 /\ Len(Upgrade6) = 1
      /\ DOMAIN Upgrade7 = 1..2 /\ Len(Upgrade7) = 2
      /\ DOMAIN Upgrade8 = 1..3 /\ Len(Upgrade8) = 3
  BY ColumnStatements
<1>5. DOMAIN Upgrade5 = 1..35 /\ Len(Upgrade5) = 35
  BY Statements5
<1>6. SUFFICES ASSUME NEW r \in Revisions, NEW u, u = Upgrades[r]
              PROVE  /\ Len(u) \in 1..35 /\ DOMAIN u = 1..Len(u)
                     /\ OrderedByKeys(u) /\ AllModelled(u)
  OBVIOUS
<1>7. u \in {Upgrade1, Upgrade2, Upgrade3, Upgrade4, Upgrade5, Upgrade6, Upgrade7, Upgrade8,
             Upgrade9}
  BY <1>6 DEF Upgrades, Revisions, CodeHead
<1>8. OrderedByKeys(u) /\ AllModelled(u)
  BY <1>7, FirstOrdered, ThirdOrdered, FifthOrdered, OthersOrdered, FirstNamed, FifthNamed,
      OthersNamed
<1>9. Len(u) \in 1..35 /\ DOMAIN u = 1..Len(u)
  BY <1>1, <1>2, <1>3, <1>4, <1>5, <1>7
<1> QED BY <1>8, <1>9

\* Revision 3 ends with the rebuild and two more statements.
LEMMA RebuildFacts ==
  /\ Upgrades[1] = Upgrade1 /\ Upgrades[3] = Upgrade3 /\ Len(Upgrades[3]) = 11
  /\ Upgrades[3][9] = Rebuilt
  /\ Range(SubSeq(Upgrades[3], 9, 11)) = {Upgrades[3][9], Upgrades[3][10], Upgrades[3][11]}
<1>1. Upgrades[1] = Upgrade1 /\ Upgrades[3] = Upgrade3
  BY DEF Upgrades
<1>2. \A i \in 9..11 : Upgrade3[i] \in LocalTables \cup ColumnNames
  BY Statements3, OthersNamed DEF AllModelled
<1>3. LET s == SubSeq(Upgrade3, 9, 11)
      IN  DOMAIN s = 1..3 /\ s[1] = Upgrade3[9] /\ s[2] = Upgrade3[10] /\ s[3] = Upgrade3[11]
  BY <1>2, SubSeqProperties
<1>4. ASSUME NEW s, DOMAIN s = 1..3
      PROVE  Range(s) = {s[1], s[2], s[3]}
  <2>1. 1 \in DOMAIN s /\ 2 \in DOMAIN s /\ 3 \in DOMAIN s
    BY <1>4
  <2>2. \A i \in DOMAIN s : i = 1 \/ i = 2 \/ i = 3
    BY <1>4
  <2> QED BY <2>1, <2>2 DEF Range
<1>5. Range(SubSeq(Upgrade3, 9, 11)) = {Upgrade3[9], Upgrade3[10], Upgrade3[11]}
  BY <1>3, <1>4
<1> QED BY <1>1, <1>5, Statements3 DEF Rebuilt

\* A downgrade undoes what the upgrade did, last to first.
LEMMA UndoneFacts ==
  ASSUME NEW v \in Revisions
  PROVE  /\ Len(Downgrades[v]) = Len(Upgrades[v])
         /\ \A i \in 1..Len(Upgrades[v]) :
              Downgrades[v][i] = Upgrades[v][Len(Upgrades[v]) + 1 - i]
<1> DEFINE Undoes(d, u) == Len(d) = Len(u) /\ \A i \in 1..Len(u) : d[i] = u[Len(u) + 1 - i]
<1>1. ASSUME NEW u, NEW n \in Nat, Len(u) = n
      PROVE  Undoes(Reverse(u), u)
  BY <1>1 DEF Reverse
<1>2. Undoes(Downgrade1, Upgrade1) /\ Undoes(Downgrade2, Upgrade2)
        /\ Undoes(Downgrade3, Upgrade3)
      /\ Undoes(Downgrade5, Upgrade5) /\ Undoes(Reverse(Upgrade9), Upgrade9)
      /\ Undoes(Reverse(Upgrade4), Upgrade4) /\ Undoes(Reverse(Upgrade6), Upgrade6)
      /\ Undoes(Reverse(Upgrade7), Upgrade7) /\ Undoes(Reverse(Upgrade8), Upgrade8)
  <2>1. Len(Upgrade1) = 24 /\ Len(Upgrade2) = 3 /\ Len(Upgrade3) = 11 /\ Len(Upgrade5) = 35
          /\ Len(Upgrade9) = 2 /\ Len(Upgrade4) = 1 /\ Len(Upgrade6) = 1 /\ Len(Upgrade7) = 2
          /\ Len(Upgrade8) = 3
    <3>1. Len(Upgrade1) = 24
      BY Statements1
    <3>2. Len(Upgrade5) = 35
      BY Statements5
    <3> QED BY <3>1, <3>2, Statements2, Statements3, ColumnStatements
  <2>2. \A n \in Nat : \A u : Len(u) = n => Undoes(Reverse(u), u)
    BY <1>1
  <2>3. 24 \in Nat /\ 3 \in Nat /\ 11 \in Nat /\ 35 \in Nat /\ 2 \in Nat /\ 1 \in Nat
    OBVIOUS
  <2> HIDE DEF Undoes
  <2>4. Undoes(Reverse(Upgrade1), Upgrade1) /\ Undoes(Reverse(Upgrade2), Upgrade2)
    BY ONLY <2>1, <2>2, <2>3, Zenon
  <2>5. Undoes(Reverse(Upgrade3), Upgrade3) /\ Undoes(Reverse(Upgrade5), Upgrade5)
    BY ONLY <2>1, <2>2, <2>3, Zenon
  <2>6. Undoes(Reverse(Upgrade9), Upgrade9) /\ Undoes(Reverse(Upgrade4), Upgrade4)
    BY ONLY <2>1, <2>2, <2>3, Zenon
  <2>7. Undoes(Reverse(Upgrade6), Upgrade6) /\ Undoes(Reverse(Upgrade7), Upgrade7)
    BY ONLY <2>1, <2>2, <2>3, Zenon
  <2>8. Undoes(Reverse(Upgrade8), Upgrade8)
    BY ONLY <2>1, <2>2, <2>3, Zenon
  <2> QED BY <2>4, <2>5, <2>6, <2>7, <2>8 DEF Downgrade1, Downgrade2, Downgrade3, Downgrade5
<1>3. Undoes(Downgrades[v], Upgrades[v])
  <2> HIDE DEF Undoes
  <2> QED BY <1>2 DEF Downgrades, Upgrades, Revisions, CodeHead
<1> QED BY <1>3

\* What the revisions make.
LEMMA PartsFacts ==
  /\ \A r \in Revisions : \A p :
       p \in PartsOf(r) <=> \E i \in 1..Len(Upgrades[r]) : p = <<Upgrades[r][i], r>>
  /\ \A v \in 0..CodeHead : \A p : p \in PartsUpTo(v) <=> \E r \in 1..v : p \in PartsOf(r)
  /\ \A v \in 0..CodeHead : PartsUpTo(v) \subseteq AllParts
<1>1. ASSUME NEW r \in Revisions, NEW p
      PROVE  p \in PartsOf(r) <=> \E i \in 1..Len(Upgrades[r]) : p = <<Upgrades[r][i], r>>
  <2>1. DOMAIN Upgrades[r] = 1..Len(Upgrades[r])
    BY RevisionFacts
  <2> QED BY <2>1 DEF PartsOf, Part, Range
<1>2. \A v \in 0..CodeHead : \A p : p \in PartsUpTo(v) <=> \E r \in 1..v : p \in PartsOf(r)
  BY DEF PartsUpTo
<1>3. \A v \in 0..CodeHead : PartsUpTo(v) \subseteq AllParts
  BY <1>2 DEF AllParts, CodeHead
<1> QED BY <1>1, <1>2, <1>3

\* A table or column is part of the revisions whose statements name it.
LEMMA PartAt ==
  ASSUME NEW t, NEW r
  PROVE  /\ <<t, r>> \in AllParts <=>
              r \in Revisions /\ \E i \in 1..Len(Upgrades[r]) : t = Upgrades[r][i]
         /\ \A v \in 0..CodeHead :
              <<t, r>> \in PartsUpTo(v) <=> <<t, r>> \in AllParts /\ r \in 1..v
         /\ <<t, r>> \in AllParts => t \in LocalTables \cup ColumnNames
<1>1. ASSUME NEW q \in Revisions
      PROVE  <<t, r>> \in PartsOf(q) <=>
               r = q /\ \E i \in 1..Len(Upgrades[r]) : t = Upgrades[r][i]
  BY PartsFacts
<1>2. <<t, r>> \in AllParts <=>
        r \in Revisions /\ \E i \in 1..Len(Upgrades[r]) : t = Upgrades[r][i]
  BY <1>1, PartsFacts DEF AllParts, Revisions, CodeHead
<1>3. ASSUME NEW v \in 0..CodeHead
      PROVE  <<t, r>> \in PartsUpTo(v) <=> <<t, r>> \in AllParts /\ r \in 1..v
  BY <1>1, <1>2, PartsFacts DEF Revisions, CodeHead
<1>4. <<t, r>> \in AllParts => t \in LocalTables \cup ColumnNames
  BY <1>2, RevisionFacts DEF AllModelled
<1> QED BY <1>2, <1>3, <1>4

LEMMA PairParts == \A p \in AllParts : p = <<p[1], p[2]>>
BY PartsFacts DEF AllParts, Revisions, CodeHead

\* Every table is created by some revision.
LEMMA CreatedSomewhere ==
  ASSUME NEW t \in LocalTables
  PROVE  \E r \in Revisions : <<t, r>> \in AllParts
<1>1. ASSUME NEW i \in 1..24 PROVE \E r \in Revisions : <<Upgrade1[i], r>> \in AllParts
  <2>1. 1 \in Revisions /\ Upgrades[1] = Upgrade1 /\ Len(Upgrades[1]) = 24
    BY Statements1, RebuildFacts DEF Revisions, CodeHead
  <2> QED BY <2>1, PartAt
<1>2. ASSUME NEW i \in 1..35 PROVE \E r \in Revisions : <<Upgrade5[i], r>> \in AllParts
  <2>1. 5 \in Revisions /\ Upgrades[5] = Upgrade5 /\ Len(Upgrades[5]) = 35
    BY Statements5 DEF Revisions, CodeHead, Upgrades
  <2> QED BY <2>1, PartAt
<1>3. ASSUME NEW i \in 1..11 PROVE \E r \in Revisions : <<Upgrade3[i], r>> \in AllParts
  <2>1. 3 \in Revisions /\ Upgrades[3] = Upgrade3 /\ Len(Upgrades[3]) = 11
    BY Statements3, RebuildFacts DEF Revisions, CodeHead
  <2> QED BY <2>1, PartAt
<1>4. ASSUME NEW i \in 1..3 PROVE \E r \in Revisions : <<Upgrade2[i], r>> \in AllParts
  <2>1. 2 \in Revisions /\ Upgrades[2] = Upgrade2 /\ Len(Upgrades[2]) = 3
    BY Statements2 DEF Revisions, CodeHead, Upgrades
  <2> QED BY <2>1, PartAt
<1>5. ASSUME NEW i \in 1..2 PROVE \E r \in Revisions : <<Upgrade9[i], r>> \in AllParts
  <2>1. 9 \in Revisions /\ Upgrades[9] = Upgrade9 /\ Len(Upgrades[9]) = 2
    BY Statements2 DEF Revisions, CodeHead, Upgrades
  <2> QED BY <2>1, PartAt
<1>6. \/ \E i \in 1..24 : t = Upgrade1[i]
      \/ \E i \in 1..35 : t = Upgrade5[i]
      \/ \E i \in 1..11 : t = Upgrade3[i]
      \/ \E i \in 1..3 : t = Upgrade2[i]
      \/ \E i \in 1..2 : t = Upgrade9[i]
  <2> t \in TableNames
    BY TablesNamed
  <2> QED BY Statements1, Statements2, Statements3, Statements5, SMTT(60) DEF TableNames
<1> QED BY <1>1, <1>2, <1>3, <1>4, <1>5, <1>6

\* The revision that creates a table is the first that names it.
LEMMA CreatedFirst ==
  ASSUME NEW t \in LocalTables
  PROVE  /\ CreatedIn(t) \in Revisions /\ Base(t) = <<t, CreatedIn(t)>> /\ Base(t) \in AllParts
         /\ \A r : <<t, r>> \in AllParts => CreatedIn(t) <= r
<1> DEFINE N == {r \in Nat : <<t, r>> \in AllParts}
<1>1. N # {} /\ N \subseteq Nat
  BY CreatedSomewhere DEF Revisions
<1>2. PICK n \in N : \A m \in N : ~ (<<m, n>> \in OpToRel(<, Nat))
  BY <1>1, NatLessThanWellFounded, WFMin
<1>3. \A m \in N : ~(m < n)
  BY <1>2 DEF OpToRel
<1>4. n \in Revisions /\ Part(t, n) \in AllParts
      /\ \A s \in 1..(n - 1) : Part(t, s) \notin AllParts
  BY <1>3, PartAt DEF Part, Revisions
<1>5. /\ CreatedIn(t) \in Revisions /\ Part(t, CreatedIn(t)) \in AllParts
      /\ \A s \in 1..(CreatedIn(t) - 1) : Part(t, s) \notin AllParts
  BY <1>4 DEF CreatedIn
<1>6. ASSUME NEW r, <<t, r>> \in AllParts
      PROVE  CreatedIn(t) <= r
  <2>1. r \in Revisions
    BY <1>6, PartAt
  <2> QED BY <1>5, <1>6, <2>1 DEF Part, Revisions, CodeHead
<1> QED BY <1>5, <1>6 DEF Base, Part

\* The revisions create the tables of the models, all of them and no other.
LEMMA ModelsAreMigrated == ModelsMigrated
<1>1. \A p \in AllParts : TableOf(p[1]) \in LocalTables
  BY PairParts, PartAt, TableOfFacts
<1>2. ASSUME NEW t \in LocalTables
      PROVE  \E p \in AllParts : TableOf(p[1]) = t
  <2>1. <<t, CreatedIn(t)>> \in AllParts /\ <<t, CreatedIn(t)>>[1] = t
    BY CreatedFirst
  <2>2. TableOf(<<t, CreatedIn(t)>>[1]) = t
    BY <2>1, TableOfFacts
  <2> QED BY <2>1, <2>2
<1> QED BY <1>1, <1>2 DEF ModelsMigrated

\* There are more parts than a revision has statements.
LEMMA PartsCounted ==
  /\ IsFiniteSet(AllParts) /\ Cardinality(AllParts) \in Nat
  /\ 35 <= Cardinality(AllParts)
<1>1. IsFiniteSet(AllParts)
  <2> DEFINE P == Revisions \X (1..35)
             f == [n \in P |-> <<Upgrades[n[1]][n[2]], n[1]>>]
             Q == {f[n] : n \in P}
  <2>1. IsFiniteSet(P)
    <3>1. \A n \in Nat : IsFiniteSet(1..n)
      <4> SUFFICES ASSUME NEW n \in Nat PROVE IsFiniteSet(1..n)
        OBVIOUS
      <4>1. 1 \in Int /\ n \in Int
        OBVIOUS
      <4> QED BY <4>1, FS_Interval
    <3>2. IsFiniteSet(Revisions) /\ IsFiniteSet(1..35)
      BY <3>1 DEF Revisions, CodeHead
    <3> QED BY <3>2, FS_Product
  <2>2. f \in Surjection(P, Q)
    BY DEF Surjection
  <2>3. IsFiniteSet(Q)
    BY <2>1, <2>2, FS_Surjection
  <2>4. AllParts \subseteq Q
    <3> SUFFICES ASSUME NEW p \in AllParts PROVE p \in Q
      OBVIOUS
    <3>1. PICK i \in 1..Len(Upgrades[p[2]]) : p[1] = Upgrades[p[2]][i]
      BY PairParts, PartAt
    <3>2. p[2] \in Revisions /\ p = <<p[1], p[2]>>
      BY PairParts, PartAt
    <3>3. i \in 1..35
      <4>1. PICK n : n = Len(Upgrades[p[2]])
        OBVIOUS
      <4>2. n \in 1..35
        BY <3>2, <4>1, RevisionFacts
      <4>3. i \in 1..n
        BY <3>1, <4>1
      <4> QED BY <4>2, <4>3
    <3>4. <<p[2], i>> \in P /\ p = f[<<p[2], i>>]
      BY <3>1, <3>2, <3>3
    <3> QED BY <3>4
  <2> QED BY <2>3, <2>4, FS_Subset
<1>2. 35 <= Cardinality(AllParts)
  <2> DEFINE g == [i \in 1..35 |-> <<Upgrade5[i], 5>>]
  <2>1. \A i \in 1..35 : <<Upgrade5[i], 5>> \in AllParts
    <3>1. 5 \in Revisions /\ Upgrades[5] = Upgrade5 /\ Len(Upgrades[5]) = 35
      BY Statements5 DEF Revisions, CodeHead, Upgrades
    <3> QED BY <3>1, PartAt
  <2>2. \A i, k \in 1..35 : Upgrade5[i] = Upgrade5[k] => i = k
    <3>1. DOMAIN Upgrade5 = 1..35
      BY Statements5
    <3> QED BY <3>1, FifthOrdered DEF OrderedByKeys
  <2>3. g \in Injection(1..35, AllParts)
    BY <2>1, <2>2 DEF Injection, IsInjective
  <2>4. Cardinality(1..35) = 35
    <3>1. \A n \in Nat : Cardinality(1..n) = n
      <4> SUFFICES ASSUME NEW n \in Nat PROVE Cardinality(1..n) = n
        OBVIOUS
      <4>1. 1 \in Int /\ n \in Int
        OBVIOUS
      <4> QED BY <4>1, FS_Interval
    <3> QED BY <3>1
  <2> QED BY <1>1, <2>3, <2>4, FS_Injection
<1> QED BY <1>1, <1>2, FS_CardinalityType

\* A table that refers to another is named after it in the revision that creates that one.
LEMMA KeyTarget ==
  \A t, r : <<t, r>> \in AllParts => \A k \in ForeignKeys(t, r) :
    /\ t \in LocalTables /\ k \in LocalTables /\ <<t, k>> \in References
    /\ CreatedIn(k) \in 1..r /\ Base(k) = <<k, CreatedIn(k)>>
    /\ r \in Revisions
<1> SUFFICES ASSUME NEW t, NEW r, <<t, r>> \in AllParts, NEW k \in ForeignKeys(t, r)
             PROVE  /\ t \in LocalTables /\ k \in LocalTables /\ <<t, k>> \in References
                    /\ CreatedIn(k) \in 1..r /\ Base(k) = <<k, CreatedIn(k)>>
                    /\ r \in Revisions
  OBVIOUS
<1>1. r \in Revisions
  BY PartAt
<1>2. <<t, k>> \in References /\ k \in Models /\ CreatedIn(k) <= r
  BY DEF ForeignKeys
<1>3. k \in LocalTables /\ t \in LocalTables
  BY <1>2 DEF LocalTables, Models
<1>4. CreatedIn(k) \in Revisions /\ Base(k) = <<k, CreatedIn(k)>>
  BY <1>3, CreatedFirst
<1> QED BY <1>1, <1>2, <1>3, <1>4 DEF Revisions

\* In the revision that creates it, the statement that makes it comes before the key's.
LEMMA KeyBefore ==
  ASSUME NEW r \in Revisions, NEW i \in 1..Len(Upgrades[r]), NEW t, t = Upgrades[r][i],
         NEW k \in ForeignKeys(t, r), CreatedIn(k) = r
  PROVE  \E j \in 1..Len(Upgrades[r]) : j < i /\ k = Upgrades[r][j]
<1>1. <<t, k>> \in References /\ k \in LocalTables
  BY DEF ForeignKeys, LocalTables
<1>2. <<k, r>> \in AllParts
  BY <1>1, CreatedFirst
<1>3. PICK j \in 1..Len(Upgrades[r]) : k = Upgrades[r][j]
  BY <1>2, PartAt
<1>4. i \in DOMAIN Upgrades[r] /\ j \in DOMAIN Upgrades[r] /\ OrderedByKeys(Upgrades[r])
  BY RevisionFacts
<1>5. j < i
  BY <1>1, <1>3, <1>4 DEF OrderedByKeys
<1> QED BY <1>3, <1>5

\* The inductive invariant.
Raising == migration.by \in {"upgrade", "bootstrap"}
ProgressSound ==
  /\ migration.by = "nobody" => migration = NoMigration
  /\ migration.done > 0 => Upgrading \/ Downgrading
  /\ Upgrading =>
       /\ migration.done <= Len(Statements)
       /\ \A i \in 1..migration.done : <<Statements[i], version + 1>> \in objects
  /\ Downgrading =>
       /\ migration.done <= Len(Undone)
       /\ \A i \in 1..migration.done : <<Undone[i], version>> \notin objects
  /\ migration # NoMigration => \A s \in SchemaServers : starting[s] = NotStarting
NotMisled ==
  /\ Raising => PartsUpTo(version) \subseteq objects
  /\ migration.by = "downgrade" => objects \subseteq PartsUpTo(version)
ServersSound ==
  \A s \in SchemaServers : starting[s] # NotStarting =>
    \A t \in LocalTables \ starting[s] : Base(t) \in objects
\* What the recorded revision claims exists, except for what a downgrade is taking away.
RecordedKept ==
  /\ Downgrading /\ migration.done > 0 => PartsUpTo(version - 1) \subseteq objects
  /\ ~(Downgrading /\ migration.done > 0) => PartsUpTo(version) \subseteq objects
\* What an audit has found stays as it is until it is stamped: every migration that is tried
\* in between fails at its first statement.
ReceiptSound ==
  /\ PartsUpTo(receipt) \subseteq objects
  /\ receipt # 0 => version = 0 /\ migration.done = 0
SchemaInv ==
  /\ SchemaTypeOK /\ ProgressSound /\ (misled \/ NotMisled)
  /\ (cutOff \/ RecordedKept) /\ ReceiptSound
  /\ ServersSound /\ ReferencesResolve

LEMMA NoParts == PartsUpTo(0) = {}
BY DEF PartsUpTo

\* An empty database is sound.
LEMMA InitSchema == SchemaInit => SchemaInv
<1> SUFFICES ASSUME SchemaInit PROVE SchemaInv
  OBVIOUS
<1> USE DEF SchemaInit
<1>1. NoMigration \in Migrations
  BY PartsCounted DEF NoMigration, Migrations, CodeHead
<1>2. SchemaTypeOK
  <2>1. starting \in [SchemaServers -> SUBSET LocalTables]
    BY DEF NotStarting
  <2>2. tracked \in BOOLEAN /\ cutOff \in BOOLEAN /\ misled \in BOOLEAN
    OBVIOUS
  <2>3. /\ dialect \in {"sqlite", "turso"} /\ objects \subseteq AllParts
        /\ version \in 0..CodeHead /\ migration \in Migrations
        /\ references \subseteq {1, CodeHead} /\ receipt \in {0, 1, CodeHead}
    BY <1>1 DEF CodeHead
  <2> QED BY <2>1, <2>2, <2>3 DEF SchemaTypeOK
<1>3. ProgressSound /\ NotMisled /\ ServersSound
  BY DEF ProgressSound, NotMisled, ServersSound, NoMigration, Raising, Upgrading, Downgrading
<1>4. RecordedKept /\ ReceiptSound
  BY NoParts DEF RecordedKept, ReceiptSound, NoMigration, Downgrading
<1>5. ReferencesResolve
  BY DEF ReferencesResolve
<1> QED BY <1>2, <1>3, <1>4, <1>5 DEF SchemaInv

\* The marker of the recorded revision says what the run checks.
LEMMA RecordedIsComplete ==
  ASSUME version \in 0..CodeHead, migration \in Migrations, cutOff \/ RecordedKept
  PROVE  MarkedSchemaComplete
<1> SUFFICES ASSUME RecordedKept, NEW r \in 1..version, NEW p \in PartsOf(r)
             PROVE  p \in objects \/ (r = version /\ Downgrading /\ migration.done > 0)
  BY DEF MarkedSchemaComplete
<1>1. p \in PartsUpTo(version) /\ (r # version => p \in PartsUpTo(version - 1))
  BY DEF PartsUpTo
<1> QED BY <1>1 DEF RecordedKept

\* What a statement of an upgrade adds: the next one, or all that are left of a rebuild.
LEMMA StatementsFacts ==
  ASSUME SchemaTypeOK, Upgrading, migration.done < Len(Statements)
  PROVE  /\ version + 1 \in Revisions /\ Statements = Upgrades[version + 1]
         /\ Len(Statements) \in 1..35 /\ migration.done \in Nat
         /\ \E last \in 1..35 :
              /\ last \in (migration.done + 1)..Len(Statements)
              /\ Cardinality(New) = last - migration.done
              /\ New = {<<Statements[i], version + 1>> : i \in (migration.done + 1)..last}
<1> DEFINE n == migration.done  v == version + 1
<1>1. n \in Nat /\ v \in Revisions
  BY DEF SchemaTypeOK, Migrations, Upgrading, Revisions, CodeHead
<1>2. Len(Statements) \in 1..35 /\ DOMAIN Statements = 1..Len(Statements)
        /\ OrderedByKeys(Statements)
  BY <1>1, RevisionFacts DEF Statements
<1>3. n + 1 \in 1..Len(Statements)
  BY <1>1, <1>2
<1> SUFFICES \E last \in 1..35 :
               /\ last \in (n + 1)..Len(Statements)
               /\ Cardinality(New) = last - n
               /\ New = {<<Statements[i], v>> : i \in (n + 1)..last}
  BY <1>1, <1>2 DEF Statements
<1>4. CASE v = 3 /\ Next_ = Rebuilt
  <2>1. Statements = Upgrades[3] /\ Len(Statements) = 11 /\ Statements[9] = Rebuilt
    BY <1>4, RebuildFacts DEF Statements
  <2>2. Statements[n + 1] = Statements[9]
    BY <1>4, <2>1 DEF Next_
  <2>3. n + 1 = 9
    BY <1>2, <1>3, <2>1, <2>2 DEF OrderedByKeys
  <2>4. Committed = {Statements[9], Statements[10], Statements[11]}
    BY <1>4, <2>1, <2>3, RebuildFacts DEF Committed
  <2>5. New = {<<Statements[9], v>>, <<Statements[10], v>>, <<Statements[11], v>>}
    BY <2>4 DEF New, Part
  <2>6. Statements[9] # Statements[10] /\ Statements[10] # Statements[11]
          /\ Statements[9] # Statements[11]
    BY <1>2, <2>1 DEF OrderedByKeys
  <2>7. Cardinality(New) = 3
    <3>1. PICK a, b, c : a = <<Statements[9], v>> /\ b = <<Statements[10], v>>
                 /\ c = <<Statements[11], v>>
      OBVIOUS
    <3>2. a # b /\ b # c /\ a # c /\ New = {a} \cup {b} \cup {c}
      BY <2>5, <2>6, <3>1
    <3>3. IsFiniteSet({a}) /\ Cardinality({a}) = 1
      BY FS_Singleton
    <3>4. PICK B : B = {a} \cup {b}
      OBVIOUS
    <3>5. IsFiniteSet(B) /\ Cardinality(B) = 2
      <4>1. b \notin {a}
        BY <3>2
      <4> QED BY <3>3, <3>4, <4>1, FS_AddElement
    <3>6. Cardinality(B \cup {c}) = 3
      <4>1. c \notin B
        BY <3>2, <3>4
      <4>2. Cardinality(B \cup {c}) = Cardinality(B) + 1
        BY <3>5, <4>1, FS_AddElement
      <4> QED BY <3>5, <4>2
    <3> QED BY <3>2, <3>4, <3>6
  <2>8. New = {<<Statements[i], v>> : i \in 9..11}
    BY <2>5
  <2>9. 11 \in (n + 1)..Len(Statements) /\ n = 8 /\ 11 \in 1..35
    BY <1>1, <2>1, <2>3
  <2>10. 11 - n = 3 /\ n + 1 = 9
    BY <2>9
  <2>11. New = {<<Statements[i], v>> : i \in (n + 1)..11}
    BY <2>8, <2>10
  <2>12. Cardinality(New) = 11 - n
    BY <2>7, <2>10
  <2> HIDE DEF n, v
  <2> QED BY <2>9, <2>11, <2>12
<1>5. CASE ~(v = 3 /\ Next_ = Rebuilt)
  <2>1. New = {<<Statements[n + 1], v>>}
    BY <1>5 DEF New, Committed, Next_, Part
  <2>2. Cardinality(New) = 1
    BY <2>1, FS_Singleton
  <2>3. New = {<<Statements[i], v>> : i \in (n + 1)..(n + 1)}
    BY <1>1, <2>1
  <2>4. n + 1 \in (n + 1)..Len(Statements) /\ (n + 1) - n = 1
    BY <1>1, <1>2, <1>3
  <2>5. n + 1 \in 1..35
    <3>1. PICK m : m = Len(Statements)
      OBVIOUS
    <3>2. n \in Nat /\ m \in 1..35 /\ n + 1 \in 1..m
      BY <1>1, <1>2, <1>3, <3>1
    <3> HIDE DEF n
    <3> QED BY <3>2
  <2> QED BY <2>2, <2>3, <2>4, <2>5
<1> QED BY <1>4, <1>5

\* What the invariant needs when tables are only added.
LEMMA TablesAdded ==
  ASSUME SchemaInv, objects \subseteq objects', misled => misled', receipt' = receipt,
         receipt # 0 => version' = version /\ migration'.done = 0,
         \A p \in objects' \ objects :
           misled' \/ \A k \in ForeignKeys(p[1], p[2]) : Base(k) \in objects'
  PROVE  ReferencesResolve' /\ ReceiptSound'
<1>1. ReferencesResolve'
  BY DEF SchemaInv, ReferencesResolve
<1>2. ReceiptSound'
  BY DEF SchemaInv, ReceiptSound
<1> QED BY <1>1, <1>2

\* An upgrade has no statement to run while a receipt waits to be stamped.
LEMMA NothingAwaitsStamp ==
  ASSUME SchemaInv, UpgradeStatement \/ RecordRevision
  PROVE  receipt = 0
<1> SUFFICES ASSUME receipt # 0 PROVE FALSE
  OBVIOUS
<1>1. SchemaTypeOK /\ version = 0 /\ migration.done = 0 /\ PartsUpTo(receipt) \subseteq objects
  BY DEF SchemaInv, ReceiptSound
<1>2. Statements = Upgrade1 /\ Len(Statements) = 24
  <2>1. Statements = Upgrades[1]
    BY <1>1 DEF Statements
  <2> QED BY <2>1, Statements1, RebuildFacts
<1>3. UpgradeStatement
  BY <1>1, <1>2 DEF RecordRevision
<1>4. <<Upgrades[1][1], 1>> \in New
  <2>1. Upgrading /\ migration.done < Len(Statements)
    BY <1>3 DEF UpgradeStatement
  <2>2. PICK last \in 1..35 :
          New = {<<Statements[i], version + 1>> : i \in (migration.done + 1)..last}
    BY <1>1, <2>1, StatementsFacts
  <2>3. New = {<<Statements[i], 1>> : i \in 1..last} /\ 1 \in 1..last
    BY <1>1, <2>2
  <2> QED BY <1>2, <2>3, RebuildFacts
<1>5. <<Upgrades[1][1], 1>> \in PartsUpTo(receipt)
  <2>1. receipt \in 0..CodeHead /\ 1 \in 1..receipt /\ 1 \in Revisions
    BY <1>1 DEF SchemaTypeOK, CodeHead, Revisions
  <2>2. 1 \in 1..Len(Upgrades[1])
    <3>1. Len(Upgrades[1]) = 24
      BY Statements1, RebuildFacts
    <3> QED BY <3>1
  <2> QED BY <2>1, <2>2, PartAt
<1>6. New \cap objects = {}
  BY <1>3 DEF UpgradeStatement, Executable
<1> QED BY <1>1, <1>4, <1>5, <1>6

\* Progress of a migration does not concern a state without one.
LEMMA NoMigrationFacts ==
  ASSUME SchemaTypeOK, migration = NoMigration
  PROVE  /\ ~Upgrading /\ ~Downgrading /\ ~Raising /\ migration.by = "nobody"
              /\ migration.done = 0
         /\ NotMisled /\ (RecordedKept <=> PartsUpTo(version) \subseteq objects)
         /\ ProgressSound
BY DEF NoMigration, Upgrading, Downgrading, Raising, NotMisled, RecordedKept, ProgressSound

\* Every migration begins on what it finds.
LEMMA MigrationBegins ==
  ASSUME SchemaInv, NEW by \in {"upgrade", "downgrade", "bootstrap"}, NEW to \in 0..CodeHead,
         Begin(by, to), tracked' \in BOOLEAN, misled' \in BOOLEAN, misled => misled',
         ~misled' /\ by # "downgrade" => PartsUpTo(version) \subseteq objects,
         ~misled' /\ by = "downgrade" => objects \subseteq PartsUpTo(version)
  PROVE  SchemaInv'
<1> USE DEF Begin
<1>1. /\ SchemaTypeOK /\ ~Upgrading /\ ~Downgrading /\ migration.done = 0
      /\ RecordedKept <=> PartsUpTo(version) \subseteq objects
  BY NoMigrationFacts DEF SchemaInv
<1>2. /\ migration'.by = by /\ migration'.to = to /\ migration'.done = 0
      /\ migration' = [by |-> by, to |-> to, done |-> 0]
  OBVIOUS
<1>3. SchemaTypeOK'
  <2>1. migration' \in Migrations
    BY <1>2, PartsCounted DEF Migrations
  <2> QED BY <1>1, <2>1 DEF SchemaTypeOK
<1>4. ProgressSound'
  <2>1. Upgrading' => Len(Statements') \in 1..35
    <3>1. Upgrading' => version + 1 \in Revisions
      BY <1>1, <1>2 DEF Upgrading, SchemaTypeOK, Revisions, CodeHead
    <3> QED BY <3>1, RevisionFacts DEF Statements
  <2>2. Downgrading' => Len(Undone') \in 1..35
    <3>1. Downgrading' => version \in Revisions
      BY <1>1, <1>2 DEF Downgrading, SchemaTypeOK, Revisions, CodeHead
    <3> QED BY <3>1, RevisionFacts, UndoneFacts DEF Undone
  <2>3. migration'.by # "nobody"
        /\ \A s \in SchemaServers : starting'[s] = NotStarting
    BY <1>2
  <2> QED BY <1>2, <2>1, <2>2, <2>3 DEF ProgressSound
<1>5. (misled \/ NotMisled)'
  BY <1>2 DEF NotMisled, Raising
<1>6. (cutOff \/ RecordedKept)'
  BY <1>1, <1>2 DEF SchemaInv, RecordedKept, Downgrading
<1>7. ReceiptSound'
  BY <1>2 DEF SchemaInv, ReceiptSound
<1>8. ServersSound'
  BY DEF ServersSound
<1>9. ReferencesResolve'
  BY DEF SchemaInv, ReferencesResolve
<1> QED BY <1>3, <1>4, <1>5, <1>6, <1>7, <1>8, <1>9 DEF SchemaInv

LEMMA MigrationStarts ==
  ASSUME SchemaInv,
         \/ \E to \in Revisions : StartUpgrade(to)
         \/ \E to \in 0..CodeHead : StartDowngrade(to)
         \/ StartBootstrap
  PROVE  SchemaInv'
<1>0. tracked \in BOOLEAN /\ misled \in BOOLEAN
  BY DEF SchemaInv, SchemaTypeOK
<1>1. ASSUME NEW to \in Revisions, StartUpgrade(to) PROVE SchemaInv'
  <2>1. to \in 0..CodeHead /\ Begin("upgrade", to)
    BY <1>1 DEF StartUpgrade, Revisions, CodeHead
  <2>2. tracked' \in BOOLEAN /\ misled' \in BOOLEAN
    BY <1>0, <1>1 DEF StartUpgrade, MissesTables
  <2> QED BY <1>1, <2>1, <2>2, MigrationBegins DEF StartUpgrade, MissesTables
<1>2. ASSUME NEW to \in 0..CodeHead, StartDowngrade(to) PROVE SchemaInv'
  <2>1. Begin("downgrade", to)
    BY <1>2 DEF StartDowngrade
  <2>2. tracked' \in BOOLEAN /\ misled' \in BOOLEAN
    BY <1>0, <1>2 DEF StartDowngrade
  <2> QED BY <1>2, <2>1, <2>2, MigrationBegins DEF StartDowngrade
<1>3. ASSUME StartBootstrap PROVE SchemaInv'
  <2>1. BootstrapTo \in 0..CodeHead /\ Begin("bootstrap", BootstrapTo)
    BY <1>3 DEF StartBootstrap, BootstrapTo, CodeHead
  <2>2. tracked' \in BOOLEAN /\ misled' \in BOOLEAN
    BY <1>0, <1>3 DEF StartBootstrap, MissesTables
  <2> QED BY <1>3, <2>1, <2>2, MigrationBegins DEF StartBootstrap, MissesTables
<1> QED BY <1>1, <1>2, <1>3

\* A statement of an upgrade names what exists or was created before it.
LEMMA StatementInv ==
  ASSUME SchemaInv, UpgradeStatement
  PROVE  SchemaInv'
<1> DEFINE n == migration.done  v == version + 1
<1> USE DEF UpgradeStatement
<1>1. /\ SchemaTypeOK /\ Upgrading /\ n < Len(Statements) /\ ~Downgrading /\ Raising
      /\ migration.by # "downgrade" /\ migration # NoMigration /\ version \in 0..CodeHead
  BY DEF SchemaInv, SchemaTypeOK, Upgrading, Downgrading, Raising, NoMigration
<1>2. /\ v \in Revisions /\ v - 1 = version /\ Statements = Upgrades[v]
           /\ Len(Statements) \in 1..35 /\ n \in Nat
  BY <1>1, StatementsFacts DEF Revisions, CodeHead
<1>3. PICK last \in 1..35 :
        /\ last \in (n + 1)..Len(Statements)
        /\ Cardinality(New) = last - n
        /\ New = {<<Statements[i], v>> : i \in (n + 1)..last}
  BY <1>1, StatementsFacts
<1>4. migration' = [migration EXCEPT !.done = last] /\ last \in 1..35
  <2>1. n + (last - n) = last /\ last \in 1..35
    <3> HIDE DEF UpgradeStatement
    <3> QED BY <1>2
  <2>2. migration' = [migration EXCEPT !.done = n + (last - n)]
    BY <1>3
  <2> QED BY <2>1, <2>2
<1>5. /\ migration'.by = migration.by /\ migration'.to = migration.to /\ migration'.done = last
      /\ migration' \in Migrations
  <2> HIDE DEF UpgradeStatement
  <2>1. last \in 0..Cardinality(AllParts)
    <3>1. PICK c : c = Cardinality(AllParts)
      OBVIOUS
    <3>2. c \in Nat /\ 35 <= c /\ last \in 1..35
      BY <1>4, <3>1, PartsCounted
    <3>3. last \in 0..c
      BY <3>2
    <3> QED BY <3>1, <3>3
  <2> QED BY <1>1, <1>4, <2>1 DEF SchemaTypeOK, Migrations
<1>6. New \subseteq AllParts
  BY <1>2, <1>3, PartAt
<1>7. SchemaTypeOK'
  BY <1>1, <1>5, <1>6 DEF SchemaTypeOK
<1>8. \A i \in 1..last : <<Statements[i], v>> \in objects'
  <2>1. \A i \in 1..n : <<Statements[i], v>> \in objects
    BY <1>1 DEF SchemaInv, ProgressSound
  <2> QED BY <1>2, <1>3, <2>1
<1>9. ProgressSound'
  <2>1. Upgrading' /\ ~Downgrading' /\ migration'.by # "nobody" /\ Statements' = Statements
    BY <1>1, <1>5 DEF Upgrading, Downgrading, Statements
  <2>2. \A s \in SchemaServers : starting'[s] = NotStarting
    BY <1>1 DEF SchemaInv, ProgressSound
  <2> QED BY <1>3, <1>5, <1>8, <2>1, <2>2 DEF ProgressSound
<1>10. (misled \/ NotMisled)'
  BY <1>1, <1>5 DEF SchemaInv, NotMisled, Raising
<1>11. (cutOff \/ RecordedKept)'
  <2>1. ~Downgrading'
    BY <1>1, <1>5 DEF Downgrading
  <2> QED BY <1>1, <2>1 DEF SchemaInv, RecordedKept
<1>12. ServersSound'
  BY DEF SchemaInv, ServersSound
<1>13. ReferencesResolve' /\ ReceiptSound'
  <2> SUFFICES ASSUME NEW p \in New, ~misled, NEW k \in ForeignKeys(p[1], p[2])
               PROVE  Base(k) \in objects'
    BY NothingAwaitsStamp, TablesAdded
  <2>1. PICK i \in (n + 1)..last : p = <<Statements[i], v>>
    BY <1>3
  <2>2. i \in 1..Len(Upgrades[v]) /\ p[1] = Upgrades[v][i] /\ p[2] = v
          /\ <<Upgrades[v][i], v>> \in AllParts
    BY <1>2, <1>3, <1>6, <2>1
  <2>3. k \in ForeignKeys(Upgrades[v][i], v)
    BY <2>2
  <2>4. /\ k \in LocalTables /\ CreatedIn(k) \in 1..v /\ Base(k) = <<k, CreatedIn(k)>>
        /\ CreatedIn(k) = v => \E j \in 1..Len(Upgrades[v]) : j < i /\ k = Upgrades[v][j]
    <3>1. PICK t, r : t = Upgrades[v][i] /\ r = v
      OBVIOUS
    <3>2. <<t, r>> \in AllParts /\ k \in ForeignKeys(t, r)
      BY <2>2, <2>3, <3>1
    <3>3. k \in LocalTables /\ CreatedIn(k) \in 1..r /\ Base(k) = <<k, CreatedIn(k)>>
            /\ r \in Revisions
      BY ONLY <3>2, KeyTarget
    <3>4. CreatedIn(k) = r => \E j \in 1..Len(Upgrades[r]) : j < i /\ k = Upgrades[r][j]
      <4>1. i \in 1..Len(Upgrades[r]) /\ t = Upgrades[r][i]
        BY <2>2, <3>1
      <4> QED BY ONLY <3>2, <3>3, <4>1, KeyBefore
    <3> QED BY ONLY <3>1, <3>3, <3>4
  <2>5. CASE CreatedIn(k) = v
    <3>1. PICK j \in 1..Len(Upgrades[v]) : j < i /\ k = Upgrades[v][j]
      BY <2>4, <2>5
    <3>2. j \in 1..last
      BY <1>2, <1>3, <2>1, <3>1
    <3> QED BY <1>2, <1>8, <2>4, <2>5, <3>1, <3>2
  <2>6. CASE CreatedIn(k) # v
    <3>1. CreatedIn(k) \in 1..version
      BY <1>2, <2>4, <2>6 DEF Revisions, CodeHead
    <3>2. <<k, CreatedIn(k)>> \in AllParts
      BY <2>4, CreatedFirst
    <3>3. <<k, CreatedIn(k)>> \in PartsUpTo(version)
      BY <1>1, <3>1, <3>2, PartAt
    <3> QED BY <1>1, <2>4, <3>3 DEF SchemaInv, NotMisled
  <2> QED BY <2>5, <2>6
<1> QED BY <1>7, <1>9, <1>10, <1>11, <1>12, <1>13 DEF SchemaInv

\* A revision is recorded when all its statements have run.
LEMMA RecordInv ==
  ASSUME SchemaInv, RecordRevision
  PROVE  SchemaInv'
<1> DEFINE v == version + 1
<1> USE DEF RecordRevision
<1>1. /\ SchemaTypeOK /\ Upgrading /\ migration.done = Len(Statements) /\ ~Downgrading
           /\ Raising
      /\ migration.by # "downgrade" /\ migration # NoMigration /\ version \in 0..CodeHead
  BY DEF SchemaInv, SchemaTypeOK, Upgrading, Downgrading, Raising, NoMigration
<1>2. v \in Revisions /\ v - 1 = version /\ v \in 0..CodeHead /\ Statements = Upgrades[v]
  BY <1>1 DEF Upgrading, SchemaTypeOK, Migrations, Revisions, CodeHead, Statements
<1>3. /\ migration'.by = migration.by /\ migration'.to = migration.to /\ migration'.done = 0
      /\ migration' \in Migrations
  BY <1>1, PartsCounted DEF SchemaTypeOK, Migrations
<1>4. SchemaTypeOK'
  BY <1>1, <1>2, <1>3 DEF SchemaTypeOK
<1>5. PartsUpTo(version) \subseteq objects => PartsUpTo(v) \subseteq objects
  <2> SUFFICES ASSUME PartsUpTo(version) \subseteq objects, NEW p \in PartsUpTo(v)
               PROVE  p \in objects
    OBVIOUS
  <2>1. PICK r \in 1..v : p \in PartsOf(r)
    BY DEF PartsUpTo
  <2>2. CASE r = v
    <3>1. PICK i \in 1..Len(Upgrades[v]) : p = <<Upgrades[v][i], v>>
      BY <1>2, <2>1, <2>2, PartsFacts
    <3> QED BY <1>1, <1>2, <3>1 DEF SchemaInv, ProgressSound
  <2>3. CASE r # v
    BY <1>1, <1>2, <2>1, <2>3 DEF PartsUpTo
  <2> QED BY <2>2, <2>3
<1>6. ProgressSound'
  <2>1. ~Downgrading' /\ migration'.by # "nobody" /\ (Upgrading' => Len(Statements') \in 1..35)
    <3>1. Upgrading' => v + 1 \in Revisions
      BY <1>1, <1>2, <1>3 DEF Upgrading, SchemaTypeOK, Migrations, Revisions, CodeHead
    <3>2. Statements' = Upgrades[v + 1]
      BY DEF Statements
    <3>3. Upgrading' => Len(Statements') \in 1..35
      BY <3>1, <3>2, RevisionFacts
    <3> QED BY <1>1, <1>3, <3>3 DEF Downgrading, Upgrading
  <2>2. \A s \in SchemaServers : starting'[s] = NotStarting
    BY <1>1 DEF SchemaInv, ProgressSound
  <2> QED BY <1>3, <2>1, <2>2 DEF ProgressSound
<1>7. (misled \/ NotMisled)'
  BY <1>1, <1>3, <1>5 DEF SchemaInv, NotMisled, Raising
<1>8. (cutOff \/ RecordedKept)'
  <2>1. ~Downgrading'
    BY <1>1, <1>3 DEF Downgrading
  <2> QED BY <1>1, <1>5, <2>1 DEF SchemaInv, RecordedKept
<1>9. ServersSound'
  BY DEF SchemaInv, ServersSound
<1>10. ReferencesResolve' /\ ReceiptSound'
  BY NothingAwaitsStamp, TablesAdded
<1> QED BY <1>4, <1>6, <1>7, <1>8, <1>9, <1>10 DEF SchemaInv

\* The migration ends or dies.
LEMMA MigrationStops ==
  ASSUME SchemaInv, EndMigration \/ MigrationCrash
  PROVE  SchemaInv'
<1>1. /\ migration' = NoMigration
      /\ UNCHANGED <<dialect, objects, version, tracked, starting, references, receipt, misled>>
      /\ (cutOff => cutOff') /\ cutOff' \in BOOLEAN
      /\ ~cutOff' => ~(Downgrading /\ migration.done > 0)
  <2>1. SchemaTypeOK /\ migration \in Migrations /\ version \in 0..CodeHead
    BY DEF SchemaInv, SchemaTypeOK
  <2>2. CASE EndMigration
    BY <2>1, <2>2 DEF EndMigration, Upgrading, Downgrading, SchemaTypeOK, Migrations, CodeHead
  <2>3. CASE MigrationCrash
    BY <2>1, <2>3 DEF MigrationCrash, SchemaTypeOK
  <2> QED BY <2>2, <2>3
<1>2. SchemaTypeOK'
  <2>1. NoMigration \in Migrations
    BY PartsCounted DEF NoMigration, Migrations, CodeHead
  <2>2. tracked' \in BOOLEAN /\ cutOff' \in BOOLEAN /\ misled' \in BOOLEAN
    <3>1. tracked \in BOOLEAN /\ misled \in BOOLEAN
      BY DEF SchemaInv, SchemaTypeOK
    <3>2. tracked' = tracked /\ misled' = misled
      BY <1>1
    <3>3. cutOff' \in BOOLEAN
      BY <1>1
    <3> QED BY <3>1, <3>2, <3>3, Zenon
  <2>3. (objects \subseteq AllParts)' /\ starting' \in [SchemaServers -> SUBSET LocalTables]
        /\ (dialect \in {"sqlite", "turso"})' /\ version' \in 0..CodeHead
        /\ references' \subseteq {1, CodeHead} /\ receipt' \in {0, 1, CodeHead}
    BY <1>1 DEF SchemaInv, SchemaTypeOK
  <2> QED BY <1>1, <2>1, <2>2, <2>3 DEF SchemaTypeOK
<1>3. ProgressSound' /\ NotMisled' /\ (RecordedKept' <=> PartsUpTo(version) \subseteq objects)
  BY <1>1, <1>2 DEF NoMigration, Upgrading, Downgrading, Raising, NotMisled, RecordedKept,
      ProgressSound
<1>4. (cutOff \/ RecordedKept)'
  BY <1>1, <1>3 DEF SchemaInv, RecordedKept
<1>5. ServersSound'
  BY <1>1 DEF SchemaInv, ServersSound
<1>6. ReferencesResolve' /\ ReceiptSound'
  BY <1>1, TablesAdded DEF NoMigration
<1> QED BY <1>2, <1>3, <1>4, <1>5, <1>6 DEF SchemaInv

\* A statement of a downgrade takes away what nothing that is left refers to.
LEMMA UndoInv ==
  ASSUME SchemaInv, DowngradeStatement
  PROVE  SchemaInv'
<1> DEFINE n == migration.done  v == version  U == Upgrades[v]  L == Len(U)
<1>1. /\ SchemaTypeOK /\ Downgrading /\ n < Len(Undone) /\ ~Upgrading /\ ~Raising
      /\ migration.by = "downgrade" /\ migration # NoMigration /\ receipt = 0
  BY DEF SchemaInv, DowngradeStatement, Upgrading, Downgrading, Raising, NoMigration,
      ReceiptSound, SchemaTypeOK, Migrations, CodeHead
<1>2. /\ v \in Revisions /\ L \in 1..35 /\ n \in Nat /\ v \in 0..CodeHead
           /\ v - 1 \in 0..CodeHead
      /\ Undone = Downgrades[v] /\ Len(Undone) = L /\ OrderedByKeys(U) /\ DOMAIN U = 1..L
  <2>1. v \in Revisions /\ n \in Nat /\ v - 1 \in 0..CodeHead /\ v \in 0..CodeHead
    BY <1>1 DEF SchemaTypeOK, Migrations, Downgrading, Revisions, CodeHead
  <2> QED BY <2>1, RevisionFacts, UndoneFacts DEF Undone
<1>3. \A i \in 1..L : Undone[i] = U[L + 1 - i]
  BY <1>2, UndoneFacts
<1>4. PICK last \in 1..35 :
        /\ last \in (n + 1)..L
        /\ objects' = objects \ {<<Undone[i], v>> : i \in (n + 1)..last}
        /\ migration' = [migration EXCEPT !.done = last]
  <2>1. L \in (n + 1)..L /\ n + 1 \in (n + 1)..L /\ n + 1 \in 1..35
    <3>1. n < L
      BY <1>1, <1>2
    <3> HIDE DEF n, L
    <3> QED BY <1>2, <3>1
  <2>2. \/ /\ objects' = objects \ {<<Undone[i], v>> : i \in (n + 1)..L}
           /\ migration' = [migration EXCEPT !.done = L]
        \/ /\ objects' = objects \ {<<Undone[i], v>> : i \in (n + 1)..(n + 1)}
           /\ migration' = [migration EXCEPT !.done = n + 1]
    BY <1>2 DEF DowngradeStatement, Part
  <2> QED BY <1>2, <2>1, <2>2
<1>5. /\ migration'.by = "downgrade" /\ migration'.to = migration.to /\ migration'.done = last
      /\ migration' \in Migrations
  <2>1. last \in 0..Cardinality(AllParts)
    <3>1. PICK c : c = Cardinality(AllParts)
      OBVIOUS
    <3>2. c \in Nat /\ 35 <= c
      BY <3>1, PartsCounted
    <3>3. last \in 0..c
      BY <3>2
    <3> QED BY <3>1, <3>3
  <2> QED BY <1>1, <1>4, <2>1 DEF SchemaTypeOK, Migrations
<1>6. UNCHANGED <<dialect, version, tracked, starting, references, receipt, cutOff, misled>>
  BY DEF DowngradeStatement
<1>7. SchemaTypeOK'
  BY <1>1, <1>4, <1>5, <1>6 DEF SchemaTypeOK
<1>8. \A i \in 1..last : <<Undone[i], v>> \notin objects'
  <2>1. \A i \in 1..n : <<Undone[i], v>> \notin objects
    BY <1>1 DEF SchemaInv, ProgressSound
  <2>2. \A i \in 1..last : i \in 1..n \/ i \in (n + 1)..last
    BY <1>2
  <2> QED BY <1>4, <2>1, <2>2
<1>9. ProgressSound'
  <2>1. Downgrading' /\ ~Upgrading' /\ migration'.by # "nobody" /\ Undone' = Undone
    BY <1>1, <1>5, <1>6 DEF Upgrading, Downgrading, Undone
  <2>2. \A s \in SchemaServers : starting'[s] = NotStarting
    BY <1>1, <1>6 DEF SchemaInv, ProgressSound
  <2>3. last <= Len(Undone)
    BY <1>2, <1>4
  <2> QED BY <1>5, <1>6, <1>8, <2>1, <2>2, <2>3 DEF ProgressSound
<1>10. (misled \/ NotMisled)'
  BY <1>1, <1>4, <1>5, <1>6 DEF SchemaInv, NotMisled, Raising
<1>11. (cutOff \/ RecordedKept)'
  <2> SUFFICES ASSUME RecordedKept PROVE PartsUpTo(v - 1) \subseteq objects'
    <3>1. Downgrading' /\ migration'.done > 0
      BY <1>1, <1>5, <1>6 DEF Downgrading
    <3> QED BY <1>6, <3>1 DEF SchemaInv, RecordedKept
  <2> SUFFICES ASSUME NEW p \in PartsUpTo(v - 1) PROVE p \in objects'
    OBVIOUS
  <2>1. p \in AllParts /\ p = <<p[1], p[2]>>
    BY <1>2, PartsFacts, PairParts
  <2>2. p[2] \in 1..(v - 1)
    BY <1>2, <2>1, PartAt
  <2>3. p \in PartsUpTo(v)
    BY <1>2, <2>1, <2>2, PartAt DEF Revisions, CodeHead
  <2>4. p \in objects
    BY <2>3 DEF RecordedKept
  <2>5. p[2] # v
    BY <1>2, <2>2 DEF Revisions, CodeHead
  <2> QED BY <1>4, <2>4, <2>5
<1>12. ServersSound'
  BY <1>1, <1>6 DEF SchemaInv, ServersSound, ProgressSound
<1>13. ReceiptSound'
  BY <1>1, <1>6, NoParts DEF ReceiptSound
<1>14. ReferencesResolve'
  <2> SUFFICES ASSUME ~misled, NEW p \in objects', NEW k \in ForeignKeys(p[1], p[2]),
                      Base(k) \notin objects'
               PROVE  FALSE
    BY <1>6 DEF ReferencesResolve
  <2>1. p \in objects /\ Base(k) \in objects
    BY <1>4 DEF SchemaInv, ReferencesResolve
  <2>2. p \in PartsUpTo(v) /\ p \in AllParts
    BY <1>1, <2>1 DEF SchemaInv, NotMisled, SchemaTypeOK
  <2>3. PICK t, r : p = <<t, r>> /\ t = p[1] /\ r = p[2]
    BY <2>2, PairParts
  <2>4. r \in 1..v /\ <<t, r>> \in AllParts
    BY <1>2, <2>2, <2>3, PartAt
  <2>5. CreatedIn(k) \in 1..r /\ Base(k) = <<k, CreatedIn(k)>> /\ k \in ForeignKeys(t, r)
          /\ r \in Revisions
    <3>1. k \in ForeignKeys(t, r)
      BY <2>3
    <3> QED BY ONLY <2>4, <3>1, KeyTarget
  <2>6. PICK i \in (n + 1)..last : Base(k) = <<Undone[i], v>>
    BY <1>4, <2>1
  <2>7. i \in 1..L /\ i <= last
    BY <1>2, <1>4, <2>6
  <2>8. CreatedIn(k) = v /\ k = U[L + 1 - i]
    BY <1>3, <2>5, <2>6, <2>7
  <2>9. r = v
    BY <1>2, <2>4, <2>5, <2>8 DEF Revisions, CodeHead
  <2>10. PICK a \in 1..L : t = U[a]
    BY <2>4, <2>9, PartAt
  <2>11. PICK j \in 1..L : j < a /\ k = U[j]
    <3>1. CreatedIn(k) = r /\ a \in 1..Len(Upgrades[r]) /\ t = Upgrades[r][a]
      BY <2>8, <2>9, <2>10
    <3>2. \E j \in 1..Len(Upgrades[r]) : j < a /\ k = Upgrades[r][j]
      BY ONLY <2>5, <3>1, KeyBefore
    <3> QED BY <2>9, <3>2
  <2>12. L + 1 - i \in 1..L
    BY <1>2, <2>7
  <2>13. j = L + 1 - i
    BY <1>2, <2>8, <2>11, <2>12 DEF OrderedByKeys
  <2>14. L + 1 - a \in 1..last /\ L + 1 - a \in 1..L /\ L + 1 - (L + 1 - a) = a
    <3>1. L \in 1..35 /\ i \in 1..L /\ i <= last /\ a \in 1..L /\ j < a /\ j = L + 1 - i
      BY <1>2, <2>7, <2>10, <2>11, <2>13
    <3>2. L + 1 - a < i
      <4> HIDE DEF L, n
      <4> QED BY <3>1
    <3> HIDE DEF L, n
    <3> QED BY <3>1, <3>2
  <2>15. Undone[L + 1 - a] = t
    BY <1>3, <2>10, <2>14
  <2>16. <<t, v>> \notin objects'
    BY <1>8, <2>14, <2>15
  <2> QED BY <2>3, <2>9, <2>16
<1> QED BY <1>7, <1>9, <1>10, <1>11, <1>12, <1>13, <1>14 DEF SchemaInv

\* A revision is taken back when nothing of it is left.
LEMMA UnrecordInv ==
  ASSUME SchemaInv, UnrecordRevision
  PROVE  SchemaInv'
<1> DEFINE v == version  U == Upgrades[v]  L == Len(U)
<1>1. /\ SchemaTypeOK /\ Downgrading /\ migration.done = Len(Undone) /\ ~Upgrading /\ ~Raising
      /\ migration.by = "downgrade" /\ migration # NoMigration /\ receipt = 0
  BY DEF SchemaInv, UnrecordRevision, Upgrading, Downgrading, Raising, NoMigration,
      ReceiptSound, SchemaTypeOK, Migrations, CodeHead
<1>2. /\ v \in Revisions /\ L \in 1..35 /\ v \in 0..CodeHead /\ v - 1 \in 0..CodeHead
      /\ Undone = Downgrades[v] /\ Len(Undone) = L
  <2>1. v \in Revisions /\ v - 1 \in 0..CodeHead /\ v \in 0..CodeHead
    BY <1>1 DEF SchemaTypeOK, Migrations, Downgrading, Revisions, CodeHead
  <2> QED BY <2>1, RevisionFacts, UndoneFacts DEF Undone
<1>3. \A i \in 1..L : Undone[i] = U[L + 1 - i]
  BY <1>2, UndoneFacts
<1>4. /\ version' = v - 1 /\ migration' = [migration EXCEPT !.done = 0]
      /\ UNCHANGED <<dialect, objects, tracked, starting, references, receipt, cutOff, misled>>
  BY DEF UnrecordRevision
<1>5. /\ migration'.by = "downgrade" /\ migration'.to = migration.to /\ migration'.done = 0
      /\ migration' \in Migrations
  BY <1>1, <1>4, PartsCounted DEF SchemaTypeOK, Migrations
<1>6. SchemaTypeOK'
  BY <1>1, <1>2, <1>4, <1>5 DEF SchemaTypeOK
<1>7. ProgressSound'
  <2>1. ~Upgrading' /\ ~Raising'
    BY <1>5 DEF Upgrading, Raising
  <2>2. Downgrading' => Len(Undone') \in 1..35
    <3>1. Downgrading' => v - 1 \in Revisions
      BY <1>1, <1>2, <1>4, <1>5 DEF Downgrading, SchemaTypeOK, Migrations, Revisions, CodeHead
    <3> QED BY <1>4, <3>1, RevisionFacts, UndoneFacts DEF Undone
  <2>3. \A s \in SchemaServers : starting'[s] = NotStarting
    BY <1>1, <1>4 DEF SchemaInv, ProgressSound
  <2> QED BY <1>5, <2>1, <2>2, <2>3 DEF ProgressSound
<1>8. (misled \/ NotMisled)'
  <2> SUFFICES ASSUME NotMisled, NEW p \in objects PROVE p \in PartsUpTo(v - 1)
    BY <1>4, <1>5 DEF SchemaInv, NotMisled, Raising
  <2>1. p \in AllParts /\ p \in PartsUpTo(v)
    BY <1>1 DEF SchemaTypeOK, NotMisled
  <2>2. PICK t, r : p = <<t, r>>
    BY <2>1, PairParts
  <2>3. <<t, r>> \in AllParts /\ r \in 1..v
    BY <1>2, <2>1, <2>2, PartAt
  <2>4. r # v
    <3> SUFFICES ASSUME r = v PROVE FALSE
      OBVIOUS
    <3>1. PICK i \in 1..L : t = U[i]
      BY <2>3, PartAt
    <3>2. L + 1 - i \in 1..L /\ L + 1 - (L + 1 - i) = i
      BY <1>2, <3>1
    <3>3. Undone[L + 1 - i] = t
      BY <1>3, <3>1, <3>2
    <3>4. <<t, v>> \notin objects
      BY <1>1, <1>2, <3>2, <3>3 DEF SchemaInv, ProgressSound
    <3> QED BY <2>2, <3>4
  <2>5. r \in 1..(v - 1)
    BY <1>2, <2>3, <2>4 DEF Revisions, CodeHead
  <2> QED BY <1>2, <2>2, <2>3, <2>5, PartAt
<1>9. (cutOff \/ RecordedKept)'
  <2>1. migration.done = L /\ L \in 1..35
    BY <1>1, <1>2
  <2>2. migration.done > 0
    <3> HIDE DEF L
    <3> QED BY <2>1
  <2> QED BY <1>1, <1>4, <1>5, <2>2 DEF SchemaInv, RecordedKept
<1>10. ServersSound'
  BY <1>4 DEF SchemaInv, ServersSound
<1>11. ReferencesResolve' /\ ReceiptSound'
  BY <1>1, <1>4, TablesAdded
<1> QED BY <1>6, <1>7, <1>8, <1>9, <1>10, <1>11 DEF SchemaInv

\* Steps outside a migration: nothing is taken away, and what is added resolves.
LEMMA RestInv ==
  ASSUME SchemaInv, migration = NoMigration, SchemaTypeOK',
         UNCHANGED <<migration, misled, cutOff>>, objects \subseteq objects',
         cutOff \/ PartsUpTo(version') \subseteq objects',
         PartsUpTo(receipt') \subseteq objects', receipt' # 0 => version' = 0, ServersSound',
         \A p \in objects' \ objects : \A k \in ForeignKeys(p[1], p[2]) : Base(k) \in objects'
  PROVE  SchemaInv'
<1>1. /\ ProgressSound' /\ NotMisled'
      /\ RecordedKept' <=> (PartsUpTo(version) \subseteq objects)'
  BY DEF NoMigration, Upgrading, Downgrading, Raising, NotMisled, RecordedKept, ProgressSound
<1>2. ReferencesResolve'
  BY DEF SchemaInv, ReferencesResolve
<1>3. ReceiptSound'
  BY DEF ReceiptSound, NoMigration
<1> QED BY <1>1, <1>2, <1>3 DEF SchemaInv

\* Without a migration the recorded revision is complete.
LEMMA RestFacts ==
  ASSUME SchemaInv, migration = NoMigration
  PROVE  /\ cutOff \/ PartsUpTo(version) \subseteq objects
         /\ PartsUpTo(receipt) \subseteq objects /\ (receipt # 0 => version = 0)
         /\ SchemaTypeOK /\ ServersSound
BY NoMigrationFacts DEF SchemaInv, ReceiptSound

\* A server that creates what it found missing.
LEMMA ServerInv ==
  ASSUME SchemaInv, NEW s \in SchemaServers, StartServer(s) \/ CreateTables(s) \/ StartFails(s)
  PROVE  SchemaInv'
<1>1. migration = NoMigration
  BY DEF SchemaInv, ProgressSound, StartServer, CreateTables, StartFails
<1>2. /\ UNCHANGED <<dialect, version, tracked, migration, references, receipt, cutOff, misled>>
      /\ SchemaTypeOK /\ starting \in [SchemaServers -> SUBSET LocalTables]
  BY DEF SchemaInv, SchemaTypeOK, StartServer, CreateTables, StartFails
<1>3. CASE StartServer(s)
  <2>1. objects' = objects /\ starting' = [starting EXCEPT ![s] = Missing]
          /\ Missing \subseteq LocalTables
    BY <1>3 DEF StartServer, Missing
  <2>2. SchemaTypeOK'
    <3>1. starting' \in [SchemaServers -> SUBSET LocalTables]
      BY <1>2, <2>1
    <3> QED BY <1>2, <2>1, <3>1 DEF SchemaTypeOK
  <2>3. ServersSound'
    BY <1>2, <2>1 DEF SchemaInv, ServersSound, Missing
  <2> QED BY <1>1, <1>2, <2>1, <2>2, <2>3, RestInv, RestFacts
<1>4. CASE StartFails(s)
  <2>1. objects' = objects /\ starting' = [starting EXCEPT ![s] = NotStarting]
    BY <1>4 DEF StartFails
  <2>2. SchemaTypeOK'
    <3>1. starting' \in [SchemaServers -> SUBSET LocalTables]
      BY <1>2, <2>1 DEF NotStarting
    <3> QED BY <1>2, <2>1, <3>1 DEF SchemaTypeOK
  <2>3. ServersSound'
    BY <1>2, <2>1 DEF SchemaInv, ServersSound
  <2> QED BY <1>1, <1>2, <2>1, <2>2, <2>3, RestInv, RestFacts
<1>5. CASE CreateTables(s)
  <2> DEFINE Added == {p \in AllParts : TableOf(p[1]) \in ReadyTables(s)}
  <2>1. /\ starting[s] # NotStarting /\ objects' = objects \cup Added
        /\ starting' = [starting EXCEPT ![s] = starting[s] \ ReadyTables(s)]
    BY <1>5 DEF CreateTables
  <2>2. SchemaTypeOK'
    <3>1. starting' \in [SchemaServers -> SUBSET LocalTables]
      BY <1>2, <2>1
    <3> QED BY <1>2, <2>1, <3>1 DEF SchemaTypeOK
  <2>3. \A t \in LocalTables \ starting[s] : Base(t) \in objects
    BY <2>1 DEF SchemaInv, ServersSound
  <2>4. \A t \in ReadyTables(s) : Base(t) \in Added
    <3> SUFFICES ASSUME NEW t \in ReadyTables(s) PROVE Base(t) \in Added
      OBVIOUS
    <3>1. t \in LocalTables
      BY <1>2 DEF ReadyTables
    <3>2. Base(t) = <<t, CreatedIn(t)>> /\ Base(t) \in AllParts /\ TableOf(t) = t
      BY <3>1, CreatedFirst, TableOfFacts
    <3> QED BY <3>2
  <2>5. ServersSound'
    <3> SUFFICES ASSUME NEW q \in SchemaServers, starting'[q] # NotStarting,
                        NEW t \in LocalTables \ starting'[q]
                 PROVE  Base(t) \in objects'
      BY DEF ServersSound
    <3>1. CASE q # s
      BY <1>2, <2>1, <3>1 DEF SchemaInv, ServersSound
    <3>2. CASE q = s
      BY <1>2, <2>1, <2>3, <2>4, <3>2
    <3> QED BY <3>1, <3>2
  <2>6. ASSUME NEW p \in Added, NEW k \in ForeignKeys(p[1], p[2])
        PROVE  Base(k) \in objects'
    <3>1. p = <<p[1], p[2]>> /\ <<p[1], p[2]>> \in AllParts
      BY PairParts
    <3>2. k \in LocalTables /\ p[1] \in LocalTables /\ <<p[1], k>> \in References
      BY <3>1, KeyTarget
    <3>3. k \in Targets[p[1]]
      BY <3>2 DEF Targets, ForeignKeys
    <3>4. k \notin starting[s]
      <4>1. p[1] \in ReadyTables(s)
        BY <3>2, TableOfFacts
      <4> QED BY <3>3, <4>1 DEF ReadyTables
    <3> QED BY <2>1, <2>3, <3>2, <3>4
  <2>7. /\ PartsUpTo(receipt') \subseteq objects'
        /\ cutOff \/ PartsUpTo(version') \subseteq objects'
    BY <1>1, <1>2, <2>1, RestFacts
  <2>8. objects \subseteq objects' /\ (receipt' # 0 => version' = 0)
    BY <1>1, <1>2, <2>1, RestFacts
  <2>9. \A p \in objects' \ objects : \A k \in ForeignKeys(p[1], p[2]) : Base(k) \in objects'
    <3> HIDE DEF Added
    <3> QED BY <2>1, <2>6
  <2> QED BY <1>1, <1>2, <2>2, <2>5, <2>7, <2>8, <2>9, RestInv
<1> QED BY <1>3, <1>4, <1>5

LEMMA ReferenceInv ==
  ASSUME SchemaInv, NEW r \in {1, CodeHead}, WriteReference(r)
  PROVE  SchemaInv'
<1>1. /\ references' = references \cup {r}
      /\ UNCHANGED <<dialect, objects, version, tracked, migration, starting, receipt, cutOff,
                     misled>>
  BY DEF WriteReference
<1>2. SchemaTypeOK'
  BY <1>1 DEF SchemaInv, SchemaTypeOK
<1>3. /\ (Upgrading' <=> Upgrading) /\ (Downgrading' <=> Downgrading) /\ (Raising' <=> Raising)
      /\ Statements' = Statements /\ Undone' = Undone
  BY <1>1 DEF Upgrading, Downgrading, Raising, Statements, Undone
<1>4. ProgressSound'
  BY <1>1, <1>3 DEF SchemaInv, ProgressSound
<1>5. (misled \/ NotMisled)' /\ (cutOff \/ RecordedKept)' /\ ServersSound'
  BY <1>1, <1>3 DEF SchemaInv, NotMisled, RecordedKept, ServersSound
<1>6. ReferencesResolve' /\ ReceiptSound'
  BY <1>1, TablesAdded DEF SchemaInv, ReceiptSound
<1> QED BY <1>2, <1>4, <1>5, <1>6 DEF SchemaInv

\* What the audit recommends exists, and is still there when it is stamped.
LEMMA AuditInv ==
  ASSUME SchemaInv, Audit \/ Stamp
  PROVE  SchemaInv'
<1>1. CASE Audit
  <2>1. /\ migration = NoMigration /\ receipt' = Recommended
        /\ UNCHANGED <<dialect, objects, version, tracked, migration, starting, references,
                       cutOff, misled>>
    BY <1>1 DEF Audit
  <2>2. Recommended = 0 \/ (Recommended \in {1, CodeHead} /\ objects = PartsUpTo(Recommended))
    BY DEF Recommended, Exact
  <2>3. SchemaTypeOK'
    BY <2>1, <2>2 DEF SchemaInv, SchemaTypeOK
  <2>4. ServersSound'
    BY <2>1 DEF SchemaInv, ServersSound
  <2>5. PartsUpTo(receipt') \subseteq objects /\ (receipt' # 0 => version' = 0)
    BY <2>1, <2>2, NoParts DEF Recommended
  <2> QED BY <2>1, <2>3, <2>4, <2>5, RestInv, RestFacts
<1>2. CASE Stamp
  <2>1. /\ migration = NoMigration /\ receipt' = 0 /\ version' = receipt
        /\ UNCHANGED <<dialect, objects, tracked, migration, starting, references, cutOff,
                       misled>>
    BY <1>2 DEF Stamp
  <2>2. SchemaTypeOK'
    BY <2>1 DEF SchemaInv, SchemaTypeOK, CodeHead
  <2>3. ServersSound'
    BY <2>1 DEF SchemaInv, ServersSound
  <2>4. PartsUpTo(receipt') \subseteq objects /\ PartsUpTo(version') \subseteq objects
    BY <2>1, NoParts, RestFacts
  <2> QED BY <2>1, <2>2, <2>3, <2>4, RestInv
<1> QED BY <1>1, <1>2

LEMMA SchemaStep == SchemaInv /\ [SchemaNext]_schemaVars => SchemaInv'
<1> SUFFICES ASSUME SchemaInv, [SchemaNext]_schemaVars PROVE SchemaInv'
  OBVIOUS
<1>1. CASE UNCHANGED schemaVars
  <2>1. UNCHANGED <<dialect, objects, version, tracked, migration, starting, references,
                    receipt, cutOff, misled>>
    BY <1>1 DEF schemaVars
  <2>2. SchemaTypeOK'
    BY <2>1 DEF SchemaInv, SchemaTypeOK
  <2>3. ProgressSound'
    BY <2>1 DEF SchemaInv, ProgressSound, Upgrading, Downgrading, Statements, Undone
  <2>4. (misled \/ NotMisled)' /\ (cutOff \/ RecordedKept)' /\ ServersSound'
    BY <2>1 DEF SchemaInv, NotMisled, RecordedKept, ServersSound, Downgrading, Raising
  <2>5. ReferencesResolve' /\ ReceiptSound'
    BY <2>1, TablesAdded DEF SchemaInv, ReceiptSound
  <2> QED BY <2>2, <2>3, <2>4, <2>5 DEF SchemaInv
<1>2. CASE SchemaNext
  BY <1>2, MigrationStarts, StatementInv, RecordInv, MigrationStops, UndoInv, UnrecordInv, ServerInv,
      ReferenceInv, AuditInv DEF SchemaNext
<1> QED BY <1>1, <1>2

LEMMA SchemaInvariant == SchemaSpec => []SchemaInv
<1>1. SchemaInit => SchemaInv
  BY InitSchema
<1>2. SchemaInv /\ [SchemaNext]_schemaVars => SchemaInv'
  BY SchemaStep
<1> QED BY <1>1, <1>2, PTL DEF SchemaSpec

\* Tables, revisions and migrations stay within their types, for any number of servers and
\* migrations.
THEOREM SchemaTypeCorrect == SchemaSpec => []SchemaTypeOK
<1>1. SchemaInv => SchemaTypeOK
  BY DEF SchemaInv
<1> QED BY <1>1, SchemaInvariant, PTL

\* Every foreign key resolves and the recorded revision claims nothing that is missing, between
\* any two statements of any migrations, server starts, audits and crashes.
THEOREM SchemaIsSound == SchemaSpec => []SchemaSound
<1>1. SchemaInv => SchemaSound
  BY RecordedIsComplete, ModelsAreMigrated DEF SchemaInv, SchemaTypeOK, SchemaSound
<1> QED BY <1>1, SchemaInvariant, PTL

-----------------------------------------------------------------------------
(* The cooldown of the sources. *)
USE CooldownAssumption

\* The request q was let through to the source s, and has not yet ended.
LetThrough(q, s) ==
  \/ q.at = "calling" /\ s \in q.ready
  \/ q.at = "health" /\ (s \in q.awaiting \/ q.loaded[s] # 0)
  \/ q.at = "testing" /\ s = q.source

\* What it was let through past: no cooldown that is still there.
RequestSound(q) ==
  /\ q.at = "health" => \A s, t \in q.awaiting : s = t
  /\ q # NotAsking => \A s \in Limitable :
      /\ q.asked[s] <= latest[s]
      /\ LetThrough(q, s) => q.asked[s] < latest[s] \/ ~InCooldown(s)
      /\ (q.at = "health" /\ s \notin q.checked \cup q.awaiting /\ s \in q.passed
            /\ q.asked[s] = latest[s]) => elapsed[s]

CooldownInv == CooldownTypeOK /\ \A r \in SourceRequests : RequestSound(asking[r])

\* What every step does to the rows: cooldowns are only added, and only a new one begins.
RowsStep ==
  /\ cooldown' \in PerSource(0..MaxCooldowns)
  /\ latest' \in PerSource(0..MaxCooldowns)
  /\ elapsed' \in PerSource(BOOLEAN)
  /\ \A s \in Limitable :
       /\ latest[s] <= latest'[s]
       /\ latest'[s] = latest[s] => /\ elapsed[s] => elapsed'[s]
                                    /\ InCooldown(s)' => InCooldown(s)

LEMMA RequestShape ==
  ASSUME CooldownTypeOK, NEW q \in Asking
  PROVE  /\ q.at = "idle" <=> q = NotAsking
         /\ q # NotAsking => q.asked \in PerSource(0..MaxCooldowns)
         /\ q.at = "calling" => q.ready \subseteq Limitable
         /\ q.at = "health" => /\ q.checked \subseteq Limitable /\ q.awaiting \subseteq Limitable
                               /\ q.passed \subseteq Limitable
                               /\ q.loaded \in PerSource(0..MaxCooldowns)
         /\ q.at = "testing" => q.source \in Limitable
BY DEF Asking, NotAsking

LEMMA SoundStays ==
  ASSUME CooldownTypeOK, RowsStep, NEW q \in Asking, RequestSound(q)
  PROVE  RequestSound(q)'
<1> SUFFICES ASSUME q # NotAsking, NEW s \in Limitable
             PROVE  /\ q.asked[s] <= latest'[s]
                    /\ LetThrough(q, s) => q.asked[s] < latest'[s] \/ ~InCooldown(s)'
                    /\ (q.at = "health" /\ s \notin q.checked \cup q.awaiting /\ s \in q.passed
                          /\ q.asked[s] = latest'[s]) => elapsed'[s]
  BY DEF RequestSound, LetThrough
<1>1. q.asked[s] \in Nat /\ latest[s] \in Nat /\ latest'[s] \in Nat
  <2>1. q.asked \in PerSource(0..MaxCooldowns)
    BY RequestShape
  <2> QED BY <2>1 DEF CooldownTypeOK, RowsStep, PerSource
<1>2. /\ latest[s] <= latest'[s]
      /\ latest'[s] = latest[s] => (elapsed[s] => elapsed'[s]) /\ (InCooldown(s)' => InCooldown(s))
  BY DEF RowsStep
<1>3. /\ q.asked[s] <= latest[s]
      /\ LetThrough(q, s) => q.asked[s] < latest[s] \/ ~InCooldown(s)
      /\ (q.at = "health" /\ s \notin q.checked \cup q.awaiting /\ s \in q.passed
            /\ q.asked[s] = latest[s]) => elapsed[s]
  BY DEF RequestSound
<1>4. CASE latest'[s] = latest[s]
  BY <1>2, <1>3, <1>4
<1>5. CASE latest'[s] # latest[s]
  BY <1>1, <1>2, <1>3, <1>5
<1> QED BY <1>4, <1>5

\* A step of one request.
LEMMA RequestStep ==
  ASSUME CooldownInv, RowsStep, NEW r \in SourceRequests, NEW q \in Asking,
         asking' = [asking EXCEPT ![r] = q], RequestSound(q)'
  PROVE  CooldownInv'
<1>1. asking \in [SourceRequests -> Asking] /\ CooldownTypeOK
  BY DEF CooldownInv, CooldownTypeOK
<1>2. asking' \in [SourceRequests -> Asking]
  BY <1>1
<1>3. CooldownTypeOK'
  BY <1>2 DEF CooldownTypeOK, RowsStep, PerSource
<1>4. ASSUME NEW k \in SourceRequests PROVE RequestSound(asking[k])'
  <2>1. CASE k = r
    <3>1. asking'[k] = q
      BY <1>1, <2>1
    <3> QED BY <3>1 DEF RequestSound, LetThrough
  <2>2. CASE k # r
    <3>1. asking'[k] = asking[k] /\ asking[k] \in Asking /\ RequestSound(asking[k])
      BY <1>1, <2>2 DEF CooldownInv
    <3>2. PICK p \in Asking : p = asking[k]
      BY <3>1
    <3>3. RequestSound(p)'
      BY <1>1, <3>1, <3>2, SoundStays
    <3> QED BY <3>1, <3>2, <3>3 DEF RequestSound, LetThrough
  <2> QED BY <2>1, <2>2
<1> QED BY <1>3, <1>4 DEF CooldownInv

LEMMA RowsStay ==
  ASSUME CooldownTypeOK, UNCHANGED sourceRows
  PROVE  RowsStep
<1>1. \A s \in Limitable : latest[s] \in Nat
  BY DEF CooldownTypeOK, PerSource
<1> QED BY <1>1 DEF RowsStep, sourceRows, CooldownTypeOK, InCooldown

LEMMA IdleSound == NotAsking \in Asking /\ RequestSound(NotAsking)'
BY DEF Asking, RequestSound, NotAsking

LEMMA AfterCallRows ==
  ASSUME CooldownTypeOK, NEW status, DOMAIN status \subseteq Limitable, AfterCall(status)
  PROVE  /\ RowsStep
         /\ \A s \in Limitable \ DOMAIN status : cooldown'[s] = cooldown[s]
<1> DEFINE limited == {s \in DOMAIN status : status[s] = "rate_limited"}
           healthy == {s \in DOMAIN status : status[s] = "ok"}
<1>1. /\ \A s \in limited : latest[s] < MaxCooldowns
      /\ latest' = [s \in Limitable |-> IF s \in limited THEN latest[s] + 1 ELSE latest[s]]
      /\ cooldown' = [s \in Limitable |-> IF s \in limited THEN latest[s] + 1
                                         ELSE IF s \in healthy THEN 0 ELSE cooldown[s]]
      /\ elapsed' = [s \in Limitable |-> s \notin limited /\ elapsed[s]]
  BY DEF AfterCall
<1>2. limited \subseteq Limitable /\ healthy \subseteq DOMAIN status /\ limited \subseteq DOMAIN status
  OBVIOUS
<1> HIDE DEF limited, healthy
<1>3. /\ \A s \in Limitable : latest[s] \in 0..MaxCooldowns /\ cooldown[s] \in 0..MaxCooldowns
      /\ \A s \in Limitable : elapsed[s] \in BOOLEAN
  BY DEF CooldownTypeOK, PerSource
<1>4. latest' \in PerSource(0..MaxCooldowns)
  BY <1>1, <1>2, <1>3 DEF PerSource
<1>5. cooldown' \in PerSource(0..MaxCooldowns)
  BY <1>1, <1>2, <1>3 DEF PerSource
<1>6. elapsed' \in PerSource(BOOLEAN)
  BY <1>1 DEF PerSource
<1>7. ASSUME NEW s \in Limitable
      PROVE  /\ latest[s] <= latest'[s]
             /\ latest'[s] = latest[s] => /\ elapsed[s] => elapsed'[s]
                                          /\ InCooldown(s)' => InCooldown(s)
             /\ s \notin DOMAIN status => cooldown'[s] = cooldown[s]
  <2>1. CASE s \in limited
    <3>1. latest'[s] = latest[s] + 1 /\ latest[s] \in Int /\ s \in DOMAIN status
      BY <1>1, <1>2, <1>3, <2>1
    <3> QED BY <3>1
  <2>2. CASE s \notin limited
    <3>1. /\ latest'[s] = latest[s] /\ latest[s] \in Int
          /\ cooldown'[s] = (IF s \in healthy THEN 0 ELSE cooldown[s])
      BY <1>1, <1>3, <2>2
    <3>2. elapsed'[s] <=> elapsed[s]
      BY <1>1, <2>2
    <3> QED BY <1>2, <3>1, <3>2 DEF InCooldown
  <2> QED BY <2>1, <2>2
<1> QED BY <1>4, <1>5, <1>6, <1>7 DEF RowsStep

\* EndStatus lifts cooldowns.
LEMMA LiftRows ==
  ASSUME CooldownTypeOK, NEW q, UNCHANGED <<latest, elapsed>>,
         cooldown' = [s \in Limitable |-> IF q.loaded[s] # 0 THEN 0 ELSE cooldown[s]]
  PROVE  RowsStep
<1>1. \A s \in Limitable : latest[s] \in Nat /\ cooldown[s] \in 0..MaxCooldowns
  BY DEF CooldownTypeOK, PerSource
<1>2. cooldown' \in PerSource(0..MaxCooldowns)
  BY <1>1 DEF PerSource
<1>3. \A s \in Limitable : InCooldown(s)' => InCooldown(s)
  BY DEF InCooldown
<1> QED BY <1>1, <1>2, <1>3 DEF RowsStep, CooldownTypeOK

LEMMA CooldownInitInv == CooldownInit => CooldownInv
<1> SUFFICES ASSUME CooldownInit PROVE CooldownInv
  OBVIOUS
<1>1. CooldownTypeOK
  <2>1. NotAsking \in Asking
    BY IdleSound
  <2> QED BY <2>1 DEF CooldownInit, CooldownTypeOK, PerSource
<1>2. ASSUME NEW r \in SourceRequests PROVE RequestSound(asking[r])
  BY DEF CooldownInit, RequestSound, NotAsking
<1> QED BY <1>1, <1>2 DEF CooldownInv

LEMMA BeginInv ==
  ASSUME CooldownInv, NEW r \in SourceRequests,
         BeginSearch(r) \/ BeginStatus(r) \/ \E s \in Limitable : BeginTest(r, s)
  PROVE  CooldownInv'
<1>1. CooldownTypeOK /\ UNCHANGED sourceRows
  BY DEF CooldownInv, BeginSearch, BeginStatus, BeginTest
<1>2. RowsStep
  BY <1>1, RowsStay
<1>3. /\ latest \in PerSource(0..MaxCooldowns) /\ latest' = latest /\ cooldown' = cooldown
      /\ elapsed' = elapsed /\ \A s \in Limitable : latest[s] \in Nat
  BY <1>1 DEF CooldownTypeOK, sourceRows, PerSource
<1>4. CASE BeginSearch(r)
  <2>1. [at |-> "calling", ready |-> BeforeCall, asked |-> latest] \in Asking
    BY <1>3 DEF Asking, BeforeCall
  <2>2. PICK q \in Asking : q = [at |-> "calling", ready |-> BeforeCall, asked |-> latest]
    BY <2>1
  <2>3. q.at = "calling" /\ q.asked = latest /\ \A s \in q.ready : ~InCooldown(s)
    BY <2>2 DEF BeforeCall
  <2>4. asking' = [asking EXCEPT ![r] = q]
    BY <1>4, <2>2 DEF BeginSearch, Asks
  <2>5. RequestSound(q)'
    BY <1>3, <2>3 DEF RequestSound, LetThrough, InCooldown
  <2> QED BY <1>2, <2>4, <2>5, RequestStep
<1>5. CASE BeginStatus(r)
  <2> DEFINE e == [at |-> "health", checked |-> {}, awaiting |-> {}, asked |-> latest,
                   passed |-> {s \in Limitable : elapsed[s]},
                   loaded |-> [s \in Limitable |-> 0]]
  <2>1. e \in Asking
    <3>1. e.loaded \in PerSource(0..MaxCooldowns)
      BY DEF PerSource
    <3>2. {s \in Limitable : elapsed[s]} \in SUBSET Limitable
      OBVIOUS
    <3> QED BY <1>3, <3>1, <3>2 DEF Asking
  <2>2. PICK q \in Asking : q = e
    BY <2>1
  <2>3. /\ q.at = "health" /\ q.asked = latest /\ q.awaiting = {} /\ q.checked = {}
        /\ \A s \in Limitable : q.loaded[s] = 0 /\ (s \in q.passed <=> elapsed[s])
    BY <2>2
  <2>4. asking' = [asking EXCEPT ![r] = q]
    BY <1>5, <2>2 DEF BeginStatus, Asks
  <2> HIDE DEF e
  <2>5. RequestSound(q)'
    BY <1>3, <2>3 DEF RequestSound, LetThrough
  <2> QED BY <1>2, <2>4, <2>5, RequestStep
<1>6. CASE \E s \in Limitable : BeginTest(r, s)
  <2>1. PICK s \in Limitable : BeginTest(r, s)
    BY <1>6
  <2>2. [at |-> "testing", source |-> s, asked |-> latest] \in Asking
    BY <1>3 DEF Asking
  <2>3. PICK q \in Asking : q = [at |-> "testing", source |-> s, asked |-> latest]
    BY <2>2
  <2>4. q.at = "testing" /\ q.asked = latest /\ q.source = s
    BY <2>3
  <2>5. asking' = [asking EXCEPT ![r] = q] /\ ~InCooldown(s)
    BY <2>1, <2>3 DEF BeginTest, Asks, BeforeCall
  <2>6. RequestSound(q)'
    BY <1>3, <2>4, <2>5 DEF RequestSound, LetThrough, InCooldown
  <2> QED BY <1>2, <2>5, <2>6, RequestStep
<1> QED BY <1>4, <1>5, <1>6

\* A request that asks for the health of the sources.
Checking == [at : {"health"}, checked : SUBSET Limitable, awaiting : SUBSET Limitable,
             passed : SUBSET Limitable, asked : PerSource(0..MaxCooldowns),
             loaded : PerSource(0..MaxCooldowns)]

\* It goes on: it knows of a source what it knew before, or has just asked it or checked it.
LEMMA CheckGoesOn ==
  ASSUME CooldownTypeOK, UNCHANGED sourceRows, NEW q \in Checking, RequestSound(q),
         NEW n \in Checking, n.passed = q.passed,
         \A s, t \in n.awaiting : s = t,
         \A t \in Limitable :
           \/ n.asked[t] = latest[t] /\ t \in n.awaiting /\ ~InCooldown(t)
           \/ /\ n.asked[t] = q.asked[t]
              /\ LetThrough(n, t) => LetThrough(q, t)
              /\ t \notin n.checked \cup n.awaiting => t \notin q.checked \cup q.awaiting
  PROVE  RequestSound(n)'
<1> SUFFICES ASSUME NEW t \in Limitable
             PROVE  /\ n.asked[t] <= latest'[t]
                    /\ LetThrough(n, t) => n.asked[t] < latest'[t] \/ ~InCooldown(t)'
                    /\ (n.at = "health" /\ t \notin n.checked \cup n.awaiting /\ t \in n.passed
                          /\ n.asked[t] = latest'[t]) => elapsed'[t]
  BY DEF RequestSound, LetThrough
<1>1. latest' = latest /\ elapsed' = elapsed /\ cooldown' = cooldown /\ latest[t] \in Nat
  BY DEF sourceRows, CooldownTypeOK, PerSource
<1>2. InCooldown(t)' = InCooldown(t)
  BY <1>1 DEF InCooldown
<1>3. q.at = "health" /\ q # NotAsking
  BY DEF Checking, NotAsking
<1>4. /\ q.asked[t] <= latest[t]
      /\ LetThrough(q, t) => q.asked[t] < latest[t] \/ ~InCooldown(t)
      /\ (t \notin q.checked \cup q.awaiting /\ t \in q.passed
            /\ q.asked[t] = latest[t]) => elapsed[t]
  BY <1>3 DEF RequestSound
<1>5. CASE n.asked[t] = latest[t] /\ t \in n.awaiting /\ ~InCooldown(t)
  BY <1>1, <1>2, <1>5
<1>6. CASE /\ n.asked[t] = q.asked[t]
           /\ LetThrough(n, t) => LetThrough(q, t)
           /\ t \notin n.checked \cup n.awaiting => t \notin q.checked \cup q.awaiting
  BY <1>1, <1>2, <1>4, <1>6
<1> QED BY <1>5, <1>6

LEMMA CheckType ==
  ASSUME NEW q \in Asking, q.at = "health"
  PROVE  q \in Checking
BY DEF Asking, NotAsking, Checking

LEMMA AskHealthInv ==
  ASSUME CooldownInv, NEW r \in SourceRequests, AskHealth(r)
  PROVE  CooldownInv'
<1>1. CooldownTypeOK /\ UNCHANGED sourceRows /\ asking[r] \in Asking
  BY DEF CooldownInv, CooldownTypeOK, AskHealth
<1>2. PICK q \in Asking : q = asking[r]
  BY <1>1
<1>3. RequestSound(q) /\ q.at = "health" /\ q.awaiting = {} /\ q \in Checking /\ RowsStep
  BY <1>1, <1>2, CheckType, RowsStay DEF CooldownInv, AskHealth, AsksAt
<1>4. PICK v \in Limitable :
        /\ NextUnchecked(r, v)
        /\ asking' = [asking EXCEPT ![r] =
                        IF InCooldownSince(q, v) THEN [q EXCEPT !.checked = @ \cup {v}]
                        ELSE [q EXCEPT !.awaiting = {v}, !.asked[v] = latest[v]]]
  BY <1>2 DEF AskHealth, Asks
<1>5. v \notin q.checked /\ latest \in PerSource(0..MaxCooldowns)
  BY <1>1, <1>2, <1>4 DEF NextUnchecked, CooldownTypeOK
<1>6. CASE InCooldownSince(q, v)
  <2>1. [q EXCEPT !.checked = @ \cup {v}] \in Checking
    BY <1>3 DEF Checking
  <2>2. PICK n \in Checking : n = [q EXCEPT !.checked = @ \cup {v}]
    BY <2>1
  <2>3. /\ n.at = "health" /\ n.checked = q.checked \cup {v} /\ n.awaiting = q.awaiting
        /\ n.loaded = q.loaded /\ n.passed = q.passed /\ n.asked = q.asked
    BY <1>3, <2>2 DEF Checking
  <2>4. n \in Asking /\ asking' = [asking EXCEPT ![r] = n]
    BY <1>4, <1>6, <2>2 DEF Asking, Checking
  <2>5. \A t \in Limitable : LetThrough(n, t) => LetThrough(q, t)
    BY <1>3, <2>3 DEF LetThrough
  <2>6. RequestSound(n)'
    BY <1>1, <1>3, <2>3, <2>5, CheckGoesOn
  <2> QED BY <1>3, <2>4, <2>6, RequestStep
<1>7. CASE ~InCooldownSince(q, v)
  <2>1. PICK a : a = [q.asked EXCEPT ![v] = latest[v]]
    OBVIOUS
  <2>2. /\ a \in PerSource(0..MaxCooldowns) /\ a[v] = latest[v]
        /\ \A t \in Limitable \ {v} : a[t] = q.asked[t]
    BY <1>3, <1>5, <2>1 DEF PerSource, Checking
  <2>3. [q EXCEPT !.awaiting = {v}, !.asked[v] = latest[v]] = [q EXCEPT !.awaiting = {v}, !.asked = a]
    BY <1>3, <2>1 DEF Checking
  <2>4. [q EXCEPT !.awaiting = {v}, !.asked = a] \in Checking
    BY <1>3, <2>2 DEF Checking
  <2>5. PICK n \in Checking : n = [q EXCEPT !.awaiting = {v}, !.asked = a]
    BY <2>4
  <2>6. /\ n.at = "health" /\ n.checked = q.checked /\ n.awaiting = {v}
        /\ n.loaded = q.loaded /\ n.passed = q.passed /\ n.asked = a
    BY <1>3, <2>5 DEF Checking
  <2>7. n \in Asking /\ asking' = [asking EXCEPT ![r] = n]
    BY <1>4, <1>7, <2>3, <2>5 DEF Asking, Checking
  <2>8. ~InCooldown(v)
    <3>1. cooldown[v] = 0 \/ (v \in q.passed /\ latest[v] = q.asked[v])
      BY <1>7 DEF InCooldownSince
    <3>2. q # NotAsking
      BY <1>3 DEF NotAsking
    <3> QED BY <1>3, <1>5, <3>1, <3>2 DEF RequestSound, InCooldown
  <2>9. \A t \in Limitable \ {v} : LetThrough(n, t) => LetThrough(q, t)
    BY <1>3, <2>6 DEF LetThrough
  <2>10. ASSUME NEW t \in Limitable
         PROVE  \/ n.asked[t] = latest[t] /\ t \in n.awaiting /\ ~InCooldown(t)
                \/ /\ n.asked[t] = q.asked[t]
                   /\ LetThrough(n, t) => LetThrough(q, t)
                   /\ t \notin n.checked \cup n.awaiting => t \notin q.checked \cup q.awaiting
    BY <1>3, <2>2, <2>6, <2>8, <2>9
  <2>11. \A s, t \in n.awaiting : s = t
    BY <2>6
  <2>12. RequestSound(n)'
    BY <1>1, <1>3, <2>6, <2>10, <2>11, CheckGoesOn
  <2> QED BY <1>3, <2>7, <2>12, RequestStep
<1> QED BY <1>6, <1>7

LEMMA HealthAnsweredInv ==
  ASSUME CooldownInv, NEW r \in SourceRequests, HealthAnswered(r)
  PROVE  CooldownInv'
<1>1. CooldownTypeOK /\ UNCHANGED sourceRows /\ asking[r] \in Asking
  BY DEF CooldownInv, CooldownTypeOK, HealthAnswered
<1>2. PICK q \in Asking : q = asking[r]
  BY <1>1
<1>3. RequestSound(q) /\ q.at = "health" /\ q \in Checking /\ RowsStep
  BY <1>1, <1>2, CheckType, RowsStay DEF CooldownInv, HealthAnswered, AsksAt
<1>4. PICK s \in q.awaiting :
        asking' = [asking EXCEPT ![r] = [q EXCEPT !.awaiting = {}, !.checked = @ \cup {s},
                                                  !.loaded[s] = cooldown[s]]]
  BY <1>2 DEF HealthAnswered, Asks
<1>5. s \in Limitable /\ cooldown[s] \in 0..MaxCooldowns
  BY <1>1, <1>3 DEF CooldownTypeOK, PerSource, Checking
<1>6. PICK l : l = [q.loaded EXCEPT ![s] = cooldown[s]]
  OBVIOUS
<1>7. l \in PerSource(0..MaxCooldowns) /\ \A t \in Limitable \ {s} : l[t] = q.loaded[t]
  BY <1>3, <1>5, <1>6 DEF PerSource, Checking
<1>8. [q EXCEPT !.awaiting = {}, !.checked = @ \cup {s}, !.loaded[s] = cooldown[s]]
        = [q EXCEPT !.awaiting = {}, !.checked = @ \cup {s}, !.loaded = l]
  BY <1>3, <1>6 DEF Checking
<1>9. [q EXCEPT !.awaiting = {}, !.checked = @ \cup {s}, !.loaded = l] \in Checking
  BY <1>3, <1>5, <1>7 DEF Checking
<1>10. PICK n \in Checking : n = [q EXCEPT !.awaiting = {}, !.checked = @ \cup {s}, !.loaded = l]
  BY <1>9
<1>11. /\ n.at = "health" /\ n.checked = q.checked \cup {s} /\ n.awaiting = {}
       /\ n.loaded = l /\ n.passed = q.passed /\ n.asked = q.asked
  BY <1>3, <1>10 DEF Checking
<1>12. n \in Asking /\ asking' = [asking EXCEPT ![r] = n]
  BY <1>4, <1>8, <1>10 DEF Asking, Checking
<1>13. \A t \in Limitable : LetThrough(n, t) => LetThrough(q, t)
  BY <1>3, <1>7, <1>11 DEF LetThrough
<1>14. \A t \in q.awaiting : t = s
  BY <1>3, <1>4 DEF RequestSound
<1>15. RequestSound(n)'
  BY <1>1, <1>3, <1>11, <1>13, <1>14, CheckGoesOn
<1> QED BY <1>3, <1>12, <1>15, RequestStep

\* The end of a request.
LEMMA EndInv ==
  ASSUME CooldownInv, NEW r \in SourceRequests, RowsStep, Asks(r, NotAsking)
  PROVE  CooldownInv'
BY IdleSound, RequestStep DEF Asks

LEMMA EndSearchRows ==
  ASSUME CooldownInv, NEW r \in SourceRequests, EndSearch(r)
  PROVE  RowsStep /\ \A s \in Limitable : cooldown'[s] # cooldown[s] => LetThrough(asking[r], s)
<1>1. CooldownTypeOK /\ asking[r] \in Asking /\ asking[r].at = "calling"
  BY DEF CooldownInv, CooldownTypeOK, EndSearch, AsksAt
<1>2. asking[r].ready \subseteq Limitable
  BY <1>1, RequestShape
<1>3. PICK answers : AfterCall([s \in asking[r].ready |-> Last(answers[s])])
  BY DEF EndSearch
<1> QED BY <1>1, <1>2, <1>3, AfterCallRows DEF LetThrough

LEMMA EndTestRows ==
  ASSUME CooldownInv, NEW r \in SourceRequests, EndTest(r)
  PROVE  RowsStep /\ \A s \in Limitable : cooldown'[s] # cooldown[s] => LetThrough(asking[r], s)
<1>1. CooldownTypeOK /\ asking[r] \in Asking /\ asking[r].at = "testing"
  BY DEF CooldownInv, CooldownTypeOK, EndTest, AsksAt
<1>2. asking[r].source \in Limitable
  BY <1>1, RequestShape
<1>3. PICK status : AfterCall([s \in {asking[r].source} |-> status])
  BY DEF EndTest
<1> QED BY <1>1, <1>2, <1>3, AfterCallRows DEF LetThrough

LEMMA EndStatusRows ==
  ASSUME CooldownInv, NEW r \in SourceRequests, EndStatus(r)
  PROVE  RowsStep /\ \A s \in Limitable : cooldown'[s] # cooldown[s] => LetThrough(asking[r], s)
<1>1. CooldownTypeOK /\ asking[r].at = "health" /\ UNCHANGED <<latest, elapsed>>
  BY DEF CooldownInv, EndStatus, AsksAt
<1>2. cooldown' = [s \in Limitable |-> IF asking[r].loaded[s] # 0 THEN 0 ELSE cooldown[s]]
  BY DEF EndStatus
<1>3. RowsStep
  BY <1>1, <1>2, LiftRows
<1> QED BY <1>1, <1>2, <1>3 DEF LetThrough

LEMMA CooldownPassesInv ==
  ASSUME CooldownInv, NEW s \in Limitable, CooldownPasses(s)
  PROVE  CooldownInv'
<1>1. CooldownTypeOK /\ asking' = asking /\ UNCHANGED <<cooldown, latest>>
      /\ elapsed' = [elapsed EXCEPT ![s] = TRUE]
  BY DEF CooldownInv, CooldownPasses
<1>2. RowsStep
  <2>1. \A t \in Limitable : latest[t] \in Nat
    BY <1>1 DEF CooldownTypeOK, PerSource
  <2>2. elapsed' \in PerSource(BOOLEAN)
    BY <1>1 DEF CooldownTypeOK, PerSource
  <2>3. \A t \in Limitable : elapsed[t] => elapsed'[t]
    BY <1>1 DEF CooldownTypeOK, PerSource
  <2> QED BY <1>1, <2>1, <2>2, <2>3 DEF RowsStep, CooldownTypeOK, InCooldown
<1>3. CooldownTypeOK'
  BY <1>1, <1>2 DEF CooldownTypeOK, RowsStep
<1>4. ASSUME NEW k \in SourceRequests PROVE RequestSound(asking[k])'
  <2>1. asking[k] \in Asking /\ RequestSound(asking[k])
    BY <1>1 DEF CooldownInv, CooldownTypeOK
  <2>2. PICK p \in Asking : p = asking[k]
    BY <2>1
  <2>3. RequestSound(p)'
    BY <1>1, <1>2, <2>1, <2>2, SoundStays
  <2> QED BY <1>1, <2>2, <2>3 DEF RequestSound, LetThrough
<1> QED BY <1>3, <1>4 DEF CooldownInv

LEMMA CooldownStepInv == CooldownInv /\ [CooldownNext]_cooldownVars => CooldownInv'
<1> SUFFICES ASSUME CooldownInv, [CooldownNext]_cooldownVars PROVE CooldownInv'
  OBVIOUS
<1>1. CASE UNCHANGED cooldownVars
  BY <1>1 DEF cooldownVars, CooldownInv, CooldownTypeOK, RequestSound, LetThrough, InCooldown
<1>2. ASSUME NEW r \in SourceRequests,
             \/ BeginSearch(r) \/ EndSearch(r) \/ SearchFails(r)
             \/ BeginStatus(r) \/ AskHealth(r) \/ HealthAnswered(r) \/ EndStatus(r)
             \/ EndTest(r) \/ \E s \in Limitable : BeginTest(r, s)
      PROVE  CooldownInv'
  <2>1. CASE EndSearch(r) \/ EndStatus(r) \/ EndTest(r)
    <3>1. Asks(r, NotAsking)
      BY <2>1 DEF EndSearch, EndStatus, EndTest
    <3> QED BY <2>1, <3>1, EndSearchRows, EndStatusRows, EndTestRows, EndInv
  <2>2. CASE SearchFails(r)
    <3>1. Asks(r, NotAsking) /\ RowsStep
      BY <2>2, RowsStay DEF SearchFails, CooldownInv
    <3> QED BY <3>1, EndInv
  <2> QED BY <1>2, <2>1, <2>2, BeginInv, AskHealthInv, HealthAnsweredInv
<1>3. ASSUME NEW s \in Limitable, CooldownPasses(s) PROVE CooldownInv'
  BY <1>3, CooldownPassesInv
<1> QED BY <1>1, <1>2, <1>3 DEF CooldownNext

LEMMA CooldownInvariant == CooldownSpec => []CooldownInv
BY CooldownInitInv, CooldownStepInv, PTL DEF CooldownSpec

\* The rows of the sources and the requests in flight stay within their types.
THEOREM CooldownTypeCorrect == CooldownSpec => []CooldownTypeOK
<1>1. CooldownInv => CooldownTypeOK
  BY DEF CooldownInv
<1> QED BY <1>1, CooldownInvariant, PTL

\* A cooldown that has not passed is lifted only by a request that was let through before
\* it was recorded, for any number of sources and of requests in flight.
THEOREM CooldownIsKept == CooldownSpec => CooldownLasts
<1>1. ASSUME CooldownInv, [CooldownNext]_cooldownVars, NEW s \in Limitable,
             InCooldown(s), cooldown'[s] = 0
      PROVE  \E r \in SourceRequests :
               /\ asking'[r] = NotAsking /\ asking[r] # NotAsking
               /\ asking[r].asked[s] < latest[s]
  <2>1. cooldown'[s] # cooldown[s]
    BY <1>1 DEF InCooldown
  <2>2. PICK r \in SourceRequests : EndSearch(r) \/ EndStatus(r) \/ EndTest(r)
    BY <1>1, <2>1 DEF CooldownNext, cooldownVars, sourceRows, BeginSearch, SearchFails, BeginStatus,
       AskHealth, HealthAnswered, BeginTest, CooldownPasses
  <2>3. LetThrough(asking[r], s) /\ asking[r].at # "idle"
    BY <1>1, <2>1, <2>2, EndSearchRows, EndStatusRows, EndTestRows
       DEF EndSearch, EndStatus, EndTest, AsksAt
  <2>4. asking[r] # NotAsking
    BY <2>3 DEF NotAsking
  <2>5. asking[r].asked[s] < latest[s]
    BY <1>1, <2>3, <2>4 DEF CooldownInv, RequestSound
  <2>6. asking'[r] = NotAsking
    BY <1>1, <2>2 DEF EndSearch, EndStatus, EndTest, Asks, CooldownInv, CooldownTypeOK
  <2> QED BY <2>4, <2>5, <2>6
<1>2. CooldownInv /\ [CooldownNext]_cooldownVars =>
        [\A s \in Limitable :
           InCooldown(s) /\ cooldown'[s] = 0 =>
             \E r \in SourceRequests :
               /\ asking'[r] = NotAsking /\ asking[r] # NotAsking
               /\ asking[r].asked[s] < latest[s]]_cooldownVars
  BY <1>1
<1> QED BY <1>2, CooldownInvariant, PTL DEF CooldownSpec, CooldownLasts

-----------------------------------------------------------------------------
(* The analysis of a paper, whatever text it is made from. *)

\* What may be stored of the findings "found" in the evidence e.
WithinEvidence(e, found) ==
  \A f \in Fields :
    /\ found.cited[f] \subseteq DOMAIN e.chunks
    /\ f \in Extracted(e) => found.cited[f] = CitationsFor(e, f)
    /\ Evidenced(found, f) =>
         /\ f \notin found.missing
         /\ f \notin Extracted(e) =>
              found.cited[f] # {} /\ (f \in FulltextOnly => e.level = "fulltext")

LEMMA DeterministicWithin ==
  ASSUME NEW e
  PROVE  WithinEvidence(e, Deterministic(e)) /\ DOMAIN Deterministic(e).states = Fields
<1> DEFINE found == Deterministic(e)
<1>1. /\ found.states = FieldStates(e) /\ found.missing = Reported \ Extracted(e)
      /\ found.cited = [f \in Fields |-> IF f \in Extracted(e) THEN CitationsFor(e, f) ELSE {}]
  BY DEF Deterministic
<1>2. ASSUME NEW f \in Fields PROVE Evidenced(found, f) <=> f \in Extracted(e)
  BY <1>1 DEF Evidenced, FieldStates
<1>3. \A f \in Fields : CitationsFor(e, f) \subseteq DOMAIN e.chunks
  BY DEF CitationsFor
<1> HIDE DEF found
<1>4. WithinEvidence(e, found)
  BY <1>1, <1>2, <1>3 DEF WithinEvidence
<1> QED BY <1>1, <1>4 DEF found, FieldStates

\* A provider's output that was accepted adds to the findings and changes none.
LEMMA MergeWithin ==
  ASSUME NEW e, NEW output \in Completions(e), Validated(e, output)
  PROVE  WithinEvidence(e, Merge(Deterministic(e), output))
<1>1. PICK found : found = Deterministic(e)
  OBVIOUS
<1>2. /\ WithinEvidence(e, found)
      /\ \A f \in Fields : Evidenced(found, f) <=> f \in Extracted(e)
  <2>1. \A f \in Fields : Evidenced(found, f) <=> f \in Extracted(e)
    BY <1>1 DEF Deterministic, Evidenced, FieldStates
  <2> QED BY <1>1, <2>1, DeterministicWithin
<1>3. PICK merged : merged = Merge(found, output)
  OBVIOUS
<1>4. PICK filled : filled = Filled(found, output)
  OBVIOUS
<1>5. /\ merged.states = [f \in Fields |-> IF f \in filled THEN "evidenced" ELSE found.states[f]]
      /\ merged.cited = [f \in Fields |-> IF f \in filled THEN output.cited[f] ELSE found.cited[f]]
      /\ merged.missing = found.missing \ filled
  BY <1>3, <1>4 DEF Merge
<1>6. ASSUME NEW f \in Fields
      PROVE  /\ f \in filled => f \in output.fields /\ f \notin Extracted(e)
             /\ output.cited[f] \subseteq DOMAIN e.chunks
             /\ f \in output.fields => /\ output.cited[f] # {}
                                       /\ f \in FulltextOnly => e.level = "fulltext"
  <2>1. f \in filled => f \in output.fields /\ ~Evidenced(found, f)
    BY <1>4 DEF Filled, Evidenced
  <2> QED BY <1>2, <2>1 DEF Validated
<1>7. ASSUME NEW f \in Fields
      PROVE  /\ merged.cited[f] \subseteq DOMAIN e.chunks
             /\ f \in Extracted(e) => merged.cited[f] = CitationsFor(e, f)
             /\ Evidenced(merged, f) =>
                  /\ f \notin merged.missing
                  /\ f \notin Extracted(e) =>
                       merged.cited[f] # {} /\ (f \in FulltextOnly => e.level = "fulltext")
  <2>1. CASE f \in filled
    <3>1. merged.cited[f] = output.cited[f] /\ f \notin merged.missing
      BY <1>5, <2>1
    <3> QED BY <1>6, <2>1, <3>1
  <2>2. CASE f \notin filled
    <3>1. /\ merged.cited[f] = found.cited[f] /\ (f \in merged.missing <=> f \in found.missing)
          /\ Evidenced(merged, f) <=> Evidenced(found, f)
      BY <1>5, <2>2 DEF Evidenced
    <3> QED BY <1>2, <3>1 DEF WithinEvidence
  <2> QED BY <2>1, <2>2
<1> QED BY <1>1, <1>3, <1>7 DEF WithinEvidence

\* The weight that is known below full text never suffices for a score.
LEMMA NoScoreWithoutFullText ==
  ASSUME NEW e, NEW found, WithinEvidence(e, found), ReproductionScored(e, found)
  PROVE  e.level = "fulltext"
<1> SUFFICES ASSUME e.level # "fulltext" PROVE FALSE
  OBVIOUS
<1>1. "experimental_protocol" \in Fields /\ "experimental_protocol" \notin Extracted(e)
  BY DEF Fields, Extracted, Restricted
<1>2. ~Evidenced(found, "experimental_protocol")
  BY <1>1 DEF WithinEvidence, FulltextOnly
<1>3. PICK known : known = KnownDimensions(e, found)
  OBVIOUS
<1>4. ~known.hyperparameter_documentation /\ ~known.evaluation_protocol
  BY <1>2, <1>3 DEF KnownDimensions
<1>5. /\ Points(known.hyperparameter_documentation, 10) = 0
      /\ Points(known.evaluation_protocol, 10) = 0
      /\ Points(known.data_availability, 20) \in {0, 20}
      /\ Points(known.method_completeness, 15) \in {0, 15}
  BY <1>4 DEF Points
<1>6. AvailableWeight(known) <= 35
  BY <1>5 DEF AvailableWeight
<1>7. AvailableWeight(known) >= 40
  BY <1>3 DEF ReproductionScored
<1>8. AvailableWeight(known) \in Int
  BY <1>5 DEF AvailableWeight
<1> QED BY <1>6, <1>7, <1>8

\* A stored analysis claims no more than the evidence it was made from, whatever that
\* evidence is and whatever a provider answers.
THEOREM AnalysisIsWithinEvidence == AnalysisSpec => []AnalysisWithinEvidence
<1>1. AnalysisInit => AnalysisWithinEvidence
  BY DEF AnalysisInit, AnalysisWithinEvidence
<1>2. ASSUME NEW e, NEW mode, NEW found, WithinEvidence(e, found),
             analysis' = AnalysisRow(e, mode, found)
      PROVE  AnalysisWithinEvidence'
  <2>1. analysis'.evidence = e /\ analysis'.found = found
        /\ analysis'.scored = ReproductionScored(e, found)
    BY <1>2 DEF AnalysisRow
  <2>2. analysis'.scored => e.level = "fulltext"
    BY <1>2, <2>1, NoScoreWithoutFullText
  <2> QED BY <1>2, <2>1, <2>2 DEF AnalysisWithinEvidence, WithinEvidence, Evidenced
<1>3. ASSUME AnalysisWithinEvidence, [AnalysisNext]_analysisVars PROVE AnalysisWithinEvidence'
  <2>1. CASE UNCHANGED analysis
    BY <1>3, <2>1 DEF AnalysisWithinEvidence, Evidenced
  <2>2. ASSUME NEW a \in Analysts, StoreDeterministic(a) PROVE AnalysisWithinEvidence'
    <3>1. analysis' = AnalysisRow(analysing[a].evidence, "deterministic",
                                  Deterministic(analysing[a].evidence))
      BY <2>2 DEF StoreDeterministic
    <3>2. PICK e : e = analysing[a].evidence
      OBVIOUS
    <3>3. PICK found : found = Deterministic(e)
      OBVIOUS
    <3> QED BY <1>2, <3>1, <3>2, <3>3, DeterministicWithin
  <2>3. ASSUME NEW a \in Analysts, StoreCompletion(a) PROVE AnalysisWithinEvidence'
    <3>1. PICK e : e = analysing[a].evidence
      OBVIOUS
    <3>2. \/ analysis' = AnalysisRow(e, "deterministic_fallback", Deterministic(e))
          \/ \E output \in Completions(e) :
               /\ Validated(e, output)
               /\ analysis' = AnalysisRow(e, "hybrid", Merge(Deterministic(e), output))
      BY <2>3, <3>1 DEF StoreCompletion
    <3>3. CASE analysis' = AnalysisRow(e, "deterministic_fallback", Deterministic(e))
      <4>1. PICK found : found = Deterministic(e)
        OBVIOUS
      <4> QED BY <1>2, <3>3, <4>1, DeterministicWithin
    <3>4. CASE \E output \in Completions(e) :
                 /\ Validated(e, output)
                 /\ analysis' = AnalysisRow(e, "hybrid", Merge(Deterministic(e), output))
      <4>1. PICK output \in Completions(e) :
              /\ Validated(e, output)
              /\ analysis' = AnalysisRow(e, "hybrid", Merge(Deterministic(e), output))
        BY <3>4
      <4>2. PICK found : found = Merge(Deterministic(e), output)
        OBVIOUS
      <4> QED BY <1>2, <4>1, <4>2, MergeWithin
    <3> QED BY <3>2, <3>3, <3>4
  <2> QED BY <1>3, <2>1, <2>2, <2>3 DEF AnalysisNext, analysisVars, ChangeEvidence, ReadEvidence,
             CallProvider, LockTimeout, AnalystDies
<1> QED BY <1>1, <1>3, PTL DEF AnalysisSpec

-----------------------------------------------------------------------------
(* What an analysis has read, stored and answered. *)

\* The evidence of a paper, and what an analysis reads of it.
Chunked(e) == e.level \in Levels /\ DOMAIN e.chunks \subseteq 0..(2 * MaxEvidence)
ReadBy(p) ==
  \/ p = NotAnalysing
  \/ /\ p.at \in {"read", "completing"} /\ Chunked(p.evidence)
     /\ p = [at |-> p.at, evidence |-> p.evidence]

AnalysisInv ==
  /\ Chunked(evidence) /\ nextChunk \in 1..(2 * MaxEvidence + 1)
  /\ provider \in {"none", "configured"}
  /\ writer \in Analysts \cup {Nobody}
  /\ \E readers : analysing \in [Analysts -> readers]
  /\ \A a \in Analysts : ReadBy(analysing[a])
  /\ analysis # NoAnalysis =>
       /\ analysis.found \in Findings
       /\ analysis.mode \in {"deterministic", "hybrid", "deterministic_fallback"}
       /\ analysis.evidence.level \in Levels /\ analysis.scored \in BOOLEAN

\* The chunk ids that new evidence uses are those that were not used before.
LEMMA EvidenceChunked ==
  ASSUME MaxEvidence \in Nat, NEW first \in Nat, first + 1 <= 2 * MaxEvidence,
         NEW e \in EvidenceFrom(first)
  PROVE  Chunked(e)
<1>1. first \in 0..(2 * MaxEvidence) /\ first + 1 \in 0..(2 * MaxEvidence)
      /\ 0 \in 0..(2 * MaxEvidence)
  OBVIOUS
<1>2. ASSUME NEW levels, levels \subseteq Levels, NEW chunks,
             \A c \in chunks : DOMAIN c \subseteq 0..(2 * MaxEvidence), e \in Texts(levels, chunks)
      PROVE  Chunked(e)
  BY <1>2 DEF Texts, Chunked
<1>3. \A c \in ChunkSets(first) : DOMAIN c \subseteq {first, first + 1}
  BY DEF ChunkSets
<1>4. CASE e \in Texts({"fulltext", "partial_fulltext"}, ChunkSets(first))
  BY <1>1, <1>2, <1>3, <1>4 DEF Levels
<1>5. CASE e \in Texts({"abstract_only"}, [{0} -> Opening(Fields)])
  <2>1. \A c \in [{0} -> Opening(Fields)] : DOMAIN c \subseteq 0..(2 * MaxEvidence)
    BY <1>1
  <2> QED BY <1>2, <1>5, <2>1 DEF Levels
<1>6. CASE e \in Texts({"metadata_only"}, [{0} -> Opening({"core_methods"})])
  <2>1. \A c \in [{0} -> Opening({"core_methods"})] : DOMAIN c \subseteq 0..(2 * MaxEvidence)
    BY <1>1
  <2> QED BY <1>2, <1>6, <2>1 DEF Levels
<1> QED BY <1>4, <1>5, <1>6 DEF EvidenceFrom

LEMMA FindingsTyped ==
  ASSUME NEW e, Chunked(e)
  PROVE  /\ Deterministic(e) \in Findings
         /\ \A output \in Completions(e) :
              Validated(e, output) => Merge(Deterministic(e), output) \in Findings
<1> DEFINE States == {"evidenced", "insufficient_evidence", "unknown"}
           Ids == 0..(2 * MaxEvidence)
<1>1. PICK found : found = Deterministic(e)
  OBVIOUS
<1>2. /\ found = [states |-> found.states, cited |-> found.cited, missing |-> found.missing]
      /\ found.states = FieldStates(e) /\ found.missing = Reported \ Extracted(e)
      /\ found.cited = [f \in Fields |-> IF f \in Extracted(e) THEN CitationsFor(e, f) ELSE {}]
  BY <1>1 DEF Deterministic
<1>3. found.states \in [Fields -> States]
  BY <1>2 DEF FieldStates
<1>4. found.cited \in [Fields -> SUBSET Ids]
  <2>1. \A f \in Fields : CitationsFor(e, f) \subseteq Ids
    BY DEF Chunked, CitationsFor
  <2> QED BY <1>2, <2>1
<1>5. found.missing \subseteq Fields
  BY <1>2 DEF Reported, Fields
<1>6. found \in Findings
  BY <1>2, <1>3, <1>4, <1>5 DEF Findings
<1>7. ASSUME NEW output \in Completions(e), Validated(e, output)
      PROVE  Merge(found, output) \in Findings
  <2>1. PICK filled : filled = Filled(found, output)
    OBVIOUS
  <2>2. PICK merged : merged = Merge(found, output)
    OBVIOUS
  <2>3. /\ merged = [states |-> merged.states, cited |-> merged.cited, missing |-> merged.missing]
        /\ merged.states = [f \in Fields |-> IF f \in filled THEN "evidenced" ELSE found.states[f]]
        /\ merged.cited = [f \in Fields |-> IF f \in filled THEN output.cited[f] ELSE found.cited[f]]
        /\ merged.missing = found.missing \ filled
    BY <2>1, <2>2 DEF Merge
  <2>4. merged.states \in [Fields -> States]
    BY <1>3, <2>3
  <2>5. \A f \in Fields : output.cited[f] \subseteq Ids
    BY <1>7 DEF Validated, Chunked
  <2>6. merged.cited \in [Fields -> SUBSET Ids]
    BY <1>4, <2>3, <2>5
  <2>7. merged.missing \subseteq Fields
    BY <1>5, <2>3
  <2> QED BY <2>2, <2>3, <2>4, <2>6, <2>7 DEF Findings
<1> QED BY <1>1, <1>6, <1>7

LEMMA AnalysisInitInv == MaxEvidence \in Nat /\ AnalysisInit => AnalysisInv
<1> SUFFICES ASSUME MaxEvidence \in Nat, AnalysisInit PROVE AnalysisInv
  OBVIOUS
<1>1. Chunked(evidence)
  <2>1. evidence.level = "metadata_only" /\ DOMAIN evidence.chunks = {0}
    BY DEF AnalysisInit, Texts
  <2> QED BY <2>1 DEF Chunked, Levels
<1>2. nextChunk \in 1..(2 * MaxEvidence + 1)
  BY DEF AnalysisInit
<1>3. analysing \in [Analysts -> {NotAnalysing}] /\ \A a \in Analysts : ReadBy(analysing[a])
  BY DEF AnalysisInit, ReadBy
<1> QED BY <1>1, <1>2, <1>3 DEF AnalysisInit, AnalysisInv

\* What one analyst holds changes.
LEMMA HoldsRead ==
  ASSUME AnalysisInv, NEW a \in Analysts, NEW p, ReadBy(p),
         analysing' = [analysing EXCEPT ![a] = p]
  PROVE  /\ \E readers : analysing' \in [Analysts -> readers]
         /\ \A k \in Analysts : ReadBy(analysing'[k])
<1>1. PICK readers : analysing \in [Analysts -> readers]
  BY DEF AnalysisInv
<1>2. analysing' \in [Analysts -> readers \cup {p}]
  BY <1>1
<1>3. \A k \in Analysts : analysing'[k] = IF k = a THEN p ELSE analysing[k]
  BY <1>1
<1>4. \A k \in Analysts : ReadBy(analysing'[k])
  <2> TAKE k \in Analysts
  <2>1. CASE k = a
    BY <1>3, <2>1
  <2>2. CASE k # a
    <3>1. analysing'[k] = analysing[k] /\ ReadBy(analysing[k])
      BY <1>3, <2>2 DEF AnalysisInv
    <3> QED BY <3>1
  <2> QED BY <2>1, <2>2
<1> QED BY <1>2, <1>4

LEMMA AnalysisStepInv ==
  MaxEvidence \in Nat /\ AnalysisInv /\ [AnalysisNext]_analysisVars => AnalysisInv'
<1> SUFFICES ASSUME MaxEvidence \in Nat, AnalysisInv, [AnalysisNext]_analysisVars
             PROVE  AnalysisInv'
  OBVIOUS
<1>1. CASE UNCHANGED analysisVars
  BY <1>1 DEF analysisVars, AnalysisInv, Chunked, ReadBy
<1>2. CASE ChangeEvidence
  <2>1. nextChunk \in Nat /\ nextChunk + 1 <= 2 * MaxEvidence
        /\ nextChunk' \in 1..(2 * MaxEvidence + 1)
    BY <1>2 DEF ChangeEvidence, AnalysisInv
  <2>2. Chunked(evidence')
    BY <1>2, <2>1, EvidenceChunked DEF ChangeEvidence
  <2> QED BY <1>2, <2>1, <2>2 DEF ChangeEvidence, AnalysisInv, Chunked, ReadBy
<1> DEFINE Rest == UNCHANGED <<evidence, nextChunk, provider>>
<1>3. ReadBy(NotAnalysing)
  BY DEF ReadBy
<1>4. ASSUME NEW a \in Analysts, ReadEvidence(a) PROVE AnalysisInv'
  <2>1. PICK p : p = [at |-> "read", evidence |-> evidence]
    OBVIOUS
  <2>2. ReadBy(p)
    BY <2>1 DEF ReadBy, AnalysisInv
  <2>3. analysing' = [analysing EXCEPT ![a] = p]
    BY <1>4, <2>1 DEF ReadEvidence
  <2>4. /\ \E readers : analysing' \in [Analysts -> readers]
        /\ \A k \in Analysts : ReadBy(analysing'[k])
    BY <2>2, <2>3, HoldsRead
  <2> QED BY <1>4, <2>4 DEF ReadEvidence, AnalysisInv, Chunked, ReadBy
<1>5. ASSUME NEW a \in Analysts, LockTimeout(a) \/ AnalystDies(a) PROVE AnalysisInv'
  <2>1. /\ \E readers : analysing' \in [Analysts -> readers]
        /\ \A k \in Analysts : ReadBy(analysing'[k])
    BY <1>3, <1>5, HoldsRead DEF LockTimeout, AnalystDies
  <2> QED BY <1>5, <2>1 DEF LockTimeout, AnalystDies, AnalysisInv, Chunked, ReadBy
<1>6. ASSUME NEW a \in Analysts, CallProvider(a) PROVE AnalysisInv'
  <2>1. PICK p : p = [analysing[a] EXCEPT !.at = "completing"]
    OBVIOUS
  <2>2. ReadBy(analysing[a]) /\ analysing[a].at = "read"
    BY <1>6 DEF CallProvider, Reading, AnalysisInv
  <2>3. /\ Chunked(analysing[a].evidence)
        /\ analysing[a] = [at |-> "read", evidence |-> analysing[a].evidence]
    BY <2>2 DEF ReadBy, NotAnalysing
  <2>4. p = [at |-> "completing", evidence |-> analysing[a].evidence]
    BY <2>1, <2>3
  <2>5. ReadBy(p)
    BY <2>3, <2>4 DEF ReadBy
  <2>6. analysing' = [analysing EXCEPT ![a] = p]
    BY <1>6, <2>1 DEF CallProvider
  <2>7. /\ \E readers : analysing' \in [Analysts -> readers]
        /\ \A k \in Analysts : ReadBy(analysing'[k])
    BY <2>5, <2>6, HoldsRead
  <2> QED BY <1>6, <2>7 DEF CallProvider, AnalysisInv, Chunked, ReadBy
<1>7. ASSUME NEW a \in Analysts, NEW e, Chunked(e), NEW found \in Findings,
             NEW mode \in {"deterministic", "hybrid", "deterministic_fallback"},
             analysis' = AnalysisRow(e, mode, found), writer' \in {writer, Nobody},
             UNCHANGED <<evidence, nextChunk, provider>>,
             analysing' = [analysing EXCEPT ![a] = NotAnalysing]
      PROVE  AnalysisInv'
  <2>1. /\ \E readers : analysing' \in [Analysts -> readers]
        /\ \A k \in Analysts : ReadBy(analysing'[k])
    BY <1>3, <1>7, HoldsRead
  <2>2. /\ analysis'.found \in Findings /\ analysis'.mode = mode
        /\ analysis'.evidence = e /\ analysis'.scored = ReproductionScored(e, found)
    BY <1>7 DEF AnalysisRow
  <2>3. ReproductionScored(e, found) \in BOOLEAN
    BY DEF ReproductionScored
  <2>4. analysis'.evidence.level \in Levels /\ analysis'.scored \in BOOLEAN
    BY <1>7, <2>2, <2>3 DEF Chunked
  <2> QED BY <1>7, <2>1, <2>2, <2>4 DEF AnalysisInv, Chunked, ReadBy
<1>8. ASSUME NEW a \in Analysts, StoreDeterministic(a) PROVE AnalysisInv'
  <2>1. PICK e : e = analysing[a].evidence
    OBVIOUS
  <2>2. Chunked(e)
    BY <1>8, <2>1 DEF StoreDeterministic, Reading, AnalysisInv, ReadBy, NotAnalysing
  <2>3. PICK found : found = Deterministic(e)
    OBVIOUS
  <2> QED BY <1>7, <1>8, <2>1, <2>2, <2>3, FindingsTyped DEF StoreDeterministic
<1>9. ASSUME NEW a \in Analysts, StoreCompletion(a) PROVE AnalysisInv'
  <2>1. PICK e : e = analysing[a].evidence
    OBVIOUS
  <2>2. Chunked(e)
    BY <1>9, <2>1 DEF StoreCompletion, AnalysisInv, ReadBy, NotAnalysing
  <2>3. \/ analysis' = AnalysisRow(e, "deterministic_fallback", Deterministic(e))
        \/ \E output \in Completions(e) :
             /\ Validated(e, output)
             /\ analysis' = AnalysisRow(e, "hybrid", Merge(Deterministic(e), output))
    BY <1>9, <2>1 DEF StoreCompletion
  <2>4. PICK found \in Findings, mode \in {"hybrid", "deterministic_fallback"} :
          analysis' = AnalysisRow(e, mode, found)
    BY <2>2, <2>3, FindingsTyped
  <2> QED BY <1>7, <1>9, <2>2, <2>4 DEF StoreCompletion
<1> QED BY <1>1, <1>2, <1>4, <1>5, <1>6, <1>8, <1>9 DEF AnalysisNext

LEMMA AnalysisInvariant == MaxEvidence \in Nat => (AnalysisSpec => []AnalysisInv)
<1> SUFFICES ASSUME MaxEvidence \in Nat PROVE AnalysisSpec => []AnalysisInv
  OBVIOUS
<1>1. AnalysisInit => AnalysisInv
  BY AnalysisInitInv
<1>2. AnalysisInv /\ [AnalysisNext]_analysisVars => AnalysisInv'
  BY AnalysisStepInv
<1> QED BY <1>1, <1>2, PTL DEF AnalysisSpec

\* The evidence, the requests in flight and the stored analysis stay within their types:
\* what a provider answers is merged into findings of the same shape.
THEOREM AnalysisTypeCorrect == MaxEvidence \in Nat => (AnalysisSpec => []AnalysisTypeOK)
<1> SUFFICES ASSUME MaxEvidence \in Nat PROVE AnalysisSpec => []AnalysisTypeOK
  OBVIOUS
<1>1. AnalysisInv => AnalysisTypeOK
  BY DEF AnalysisInv, Chunked, ReadBy, NotAnalysing, AnalysisTypeOK
<1> QED BY <1>1, AnalysisInvariant, PTL

-----------------------------------------------------------------------------
(* The catalog of papers: first what a recursive definition computes step by step. *)

USE CatalogAssumption

\* Induction on the natural numbers, and functions defined by it.
LEMMA Inductive ==
  ASSUME NEW T, 0 \in T, \A n \in Nat : n \in T => n + 1 \in T
  PROVE  Nat \subseteq T
<1> SUFFICES ASSUME Nat \ T # {} PROVE FALSE
  OBVIOUS
<1>1. PICK n \in Nat \ T : \A m \in Nat \ T : ~ (<<m, n>> \in OpToRel(<, Nat))
  BY NatLessThanWellFounded, WFMin
<1>2. \A m \in Nat \ T : ~(m < n)
  BY <1>1 DEF OpToRel
<1>3. n - 1 \in Nat /\ n - 1 < n /\ (n - 1) + 1 = n
  OBVIOUS
<1>4. n - 1 \in T
  BY <1>2, <1>3
<1> QED BY <1>3, <1>4

\* A function on 0..N whose values in S come from b by N steps, each with its number; there is one.
Steps(S, b, N, h) == b \in S /\ N \in Nat /\ h \in [(1..N) \X S -> S]
Iteration(S, b, N, h, g) ==
  g \in [0..N -> S] /\ g[0] = b /\ \A i \in 1..N : g[i] = h[<<i, g[i - 1]>>]
LEMMA Iterated ==
  ASSUME NEW S, NEW b, NEW N, NEW h, Steps(S, b, N, h)
  PROVE  \E g : Iteration(S, b, N, h, g)
<1> b \in S /\ N \in Nat /\ h \in [(1..N) \X S -> S]
  BY DEF Steps
<1> DEFINE Upto(m, g) == g[0] = b /\ \A i \in 1..m : g[i] = h[<<i, g[i - 1]>>]
           T == {m \in Nat : m <= N => \E g \in [0..m -> S] : Upto(m, g)}
<1>1. 0 \in T
  <2>1. [i \in 0..0 |-> b] \in [0..0 -> S] /\ Upto(0, [i \in 0..0 |-> b])
    OBVIOUS
  <2> QED BY <2>1
<1>2. ASSUME NEW m \in Nat, m \in T PROVE m + 1 \in T
  <2> SUFFICES ASSUME m + 1 <= N PROVE \E g \in [0..(m + 1) -> S] : Upto(m + 1, g)
    OBVIOUS
  <2>1. PICK g \in [0..m -> S] : Upto(m, g)
    BY <1>2
  <2>2. m + 1 \in 1..N /\ m \in 0..m /\ g[m] \in S /\ h[<<m + 1, g[m]>>] \in S
    OBVIOUS
  <2> DEFINE G == [i \in 0..(m + 1) |-> IF i <= m THEN g[i] ELSE h[<<m + 1, g[m]>>]]
  <2>3. G \in [0..(m + 1) -> S]
    BY <2>2
  <2>4. G[0] = b
    BY <2>1
  <2>5. ASSUME NEW i \in 1..(m + 1) PROVE G[i] = h[<<i, G[i - 1]>>]
    <3>1. CASE i = m + 1
      <4>1. G[m + 1] = h[<<m + 1, g[m]>>] /\ G[m] = g[m] /\ i - 1 = m
        BY <3>1
      <4> HIDE DEF G
      <4> QED BY <3>1, <4>1
    <3>2. CASE i # m + 1
      <4>1. i \in 1..m /\ i - 1 \in 0..m /\ i \in 0..m
        BY <3>2
      <4>2. G[i] = g[i] /\ G[i - 1] = g[i - 1]
        BY <4>1
      <4> HIDE DEF G
      <4> QED BY <2>1, <4>1, <4>2
    <3> QED BY <3>1, <3>2
  <2> HIDE DEF G
  <2> QED BY <2>3, <2>4, <2>5
<1>3. N \in T
  <2> HIDE DEF T
  <2> QED BY <1>1, <1>2, Inductive
<1> QED BY <1>3 DEF Iteration

\* What every step keeps holds of every value.
LEMMA Iterates ==
  ASSUME NEW S, NEW N \in Nat, NEW f, f[0] \in S,
         \A n \in 1..N : f[n - 1] \in S => f[n] \in S
  PROVE  \A n \in 0..N : f[n] \in S
<1> DEFINE T == {n \in Nat : n <= N => f[n] \in S}
<1>1. 0 \in T
  OBVIOUS
<1>2. ASSUME NEW n \in Nat, n \in T PROVE n + 1 \in T
  <2> SUFFICES ASSUME n + 1 <= N PROVE f[n + 1] \in S
    OBVIOUS
  <2>1. f[n] \in S /\ n + 1 \in 1..N /\ (n + 1) - 1 = n
    BY <1>2
  <2> QED BY <2>1
<1> HIDE DEF T
<1>3. Nat \subseteq T
  BY <1>1, <1>2, Inductive
<1> QED BY <1>3 DEF T

\* What a search may store, and what the catalog holds: a paper whose marked source is the
\* one that wrote its abstract, unless two processes updated it at the same time.
RecordRow ==
  [doi : Identifiers, arxiv : Identifiers, title : {w.title : w \in Works},
   by : Origins, length : 0..2, sources : SUBSET Origins]
MarkedPaper == {p \in PaperRow : p.raced \/ p.flagged \subseteq {p.by}}

\* Both a new row and a changed one are marked papers: the mark moves with the text.
LEMMA NewPaperMarked ==
  ASSUME NEW r \in RecordRow
  PROVE  NewPaper(r) \in MarkedPaper
BY DEF RecordRow, NewPaper, MarkedPaper, PaperRow

LEMMA UpdatedPaperMarked ==
  ASSUME NEW stored \in MarkedPaper, NEW loaded \in MarkedPaper, NEW r \in RecordRow
  PROVE  UpdatedPaper(stored, loaded, r) \in MarkedPaper
<1> DEFINE p == UpdatedPaper(stored, loaded, r)
           replaced == ReplacesAbstract(loaded, r)
           text == <<IF replaced THEN r.by ELSE loaded.by,
                     IF replaced THEN r.length ELSE loaded.length>>
           written == Column(text, <<loaded.by, loaded.length>>, <<stored.by, stored.length>>)
           Flag(o) == IF replaced THEN ProvidesAbstract(loaded, r, o) ELSE o \in loaded.flagged
           flags == {o \in stored.sources \cup r.sources :
              Column(o \in loaded.sources \cup r.sources /\ Flag(o), o \in loaded.flagged,
                     o \in stored.flagged)}
           doi == Column(FirstOf(loaded.doi, r.doi), loaded.doi, stored.doi)
           arxiv == Column(FirstOf(loaded.arxiv, r.arxiv), loaded.arxiv, stored.arxiv)
<1>1. /\ stored \in PaperRow /\ loaded \in PaperRow
      /\ r.doi \in Identifiers /\ r.arxiv \in Identifiers /\ r.by \in Origins
      /\ r.length \in 0..2 /\ r.sources \subseteq Origins
  BY DEF MarkedPaper, RecordRow
<1>2. p = [stored EXCEPT !.doi = doi, !.arxiv = arxiv, !.by = written[1],
             !.length = written[2], !.sources = stored.sources \cup r.sources, !.flagged = flags,
             !.raced = stored.raced \/ stored # loaded]
  BY DEF UpdatedPaper
<1>3. doi \in Identifiers /\ arxiv \in Identifiers
  BY <1>1 DEF Column, FirstOf, PaperRow
<1>4. written[1] \in Origins /\ written[2] \in 0..2
  BY <1>1 DEF Column, PaperRow
<1>5. flags \subseteq Origins
  BY <1>1 DEF PaperRow
<1>6. /\ p.raced = (stored.raced \/ stored # loaded) /\ p.flagged = flags /\ p.by = written[1]
      /\ p \in PaperRow
  <2> HIDE DEF doi, arxiv, written, flags
  <2>1. (stored.raced \/ stored # loaded) \in BOOLEAN
    OBVIOUS
  <2> QED BY <1>1, <1>2, <1>3, <1>4, <1>5 DEF PaperRow
<1>7. ASSUME ~stored.raced, stored = loaded
      PROVE  flags \subseteq {written[1]}
  <2>1. stored.flagged \subseteq {stored.by}
    BY <1>7 DEF MarkedPaper
  <2>2. CASE replaced
    <3>1. written[1] = r.by
      BY <1>7, <2>2 DEF Column
    <3> QED BY <1>7, <2>2, <3>1 DEF Column, ProvidesAbstract
  <2>3. CASE ~replaced
    <3>1. written[1] = stored.by
      BY <1>7, <2>3 DEF Column
    <3> QED BY <1>7, <2>1, <2>3, <3>1 DEF Column
  <2> QED BY <2>2, <2>3
<1>8. p.raced \/ p.flagged \subseteq {p.by}
  BY <1>6, <1>7
<1> QED BY <1>6, <1>8 DEF MarkedPaper

\* One record is stored.
LEMMA UpsertsMarked ==
  ASSUME NEW catalog \in Seq(MarkedPaper), NEW loaded \in Seq(MarkedPaper), NEW r \in RecordRow
  PROVE  Upserts(catalog, loaded, r) \subseteq Seq(MarkedPaper)
<1> SUFFICES ASSUME NEW c \in Upserts(catalog, loaded, r) PROVE c \in Seq(MarkedPaper)
  OBVIOUS
<1>1. CASE c = Append(catalog, NewPaper(r))
  BY <1>1, NewPaperMarked
<1> DEFINE Row(i) == IF Unchanged(loaded[i], r) THEN catalog[i]
                     ELSE UpdatedPaper(catalog[i], loaded[i], r)
<1>2. CASE \E i \in DOMAIN loaded : c = [catalog EXCEPT ![i] = Row(i)]
  <2>1. PICK i \in DOMAIN loaded : c = [catalog EXCEPT ![i] = Row(i)]
    BY <1>2
  <2>2. loaded[i] \in MarkedPaper
    OBVIOUS
  <2>3. i \in DOMAIN catalog => Row(i) \in MarkedPaper
    <3>1. i \in DOMAIN catalog => catalog[i] \in MarkedPaper
      OBVIOUS
    <3> QED BY <2>2, <3>1, UpdatedPaperMarked
  <2> HIDE DEF Row
  <2>4. Len(catalog) \in Nat /\ catalog \in [1..Len(catalog) -> MarkedPaper]
    OBVIOUS
  <2>5. c \in [1..Len(catalog) -> MarkedPaper]
    BY <2>1, <2>3, <2>4
  <2> QED BY <2>4, <2>5, SeqDef
<1>3. FindExisting(loaded, r) \subseteq DOMAIN loaded
  BY DEF FindExisting
<1> QED BY <1>1, <1>2, <1>3 DEF Upserts

\* The whole search, stored paper by paper.
LEMMA UpsertAllMarked ==
  ASSUME NEW catalog \in Seq(MarkedPaper), NEW loaded \in Seq(MarkedPaper),
         NEW records \in Seq(RecordRow)
  PROVE  UpsertAll(catalog, loaded, records) \subseteq Seq(MarkedPaper)
<1> DEFINE N == Len(records)
           S == SUBSET Seq(MarkedPaper)
           Step(n, C) == UNION {Upserts(c, IF n = 1 THEN loaded ELSE c, records[n]) : c \in C}
           h == [x \in (1..N) \X S |-> Step(x[1], x[2])]
           stored == CHOOSE f : f = [n \in 0..N |->
             IF n = 0 THEN {catalog}
             ELSE UNION {Upserts(c, IF n = 1 THEN loaded ELSE c, records[n]) : c \in f[n - 1]}]
<1>1. N \in Nat /\ \A n \in 1..N : records[n] \in RecordRow
  OBVIOUS
<1>2. ASSUME NEW n \in 1..N, NEW C \in S PROVE Step(n, C) \in S
  <2> SUFFICES ASSUME NEW c \in C, NEW d \in Upserts(c, IF n = 1 THEN loaded ELSE c, records[n])
               PROVE  d \in Seq(MarkedPaper)
    OBVIOUS
  <2>1. c \in Seq(MarkedPaper) /\ records[n] \in RecordRow
    BY <1>1
  <2>2. (IF n = 1 THEN loaded ELSE c) \in Seq(MarkedPaper)
    BY <2>1
  <2> QED BY <2>1, <2>2, UpsertsMarked
<1>3. h \in [(1..N) \X S -> S]
  <2> HIDE DEF Step, S
  <2> QED BY <1>2
<1>4. {catalog} \in S
  OBVIOUS
<1>5. PICK g : Iteration(S, {catalog}, N, h, g)
  <2>1. Steps(S, {catalog}, N, h)
    <3> HIDE DEF h, S, N
    <3> QED BY <1>1, <1>3, <1>4 DEF Steps
  <2> HIDE DEF h, S, N
  <2> QED BY <2>1, Iterated
<1>6. g = [n \in 0..N |-> IF n = 0 THEN {catalog} ELSE Step(n, g[n - 1])]
  <2>1. ASSUME NEW n \in 1..N PROVE g[n] = Step(n, g[n - 1])
    <3>1. n - 1 \in 0..N
      BY <1>1
    <3>2. g[n - 1] \in S
      <4> HIDE DEF S, N
      <4> QED BY <1>5, <3>1 DEF Iteration
    <3>3. h[<<n, g[n - 1]>>] = Step(n, g[n - 1])
      <4> HIDE DEF S, N, Step
      <4> QED BY <3>2
    <3> HIDE DEF S, N, Step, h
    <3> QED BY <1>5, <3>3 DEF Iteration
  <2> HIDE DEF h, Step, N, S
  <2> QED BY <1>1, <1>5, <2>1 DEF Iteration
<1>7. stored = [n \in 0..N |-> IF n = 0 THEN {catalog} ELSE Step(n, stored[n - 1])]
  <2> HIDE DEF N
  <2> QED BY <1>6
<1>8. \A n \in 0..N : stored[n] \in S
  <2> HIDE DEF stored, Step, S
  <2>1. stored[0] \in S
    BY <1>1, <1>4, <1>7
  <2>2. ASSUME NEW n \in 1..N, stored[n - 1] \in S PROVE stored[n] \in S
    <3>1. stored[n] = Step(n, stored[n - 1])
      <4> HIDE DEF h, N
      <4>1. n \in 0..N /\ n # 0
        BY <1>1
      <4> QED BY <1>7, <4>1
    <3> QED BY <1>2, <2>2, <3>1
  <2> QED BY <1>1, <2>1, <2>2, Iterates
<1>9. UpsertAll(catalog, loaded, records) = stored[N]
  BY DEF UpsertAll
<1> HIDE DEF stored
<1> QED BY <1>1, <1>8, <1>9

\* What the adapters say, and what merging makes of it.
LEMMA RecordsTyped == \A s \in CatalogSources : RecordsOf(s) \subseteq RecordRow
<1> SUFFICES ASSUME NEW s \in CatalogSources, NEW r \in RecordsOf(s) PROVE r \in RecordRow
  OBVIOUS
<1>1. \A w \in Works : w.doi \in Identifiers /\ w.arxiv \in Identifiers /\ NoId \in Identifiers
        /\ w.title \in {v.title : v \in Works}
  BY DEF Identifiers
<1>2. ASSUME NEW t, NEW d \in Identifiers, NEW a \in Identifiers, NEW w \in Works, NEW n \in 0..2,
             NEW id \in SourceIds \cup {NoId}, SourceRecord(<<t, id>>, d, a, w, n).by[1] = s
      PROVE  SourceRecord(<<t, id>>, d, a, w, n) \in RecordRow
  <2>1. <<t, id>> \in Origins
    BY <1>2 DEF SourceRecord, Origins
  <2> QED BY <1>1, <2>1 DEF SourceRecord, RecordRow
<1>3. r.by[1] = s
  BY DEF RecordsOf
<1>4. \A id \in SourceIds, given \in BOOLEAN :
        Length(id, given) \in 0..2 /\ Abstracts[id] \in 0..2
  BY DEF Length
<1>5. CASE r \in OpenAlexRecords
  <2>1. PICK given \in BOOLEAN, id \in SourceIds, w \in Works :
          r = SourceRecord(<<"openalex", id>>, w.doi, NoId, w, Length(id, given))
    BY ONLY <1>5, SMTT(30) DEF OpenAlexRecords
  <2> QED BY <1>1, <1>2, <1>3, <1>4, <2>1
<1>6. CASE r \in CrossrefRecords
  <2>1. PICK given \in BOOLEAN, id \in SourceIds, w \in Works :
          r = SourceRecord(<<"crossref", id>>, w.doi, NoId, w, Length(id, given))
    BY ONLY <1>6, SMTT(30) DEF CrossrefRecords
  <2> QED BY <1>1, <1>2, <1>3, <1>4, <2>1
<1>7. CASE r \in ArxivRecords
  <2>1. PICK linked \in BOOLEAN, id \in SourceIds, w \in {v \in Works : v.arxiv # NoId} :
          r = SourceRecord(<<"arxiv", id>>, IF linked THEN w.doi ELSE NoId, w.arxiv, w,
                           Abstracts[id])
    BY ONLY <1>7, SMTT(30) DEF ArxivRecords
  <2>2. PICK d \in Identifiers : d = IF linked THEN w.doi ELSE NoId
    BY <1>1
  <2> QED BY <1>1, <1>2, <1>3, <1>4, <2>1, <2>2
<1>8. CASE r \in SemanticScholarRecords
  <2>1. PICK given \in BOOLEAN, id \in SourceIds, w \in Works :
          r = SourceRecord(<<"semantic_scholar", id>>, w.doi, w.arxiv, w, Length(id, given))
    BY ONLY <1>8, SMTT(30) DEF SemanticScholarRecords
  <2> QED BY <1>1, <1>2, <1>3, <1>4, <2>1
<1>9. CASE r \in FixtureRecords
  <2>1. PICK w \in Works : r = SourceRecord(<<"fixture", NoId>>, NoId, NoId, w, 2)
    BY <1>9 DEF FixtureRecords
  <2>2. NoId \in Identifiers /\ NoId \in SourceIds \cup {NoId} /\ 2 \in 0..2
    BY <1>1
  <2>3. SourceRecord(<<"fixture", NoId>>, NoId, NoId, w, 2).by[1] = s
    BY <1>3, <2>1
  <2> QED BY ONLY <1>2, <2>1, <2>2, <2>3
<1> QED BY <1>5, <1>6, <1>7, <1>8, <1>9 DEF RecordsOf

\* Deduplication: the records found, with their keys.
Entry == [key : {DedupKey(r) : r \in RecordRow}, record : RecordRow]

LEMMA MergeTyped ==
  ASSUME NEW a \in RecordRow, NEW b \in RecordRow
  PROVE  MergeRecords(a, b) \in RecordRow
<1> DEFINE doi == FirstOf(a.doi, b.doi)  arxiv == FirstOf(a.arxiv, b.arxiv)
           by == IF a.length >= b.length THEN a.by ELSE b.by
           length == IF a.length >= b.length THEN a.length ELSE b.length
<1>1. doi \in Identifiers /\ arxiv \in Identifiers /\ by \in Origins /\ length \in 0..2
  BY DEF RecordRow, FirstOf
<1>2. MergeRecords(a, b) = [a EXCEPT !.doi = doi, !.arxiv = arxiv, !.by = by, !.length = length,
                              !.sources = a.sources \cup b.sources]
  BY DEF MergeRecords
<1> HIDE DEF doi, arxiv, by, length
<1> QED BY <1>1, <1>2 DEF RecordRow

LEMMA AddTyped ==
  ASSUME NEW found \in Seq(Entry), NEW r \in RecordRow
  PROVE  Add(found, r) \in Seq(Entry)
<1> DEFINE Joined(i) == IF found[i].key = DedupKey(r)
                        THEN [found[i] EXCEPT !.record = MergeRecords(found[i].record, r)]
                        ELSE found[i]
<1>1. \A i \in DOMAIN found : Joined(i) \in Entry
  <2> SUFFICES ASSUME NEW i \in DOMAIN found PROVE Joined(i) \in Entry
    OBVIOUS
  <2>1. PICK e \in Entry : e = found[i]
    OBVIOUS
  <2>2. MergeRecords(e.record, r) \in RecordRow
    BY MergeTyped DEF Entry
  <2>3. [e EXCEPT !.record = MergeRecords(e.record, r)] \in Entry
    BY <2>2 DEF Entry
  <2> QED BY <2>1, <2>3
<1>2. [key |-> DedupKey(r), record |-> r] \in Entry
  BY DEF Entry
<1>3. Len(found) \in Nat /\ DOMAIN found = 1..Len(found)
  OBVIOUS
<1>4. [i \in DOMAIN found |-> Joined(i)] \in Seq(Entry)
  <2> HIDE DEF Joined
  <2> QED BY <1>1, <1>3, SeqDef
<1>5. Append(found, [key |-> DedupKey(r), record |-> r]) \in Seq(Entry)
  BY <1>2
<1>6. Add(found, r) = IF \E i \in DOMAIN found : found[i].key = DedupKey(r)
                      THEN [i \in DOMAIN found |-> Joined(i)]
                      ELSE Append(found, [key |-> DedupKey(r), record |-> r])
  BY DEF Add
<1> QED BY <1>4, <1>5, <1>6

LEMMA FiniteInterval == \A n \in Nat : IsFiniteSet(1..n)
<1> SUFFICES ASSUME NEW n \in Nat PROVE IsFiniteSet(1..n)
  OBVIOUS
<1>1. 1 \in Int /\ n \in Int
  OBVIOUS
<1> QED BY <1>1, FS_Interval

\* The records of a source, in the order of the sources.
LEMMA AnswersTyped ==
  ASSUME NEW answers \in SourceAnswers, NEW s \in CatalogSources
  PROVE  answers[s] \in Seq(RecordRow)
<1>1. answers[s] \in QueryRecords(s)
  BY DEF SourceAnswers
<1>2. PICK k \in {1, 2} : answers[s] \in BoundedSeq(RecordsOf(s), k)
  BY <1>1 DEF QueryRecords
<1>3. PICK m \in 0..k : answers[s] \in [1..m -> RecordsOf(s)]
  BY <1>2 DEF BoundedSeq, SeqOf
<1>4. answers[s] \in [1..m -> RecordRow] /\ m \in Nat
  BY <1>3, RecordsTyped
<1> QED BY <1>4, SeqDef

LEMMA DeduplicatedTyped ==
  ASSUME NEW records \in Seq(RecordRow)
  PROVE  Deduplicated(records) \subseteq RecordRow /\ IsFiniteSet(Deduplicated(records))
<1> DEFINE N == Len(records)
           S == Seq(Entry)
           Step(n, found) == Add(found, records[n])
           h == [x \in (1..N) \X S |-> Step(x[1], x[2])]
           added == CHOOSE f : f = [n \in 0..N |->
             IF n = 0 THEN <<>> ELSE Add(f[n - 1], records[n])]
<1>1. N \in Nat /\ \A n \in 1..N : records[n] \in RecordRow
  OBVIOUS
<1>2. ASSUME NEW n \in 1..N, NEW found \in S PROVE Step(n, found) \in S
  BY <1>1, AddTyped
<1>3. h \in [(1..N) \X S -> S]
  <2> HIDE DEF Step, S
  <2> QED BY <1>2
<1>4. <<>> \in S
  OBVIOUS
<1>5. PICK g : Iteration(S, <<>>, N, h, g)
  <2>1. Steps(S, <<>>, N, h)
    <3> HIDE DEF h, S, N
    <3> QED BY <1>1, <1>3, <1>4 DEF Steps
  <2> HIDE DEF h, S, N
  <2> QED BY <2>1, Iterated
<1>6. g = [n \in 0..N |-> IF n = 0 THEN <<>> ELSE Step(n, g[n - 1])]
  <2>1. ASSUME NEW n \in 1..N PROVE g[n] = Step(n, g[n - 1])
    <3>1. n - 1 \in 0..N
      BY <1>1
    <3>2. g[n - 1] \in S
      <4> HIDE DEF S, N
      <4> QED BY <1>5, <3>1 DEF Iteration
    <3>3. h[<<n, g[n - 1]>>] = Step(n, g[n - 1])
      <4> HIDE DEF S, N, Step
      <4> QED BY <3>2
    <3> HIDE DEF S, N, Step, h
    <3> QED BY <1>5, <3>3 DEF Iteration
  <2> HIDE DEF h, Step, N, S
  <2> QED BY <1>1, <1>5, <2>1 DEF Iteration
<1>7. added = [n \in 0..N |-> IF n = 0 THEN <<>> ELSE Step(n, added[n - 1])]
  <2> HIDE DEF N
  <2> QED BY <1>6
<1>8. \A n \in 0..N : added[n] \in S
  <2> HIDE DEF added, Step, S
  <2>1. added[0] \in S
    BY <1>1, <1>4, <1>7
  <2>2. ASSUME NEW n \in 1..N, added[n - 1] \in S PROVE added[n] \in S
    <3>1. added[n] = Step(n, added[n - 1])
      <4> HIDE DEF h, N
      <4>1. n \in 0..N /\ n # 0
        BY <1>1
      <4> QED BY <1>7, <4>1
    <3> QED BY <1>2, <2>2, <3>1
  <2> QED BY <1>1, <2>1, <2>2, Iterates
<1>9. PICK found \in Seq(Entry) : found = added[N]
  <2> HIDE DEF added
  <2> QED BY <1>1, <1>8
<1> DEFINE D == {found[i].record : i \in DOMAIN found}
<1>10. Deduplicated(records) = D
  BY <1>9 DEF Deduplicated
<1>11. D \subseteq RecordRow
  <2> SUFFICES ASSUME NEW i \in DOMAIN found PROVE found[i].record \in RecordRow
    OBVIOUS
  <2>1. found[i] \in Entry
    OBVIOUS
  <2> QED BY <2>1 DEF Entry
<1>12. IsFiniteSet(D)
  <2> DEFINE F == [i \in 1..Len(found) |-> found[i].record]
  <2>1. Len(found) \in Nat /\ DOMAIN found = 1..Len(found)
    OBVIOUS
  <2>2. IsFiniteSet(1..Len(found))
    BY <2>1, FiniteInterval
  <2>3. F \in Surjection(1..Len(found), D)
    BY <2>1 DEF Surjection
  <2> HIDE DEF F, D
  <2> QED BY <2>2, <2>3, FS_Surjection
<1> HIDE DEF D, added
<1> QED BY <1>10, <1>11, <1>12

\* All records of a search are joined and deduplicated.
LEMMA JoinedTyped ==
  ASSUME NEW answers \in SourceAnswers
  PROVE  Merged(answers) \subseteq RecordRow /\ IsFiniteSet(Merged(answers))
<1> DEFINE N == Len(SourceOrder)
           S == Seq(RecordRow)
           Step(n, rs) == rs \o answers[SourceOrder[n]]
           h == [x \in (1..N) \X S |-> Step(x[1], x[2])]
           joined == CHOOSE f : f = [n \in 0..N |->
             IF n = 0 THEN <<>> ELSE f[n - 1] \o answers[SourceOrder[n]]]
<1>1. N \in Nat /\ \A n \in 1..N : SourceOrder[n] \in CatalogSources
  OBVIOUS
<1>2. ASSUME NEW n \in 1..N, NEW rs \in S PROVE Step(n, rs) \in S
  <2>1. answers[SourceOrder[n]] \in S
    BY <1>1, AnswersTyped
  <2> QED BY <2>1
<1>3. h \in [(1..N) \X S -> S]
  <2> HIDE DEF Step, S
  <2> QED BY <1>2
<1>4. <<>> \in S
  OBVIOUS
<1>5. PICK g : Iteration(S, <<>>, N, h, g)
  <2>1. Steps(S, <<>>, N, h)
    <3> HIDE DEF h, S, N
    <3> QED BY <1>1, <1>3, <1>4 DEF Steps
  <2> HIDE DEF h, S, N
  <2> QED BY <2>1, Iterated
<1>6. g = [n \in 0..N |-> IF n = 0 THEN <<>> ELSE Step(n, g[n - 1])]
  <2>1. ASSUME NEW n \in 1..N PROVE g[n] = Step(n, g[n - 1])
    <3>1. n - 1 \in 0..N
      BY <1>1
    <3>2. g[n - 1] \in S
      <4> HIDE DEF S, N
      <4> QED BY <1>5, <3>1 DEF Iteration
    <3>3. h[<<n, g[n - 1]>>] = Step(n, g[n - 1])
      <4> HIDE DEF S, N, Step
      <4> QED BY <3>2
    <3> HIDE DEF S, N, Step, h
    <3> QED BY <1>5, <3>3 DEF Iteration
  <2> HIDE DEF h, Step, N, S
  <2> QED BY <1>1, <1>5, <2>1 DEF Iteration
<1>7. joined = [n \in 0..N |-> IF n = 0 THEN <<>> ELSE Step(n, joined[n - 1])]
  <2> HIDE DEF N
  <2> QED BY <1>6
<1>8. \A n \in 0..N : joined[n] \in S
  <2> HIDE DEF joined, Step, S
  <2>1. joined[0] \in S
    BY <1>1, <1>4, <1>7
  <2>2. ASSUME NEW n \in 1..N, joined[n - 1] \in S PROVE joined[n] \in S
    <3>1. joined[n] = Step(n, joined[n - 1])
      <4> HIDE DEF h, N
      <4>1. n \in 0..N /\ n # 0
        BY <1>1
      <4> QED BY <1>7, <4>1
    <3> QED BY <1>2, <2>2, <3>1
  <2> QED BY <1>1, <2>1, <2>2, Iterates
<1>9. joined[N] \in S
  <2> HIDE DEF joined
  <2> QED BY <1>1, <1>8
<1>10. Merged(answers) = Deduplicated(joined[N])
  BY DEF Merged
<1> HIDE DEF joined
<1> QED BY <1>9, <1>10, DeduplicatedTyped

\* However the merged records are ranked.
LEMMA RankedTyped ==
  ASSUME NEW answers \in SourceAnswers, NEW ranked \in SetToSeqs(Merged(answers))
  PROVE  ranked \in Seq(RecordRow)
<1> DEFINE M == Merged(answers)
<1>1. M \subseteq RecordRow /\ Cardinality(M) \in Nat
  BY JoinedTyped, FS_CardinalityType
<1>2. ranked \in [1..Cardinality(M) -> M]
  BY DEF SetToSeqs
<1> HIDE DEF M
<1>3. ranked \in [1..Cardinality(M) -> RecordRow]
  BY <1>1, <1>2
<1> QED BY <1>1, <1>3, SeqDef

\* The inductive invariant: what is stored, what was read and what is to be stored is typed,
\* and every row that is stored or was read is a marked paper.
CatalogInv ==
  /\ papers \in Seq(MarkedPaper)
  /\ storing \in [Writers -> [records : Seq(RecordRow), loaded : Seq(MarkedPaper)]]

LEMMA CatalogInitInv == CatalogInit => CatalogInv
<1> SUFFICES ASSUME CatalogInit PROVE CatalogInv
  OBVIOUS
<1>1. <<>> \in Seq(MarkedPaper) /\ <<>> \in Seq(RecordRow)
  OBVIOUS
<1> QED BY <1>1 DEF CatalogInit, CatalogInv, NotStoring

LEMMA StoringTyped ==
  ASSUME CatalogInv, NEW w \in Writers, NEW r \in Seq(RecordRow), NEW l \in Seq(MarkedPaper),
         papers' \in Seq(MarkedPaper),
         storing' = [storing EXCEPT ![w] = [records |-> r, loaded |-> l]]
  PROVE  CatalogInv'
<1>1. [records |-> r, loaded |-> l] \in [records : Seq(RecordRow), loaded : Seq(MarkedPaper)]
  OBVIOUS
<1> QED BY <1>1 DEF CatalogInv

LEMMA CatalogStepInv == CatalogInv /\ [CatalogNext]_catalogVars => CatalogInv'
<1> SUFFICES ASSUME CatalogInv, [CatalogNext]_catalogVars PROVE CatalogInv'
  OBVIOUS
<1>1. <<>> \in Seq(MarkedPaper) /\ <<>> \in Seq(RecordRow) /\ papers \in Seq(MarkedPaper)
  BY DEF CatalogInv
<1>2. ASSUME NEW w \in Writers, AnswerSearch(w) PROVE CatalogInv'
  <2>1. PICK answers \in SourceAnswers : \E ranked \in SetToSeqs(Merged(answers)) :
          storing' = [storing EXCEPT ![w] = [records |-> ranked, loaded |-> papers]]
    BY <1>2 DEF AnswerSearch, Rankings
  <2>4. PICK ranked \in SetToSeqs(Merged(answers)) :
          storing' = [storing EXCEPT ![w] = [records |-> ranked, loaded |-> papers]]
    BY <2>1
  <2>2. papers' = papers
    BY <1>2 DEF AnswerSearch
  <2>3. ranked \in Seq(RecordRow)
    BY RankedTyped
  <2> QED BY <1>1, <2>4, <2>2, <2>3, StoringTyped
<1>3. ASSUME NEW w \in Writers, StorePapers(w) PROVE CatalogInv'
  <2>1. storing[w].records \in Seq(RecordRow) /\ storing[w].loaded \in Seq(MarkedPaper)
    BY DEF CatalogInv
  <2>2. papers' \in Seq(MarkedPaper)
    BY <1>1, <1>3, <2>1, UpsertAllMarked DEF StorePapers
  <2> QED BY <1>1, <1>3, <2>2, StoringTyped DEF StorePapers, NotStoring
<1>4. ASSUME NEW w \in Writers, StoreFails(w) PROVE CatalogInv'
  BY <1>1, <1>4, StoringTyped DEF StoreFails, NotStoring
<1>5. CASE UNCHANGED catalogVars
  BY <1>5 DEF catalogVars, CatalogInv
<1>6. ASSUME NEW w \in Writers, PassUnchanged(w) PROVE CatalogInv'
  <2>1. storing[w].records \in Seq(RecordRow) /\ storing[w].loaded \in Seq(MarkedPaper)
          /\ storing[w].records # <<>>
    BY <1>6 DEF CatalogInv, PassUnchanged
  <2>2. PICK i \in FindExisting(storing[w].loaded, Head(storing[w].records)) :
          \E read \in {papers, [papers EXCEPT ![i] = storing[w].loaded[i]]} :
            storing' = [storing EXCEPT ![w] =
                          [records |-> Tail(storing[w].records), loaded |-> read]]
    BY <1>6 DEF PassUnchanged
  <2>3. i \in DOMAIN storing[w].loaded
    BY DEF FindExisting
  <2>4. storing[w].loaded[i] \in MarkedPaper
    BY <2>1, <2>3
  <2>5. [papers EXCEPT ![i] = storing[w].loaded[i]] \in Seq(MarkedPaper)
    <3>1. Len(papers) \in Nat /\ papers \in [1..Len(papers) -> MarkedPaper]
      BY <1>1
    <3>2. [papers EXCEPT ![i] = storing[w].loaded[i]] \in [1..Len(papers) -> MarkedPaper]
      BY <2>4, <3>1
    <3> QED BY <3>1, <3>2, SeqDef
  <2>6. Tail(storing[w].records) \in Seq(RecordRow) /\ papers' = papers
    BY <1>6, <2>1 DEF PassUnchanged
  <2>7. PICK read \in {papers, [papers EXCEPT ![i] = storing[w].loaded[i]]} :
          storing' = [storing EXCEPT ![w] =
                        [records |-> Tail(storing[w].records), loaded |-> read]]
    BY <2>2
  <2>8. read \in Seq(MarkedPaper)
    BY <1>1, <2>5, <2>7
  <2> QED BY <1>1, <2>6, <2>7, <2>8, StoringTyped
<1> QED BY <1>2, <1>3, <1>4, <1>5, <1>6 DEF CatalogNext

LEMMA CatalogInvariant == CatalogSpec => []CatalogInv
BY CatalogInitInv, CatalogStepInv, PTL DEF CatalogSpec

\* Papers and pending searches stay within their types, for any sources, works and writers.
THEOREM CatalogTypeCorrect == CatalogSpec => []CatalogTypeOK
<1>1. CatalogInv => CatalogTypeOK
  <2> SUFFICES ASSUME CatalogInv PROVE CatalogTypeOK
    OBVIOUS
  <2>1. \A i \in DOMAIN papers : papers[i] \in PaperRow
    BY DEF CatalogInv, MarkedPaper
  <2>2. ASSUME NEW w \in Writers, NEW i \in DOMAIN storing[w].loaded
        PROVE  storing[w].loaded[i] \in PaperRow
    <3>1. storing[w].loaded \in Seq(MarkedPaper)
      BY DEF CatalogInv
    <3> QED BY <3>1 DEF MarkedPaper
  <2> QED BY <2>1, <2>2 DEF CatalogTypeOK
<1> QED BY <1>1, CatalogInvariant, PTL

\* The source marked as supplying the abstract wrote the stored text, whatever the searches
\* merge and in whatever order processes store them, unless two updated the paper together.
THEOREM MarkedSourceWrote == CatalogSpec => []MarkedSourceWroteAbstract
<1>1. CatalogInv => MarkedSourceWroteAbstract
  <2> SUFFICES ASSUME CatalogInv, NEW i \in DOMAIN papers
               PROVE  papers[i].raced \/ papers[i].flagged \subseteq {papers[i].by}
    BY DEF MarkedSourceWroteAbstract
  <2>1. papers[i] \in MarkedPaper
    BY DEF CatalogInv
  <2> QED BY <2>1 DEF MarkedPaper
<1> QED BY <1>1, CatalogInvariant, PTL

-----------------------------------------------------------------------------
(* The services together: one of them runs and the others rest. *)

\* What the services do together is what each of them does alone, or a step it does not see.
THEOREM ServicesImplementEach ==
  ServicesSpec => StudySpec /\ SchemaSpec /\ CatalogSpec /\ CooldownSpec /\ AnalysisSpec
<1>1. ServicesInit => StudyInit /\ SchemaInit /\ CatalogInit /\ CooldownInit /\ AnalysisInit
  BY DEF ServicesInit
<1>2. ASSUME [ServicesNext]_servicesVars
      PROVE  /\ [StudyNext]_studyVars /\ [SchemaNext]_schemaVars /\ [CatalogNext]_catalogVars
             /\ [CooldownNext]_cooldownVars /\ [AnalysisNext]_analysisVars
  BY <1>2 DEF ServicesNext, servicesVars
<1> QED BY <1>1, <1>2, PTL DEF ServicesSpec, StudySpec, SchemaSpec, CatalogSpec, CooldownSpec, AnalysisSpec

\* Every variable of every service stays within its type, for any sizes of the services.
THEOREM ServicesTypeCorrect == MaxEvidence \in Nat => (ServicesSpec => []ServicesTypeOK)
<1>1. StudyTypeOK /\ SchemaTypeOK /\ CatalogTypeOK /\ CooldownTypeOK /\ AnalysisTypeOK
        => ServicesTypeOK
  BY DEF ServicesTypeOK
<1> QED BY <1>1, ServicesImplementEach, StudyTypeCorrect, SchemaTypeCorrect, CatalogTypeCorrect,
           CooldownTypeCorrect, AnalysisTypeCorrect, PTL

=============================================================================
