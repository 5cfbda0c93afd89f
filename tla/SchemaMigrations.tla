-------------------------- MODULE SchemaMigrations --------------------------
(***************************************************************************)
(* The schema of the database: the nine Alembic revisions, statement by      *)
(* statement; the tables the ORM models declare, which a local server        *)
(* creates when they are missing; and the scripts that bootstrap, audit and  *)
(* verify a remote database.                                                *)
(*                                                                          *)
(* SQLite has no transactional DDL here: every statement is durable when it  *)
(* returns and a revision is recorded only after its last one, so a crash    *)
(* leaves a part of a revision. Only from the rebuild of gap_candidates in   *)
(* 0003 on, whose copy of the rows opens a transaction, is the rest of the   *)
(* revision committed together.                                             *)
(*                                                                          *)
(* An object <<n, r>> is what one statement of revision r makes: the table   *)
(* n, the column n, or the rebuilt table n. Abstracted: column types,        *)
(* indexes and row contents.                                                *)
(***************************************************************************)
EXTENDS Naturals, Sequences, SequencesExt, FiniteSets

CONSTANTS
  SchemaServers,  \* processes that create missing tables when they start: API, worker
  MaxMigrations   \* bound: migrations, bootstraps and server starts

CodeHead == 9        \* _code_head
BootstrapTo == 5 \* the revisions bootstrap() names
Revisions == 1..CodeHead

-----------------------------------------------------------------------------
\* The tables every revision creates and the columns it adds, in the order of its statements.
PapersAndUsers == <<"papers", "users", "favorites", "notes", "paper_documents",
  "paper_sources", "reading_status">>
ProjectsAndRuns == <<"research_profiles", "research_projects", "session_tokens", "tags",
  "agent_runs", "gap_candidates">>
JobsAndAnalyses == <<"jobs", "paper_analyses", "paper_chunks", "paper_tags",
  "recommendations">>
SearchesAndPlans == <<"search_sessions", "gap_evidence", "job_events", "research_plans",
  "plan_items", "paper_chunks_fts">>
Upgrade1 == PapersAndUsers \o ProjectsAndRuns \o JobsAndAnalyses \o SearchesAndPlans
Upgrade2 == <<"prompt_versions", "tool_calls", "source_requests">>
Rebuilt == "gap_candidates"
SessionColumns == <<"search_mode", "ranking_rule_version", "diversity_seed",
  "composition_json">>
\* Mutant: the sets are created after the rows that name them.
Upgrade3Unordered == SessionColumns \o <<"user_settings", "paper_set_items", "paper_sets",
  "comparison_runs", Rebuilt, "gap_explanations", "idempotency_records">>
Upgrade3 == SessionColumns \o <<"user_settings", "paper_sets", "paper_set_items",
  "comparison_runs", Rebuilt, "gap_explanations", "idempotency_records">>
Upgrade4 == <<"provides_abstract">>
DocumentColumns == <<"source_url", "source_record_id", "rights_basis", "license",
  "retrieved_at", "response_hash", "acquisition_run_id", "parse_status">>
AnalysisColumns == <<"analysis_run_id", "analysis_mode", "provider", "model_name",
  "prompt_version", "input_evidence_hash", "provider_output_hash", "fallback_reason">>
CallColumns == <<"latency_ms", "attempt_count", "token_usage_json", "response_status",
  "validated_output_hash">>
AuthorsAndDatasets == <<"source_runtime_states", "authors", "paper_authors",
  "author_source_records", "dataset_cards", "paper_dataset_mentions">>
ClustersAndStudies == <<"direction_cluster_runs", "direction_clusters",
  "direction_cluster_members", "evaluation_studies", "evaluation_tasks">>
StudyRows == <<"evaluation_assignments", "evaluation_ratings", "evaluation_results">>
Upgrade5 == DocumentColumns \o AnalysisColumns \o CallColumns
              \o AuthorsAndDatasets \o ClustersAndStudies \o StudyRows
Upgrade6 == <<"material_binding_json">>
Upgrade7 == <<"purpose", "expected_output">>
Upgrade8 == <<"lease_owner", "lease_expires_at", "next_allowed_at">>
Upgrade9 == <<"plan_kind", "abstract_translation_cache">>
Upgrades == <<Upgrade1, Upgrade2, Upgrade3, Upgrade4, Upgrade5, Upgrade6, Upgrade7,
              Upgrade8, Upgrade9>>

\* A downgrade undoes the statements last to first.
Downgrade1 == Reverse(Upgrade1)
Downgrade2 == Reverse(Upgrade2)
Downgrade3 == Reverse(Upgrade3)
Downgrade5 == Reverse(Upgrade5)
Downgrades == <<Downgrade1, Downgrade2, Downgrade3, Reverse(Upgrade4), Downgrade5,
                Reverse(Upgrade6), Reverse(Upgrade7), Reverse(Upgrade8), Reverse(Upgrade9)>>

\* The table a column is added to.
AddedColumns == [search_sessions |-> Range(SessionColumns), paper_sources |-> Range(Upgrade4),
  paper_documents |-> Range(DocumentColumns) \cup Range(Upgrade6),
  paper_analyses |-> Range(AnalysisColumns), tool_calls |-> Range(CallColumns),
  plan_items |-> Range(Upgrade7), source_runtime_states |-> Range(Upgrade8),
  research_plans |-> {"plan_kind"}]
TableOf(n) == IF \E t \in DOMAIN AddedColumns : n \in AddedColumns[t]
              THEN CHOOSE t \in DOMAIN AddedColumns : n \in AddedColumns[t]
              ELSE n

\* The foreign keys of the models: a table and one that it names.
AccountReferences ==
  ({"research_projects", "session_tokens", "research_profiles"} \X {"users"})
    \cup ({"abstract_translation_cache", "paper_sources"} \X {"papers"})
LibraryReferences ==
  ({"favorites", "notes", "reading_status", "paper_documents"} \X {"users", "papers"})
    \cup ({"search_sessions"} \X {"users", "research_projects"})
    \cup {<<"tags", "users">>} \cup ({"paper_tags"} \X {"users", "papers", "tags"})
AnalysisReferences ==
  ({"paper_analyses", "recommendations"} \X {"users", "papers", "research_projects"})
    \cup ({"paper_chunks"} \X {"users", "papers", "paper_documents"})
    \cup ({"gap_candidates"} \X {"users", "research_projects", "paper_sets"})
    \cup ({"gap_evidence"} \X {"gap_candidates", "papers"})
RunReferences ==
  ({"research_plans"} \X {"users", "research_projects", "gap_candidates"})
    \cup ({"plan_items"} \X {"users", "research_plans"})
    \cup ({"agent_runs"} \X {"users", "research_projects"})
    \cup ({"tool_calls"} \X {"users", "agent_runs"})
    \cup ({"source_requests"} \X {"users", "agent_runs", "research_projects"})
GraphReferences ==
  ({"paper_authors"} \X {"papers", "authors"}) \cup {<<"author_source_records", "authors">>}
    \cup ({"paper_dataset_mentions"} \X {"users", "papers", "paper_analyses", "dataset_cards"})
    \cup ({"direction_cluster_runs"} \X {"users", "research_projects"})
    \cup {<<"direction_clusters", "direction_cluster_runs">>}
StudyReferences ==
  ({"direction_cluster_members"} \X {"direction_cluster_runs", "direction_clusters", "papers"})
    \cup {<<"evaluation_studies", "users">>, <<"evaluation_results", "evaluation_studies">>}
    \cup ({"evaluation_tasks"} \X {"evaluation_studies", "papers"})
    \cup ({"evaluation_assignments"} \X {"evaluation_studies", "evaluation_tasks", "users"})
    \cup ({"evaluation_ratings"} \X {"evaluation_assignments", "users"})
JobReferences ==
  ({"jobs", "paper_sets"} \X {"users", "research_projects"})
    \cup ({"job_events"} \X {"users", "jobs"})
    \cup ({"user_settings", "idempotency_records"} \X {"users"})
    \cup ({"paper_set_items"} \X {"paper_sets", "papers"})
    \cup ({"comparison_runs"} \X {"users", "research_projects", "paper_sets"})
    \cup ({"gap_explanations"} \X {"users", "gap_candidates"})
References == AccountReferences \cup LibraryReferences \cup AnalysisReferences
                \cup RunReferences \cup GraphReferences \cup StudyReferences \cup JobReferences
\* The tables that name no other one.
Independent == {"users", "papers", "prompt_versions", "source_runtime_states", "authors",
                "dataset_cards"}
Models == Independent \cup {k[1] : k \in References}
\* Database.init creates the full-text index as well.
LocalTables == Models \cup {"paper_chunks_fts"}
Targets == [t \in LocalTables |-> {p \in Models : <<t, p>> \in References}]

Part(n, r) == <<n, r>>
PartsOf(r) == {Part(n, r) : n \in Range(Upgrades[r])}
PartsUpTo(v) == UNION {PartsOf(r) : r \in 1..v}
AllParts == PartsUpTo(CodeHead)
CreatedIn(t) == CHOOSE r \in Revisions :
  Part(t, r) \in AllParts /\ \A s \in 1..(r - 1) : Part(t, s) \notin AllParts
Base(t) == Part(t, CreatedIn(t))
\* A foreign key belongs to the first statement about its table, the one that creates it or
\* the one that rebuilds it, that is not older than its target; no added column has one.
ForeignKeys(t, r) == {p \in Models :
  /\ <<t, p>> \in References /\ CreatedIn(p) <= r
  /\ \A s \in 1..(r - 1) : Part(t, s) \in AllParts => s < CreatedIn(p)}

-----------------------------------------------------------------------------
VARIABLES
  dialect,     \* the database is a local SQLite file, or remote
  objects,     \* the tables and columns that exist
  version,     \* the revision alembic_version records; 0 for an empty table
  tracked,     \* alembic_version exists
  migration,   \* the alembic command in progress
  starting,    \* the tables a starting server has found missing
  references,  \* the revisions of which a reference schema was written
  receipt,     \* the revision the last audit found safe to stamp, until it is stamped
  cutOff,      \* history: a downgrade was interrupted inside a revision
  misled,      \* history: a migration began on tables other than the recorded revision's
  migrations   \* counter for the bound

schemaVars == <<dialect, objects, version, tracked, migration, starting, references,
                receipt, cutOff, misled, migrations>>

NoMigration == [by |-> "nobody", to |-> 0, done |-> 0]
Migrations == [by : {"nobody", "upgrade", "downgrade", "bootstrap"},
               to : 0..CodeHead, done : 0..Cardinality(AllParts)]
NotStarting == {}

SchemaInit ==
  /\ dialect \in {"sqlite", "turso"}
  /\ objects = {} /\ version = 0 /\ tracked = FALSE
  /\ migration = NoMigration
  /\ starting = [s \in SchemaServers |-> NotStarting]
  /\ references = {} /\ receipt = 0 /\ cutOff = FALSE /\ misled = FALSE
  /\ migrations = 0

Count == migrations < MaxMigrations /\ migrations' = migrations + 1
\* The deployment scripts run Alembic to its end before they start a server.
Begin(by, to) ==
  /\ migration = NoMigration /\ Count
  /\ \A s \in SchemaServers : starting[s] = NotStarting
  /\ migration' = [by |-> by, to |-> to, done |-> 0]
  /\ UNCHANGED <<dialect, objects, version, starting, references, receipt, cutOff>>

-----------------------------------------------------------------------------
MissesTables == ~(PartsUpTo(version) \subseteq objects)
StartUpgrade(to) ==
  /\ to > version /\ Begin("upgrade", to)
  /\ tracked' = TRUE /\ misled' = (misled \/ MissesTables)
StartDowngrade(to) ==
  /\ to < version /\ Begin("downgrade", to)
  /\ misled' = (misled \/ ~(objects \subseteq PartsUpTo(version)))
  /\ UNCHANGED tracked

\* Only a remote database without tables; the version table does not count.
StartBootstrap ==
  /\ dialect = "turso" /\ objects = {}
  /\ Begin("bootstrap", BootstrapTo)
  /\ tracked' = TRUE /\ misled' = (misled \/ MissesTables)

\* The statement in progress and those that are committed with it.
Statements == Upgrades[version + 1]
Next_ == Statements[migration.done + 1]
Committed ==
  IF version + 1 = 3 /\ Next_ = Rebuilt
  THEN Range(SubSeq(Statements, migration.done + 1, Len(Statements)))
  ELSE {Next_}
New == {Part(n, version + 1) : n \in Committed}

Upgrading == migration.by \in {"upgrade", "bootstrap"} /\ version < migration.to

\* CREATE TABLE fails when the table exists, ADD COLUMN when the column exists or the table
\* does not.
Executable ==
  /\ New \cap objects = {}
  /\ \A n \in Committed : CreatedIn(TableOf(n)) <= version => Base(TableOf(n)) \in objects

UpgradeStatement ==
  /\ Upgrading /\ migration.done < Len(Statements) /\ Executable
  /\ objects' = objects \cup New
  /\ migration' = [migration EXCEPT !.done = @ + Cardinality(New)]
  /\ UNCHANGED <<dialect, version, tracked, starting, references, receipt, cutOff,
                 misled, migrations>>

RecordRevision ==
  /\ Upgrading /\ migration.done = Len(Statements)
  /\ version' = version + 1
  /\ migration' = [migration EXCEPT !.done = 0]
  /\ UNCHANGED <<dialect, objects, tracked, starting, references, receipt, cutOff,
                 misled, migrations>>

\* The migration ends at an error or, for bootstrap(), with a verification that fails
\* because the code's head is newer than the revisions it names.
EndMigration ==
  /\ \/ Upgrading /\ migration.done < Len(Statements) /\ ~Executable
     \/ migration.by \in {"upgrade", "bootstrap"} /\ version >= migration.to
     \/ migration.by = "downgrade" /\ version <= migration.to
  /\ migration' = NoMigration
  /\ UNCHANGED <<dialect, objects, version, tracked, starting, references, receipt, cutOff,
                 misled, migrations>>

Undone == Downgrades[version]
Downgrading == migration.by = "downgrade" /\ version > migration.to

DowngradeStatement ==
  /\ Downgrading /\ migration.done < Len(Undone)
  /\ Part(Undone[migration.done + 1], version) \in objects
  /\ LET first == migration.done + 1
         last == IF version = 3 /\ Undone[first] = Rebuilt THEN Len(Undone) ELSE first
     IN /\ objects' = objects \ {Part(Undone[i], version) : i \in first..last}
        /\ migration' = [migration EXCEPT !.done = last]
  /\ UNCHANGED <<dialect, version, tracked, starting, references, receipt, cutOff,
                 misled, migrations>>

UnrecordRevision ==
  /\ Downgrading /\ migration.done = Len(Undone)
  /\ version' = version - 1
  /\ migration' = [migration EXCEPT !.done = 0]
  /\ UNCHANGED <<dialect, objects, tracked, starting, references, receipt, cutOff,
                 misled, migrations>>

MigrationCrash ==
  /\ migration # NoMigration
  /\ migration' = NoMigration
  /\ cutOff' = (cutOff \/ (Downgrading /\ migration.done > 0))
  /\ UNCHANGED <<dialect, objects, version, tracked, starting, references, receipt,
                 misled, migrations>>

-----------------------------------------------------------------------------
\* A server that starts on SQLite looks which tables are missing, then creates them; a
\* remote database is left to Alembic.
Missing == {t \in LocalTables : Base(t) \notin objects}
StartServer(s) ==
  /\ dialect = "sqlite" /\ migration = NoMigration /\ Count
  /\ starting[s] = NotStarting /\ Missing # {}
  /\ starting' = [starting EXCEPT ![s] = Missing]
  /\ UNCHANGED <<dialect, objects, version, tracked, migration, references, receipt, cutOff,
                 misled>>

\* A table is created after those it refers to, with the columns of every revision.
ReadyTables(s) == {t \in starting[s] : Targets[t] \cap starting[s] = {}}
CreateTables(s) ==
  /\ starting[s] # NotStarting
  /\ \A t \in ReadyTables(s) : Base(t) \notin objects
  /\ objects' = objects \cup {p \in AllParts : TableOf(p[1]) \in ReadyTables(s)}
  /\ starting' = [starting EXCEPT ![s] = @ \ ReadyTables(s)]
  /\ UNCHANGED <<dialect, version, tracked, migration, references, receipt, cutOff,
                 misled, migrations>>

\* Another process created one of them in between, or the server dies.
StartFails(s) ==
  /\ starting[s] # NotStarting
  /\ starting' = [starting EXCEPT ![s] = NotStarting]
  /\ UNCHANGED <<dialect, objects, version, tracked, migration, references, receipt, cutOff,
                 misled, migrations>>

-----------------------------------------------------------------------------
WriteReference(r) ==
  /\ r \in {1, CodeHead} \ references
  /\ references' = references \cup {r}
  /\ UNCHANGED <<dialect, objects, version, tracked, migration, starting, receipt, cutOff,
                 misled, migrations>>

\* The schema equals a reference; without a reference it differs.
Exact(r) == r \in references /\ objects = PartsUpTo(r)

\* The read-only audit names a revision only for a version table without a row.
Recommended ==
  IF ~tracked \/ version # 0 THEN 0
  ELSE IF Exact(CodeHead) THEN CodeHead
  ELSE IF Exact(1) THEN 1
  ELSE 0
Audit ==
  /\ dialect = "turso" /\ migration = NoMigration /\ receipt # Recommended
  /\ receipt' = Recommended
  /\ UNCHANGED <<dialect, objects, version, tracked, migration, starting, references, cutOff,
                 misled, migrations>>

\* The operator stamps the revision a receipt named, once, whatever has been tried since.
Stamp ==
  /\ receipt # 0 /\ migration = NoMigration
  /\ version' = receipt /\ receipt' = 0
  /\ UNCHANGED <<dialect, objects, tracked, migration, starting, references, cutOff,
                 misled, migrations>>

-----------------------------------------------------------------------------
SchemaNext ==
  \/ \E to \in Revisions : StartUpgrade(to)
  \/ \E to \in 0..CodeHead : StartDowngrade(to)
  \/ StartBootstrap \/ UpgradeStatement \/ RecordRevision \/ EndMigration
  \/ DowngradeStatement \/ UnrecordRevision \/ MigrationCrash
  \/ \E s \in SchemaServers : StartServer(s) \/ CreateTables(s) \/ StartFails(s)
  \/ \E r \in {1, CodeHead} : WriteReference(r)
  \/ Audit \/ Stamp

SchemaSpec == SchemaInit /\ [][SchemaNext]_schemaVars

-----------------------------------------------------------------------------
SchemaTypeOK ==
  /\ dialect \in {"sqlite", "turso"}
  /\ objects \subseteq AllParts
  /\ version \in 0..CodeHead /\ tracked \in BOOLEAN
  /\ migration \in Migrations
  /\ starting \in [SchemaServers -> SUBSET LocalTables]
  /\ references \subseteq {1, CodeHead} /\ receipt \in {0, 1, CodeHead}
  /\ cutOff \in BOOLEAN /\ misled \in BOOLEAN

\* Every foreign key of a table that exists names a table that exists, between any two
\* statements of an upgrade, a downgrade or a server's start, and after a crash in any of
\* them. The exception is a migration misled by the recorded revision: a downgrade does not
\* drop the newer tables a server has created, an upgrade does not create the older ones that
\* an interrupted downgrade has dropped.
ReferencesResolve ==
  misled \/ \A p \in objects : \A t \in ForeignKeys(p[1], p[2]) : Base(t) \in objects

\* The recorded revision never claims a table or column that is missing, neither after an
\* upgrade that was interrupted between any two of its statements and repeated, nor after
\* stamping what an audit recommended, however many migrations were tried between the audit
\* and the stamp: only a downgrade that was cut off inside a revision leaves one.
MarkedSchemaComplete ==
  cutOff \/ \A r \in 1..version :
    \A p \in PartsOf(r) : p \in objects \/ (r = version /\ Downgrading /\ migration.done > 0)

\* Alembic and the models describe the same tables: a migrated database has all of them.
ModelsMigrated == {TableOf(p[1]) : p \in AllParts} = LocalTables

SchemaSound == ReferencesResolve /\ MarkedSchemaComplete /\ ModelsMigrated

=============================================================================
