------------------------------ MODULE Services ------------------------------
(***************************************************************************)
(* The services of the backend that share no state with each other: one of   *)
(* them runs, the others rest in their initial state. The module lets one    *)
(* model-checking run explore all of them.                                  *)
(***************************************************************************)
EXTENDS EvaluationStudy, SchemaMigrations, PaperCatalog, SourceCooldown, PaperAnalysis

VARIABLE running  \* the service that runs

servicesVars ==
  <<running, studyVars, schemaVars, catalogVars, cooldownVars, analysisVars>>

ServicesInit ==
  /\ running \in {"study", "schema", "catalog", "cooldown", "analysis"}
  /\ StudyInit
  /\ SchemaInit /\ (running # "schema" => dialect = "sqlite")
  /\ CatalogInit
  /\ CooldownInit
  /\ AnalysisInit
  /\ running # "analysis" => provider = "none" /\ "core_methods" \notin Extracted(evidence)

ServicesNext ==
  \/ /\ running = "study" /\ StudyNext
     /\ UNCHANGED <<running, schemaVars, catalogVars, cooldownVars, analysisVars>>
  \/ /\ running = "schema" /\ SchemaNext
     /\ UNCHANGED <<running, studyVars, catalogVars, cooldownVars, analysisVars>>
  \/ /\ running = "catalog" /\ CatalogNext
     /\ UNCHANGED <<running, studyVars, schemaVars, cooldownVars, analysisVars>>
  \/ /\ running = "cooldown" /\ CooldownNext
     /\ UNCHANGED <<running, studyVars, schemaVars, catalogVars, analysisVars>>
  \/ /\ running = "analysis" /\ AnalysisNext
     /\ UNCHANGED <<running, studyVars, schemaVars, catalogVars, cooldownVars>>

ServicesSpec == ServicesInit /\ [][ServicesNext]_servicesVars

-----------------------------------------------------------------------------
\* Every variable of every service stays within its type.
ServicesTypeOK ==
  StudyTypeOK /\ SchemaTypeOK /\ CatalogTypeOK /\ CooldownTypeOK /\ AnalysisTypeOK

=============================================================================
