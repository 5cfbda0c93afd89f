CONSTANTS
  Tasks = {1}
  Experts = {e1, e2}
  MinimumExperts = 2
  StudyRequests = {r1, r2}
  SchemaServers = {api, worker}
  MaxMigrations = 2
  SourceOrder <- MCSourceOrder
  Works <- MCWorks
  Abstracts <- MCAbstracts
  Writers = {api, worker}
  MaxPapers = 2
  MaxSearches = 3
  CooldownSources <- MCCooldownSources
  SourceRequests = {r1, r2}
  MaxCooldowns = 2
  Analysts = {api, worker}
  MaxEvidence = 1
CHECK_DEADLOCK FALSE
SPECIFICATION ServicesSpec
INVARIANTS
  ServicesTypeOK
  ValidatedByExperts
  SchemaSound
  MarkedSourceWroteAbstract
  AnalysisWithinEvidence
PROPERTIES
  ValidationKept
  CooldownLasts
