--------------------------- MODULE SourceCooldown ---------------------------
(***************************************************************************)
(* The persistent cooldown of every scholarly source: a search asks before   *)
(* it calls a source and records what the source answered; the status page   *)
(* and the test of a source do the same with the adapter's health.           *)
(*                                                                          *)
(* All of it runs on the event loop of the API: requests interleave where    *)
(* they await. A loaded row that was changed stays loaded until the commit,  *)
(* which writes the columns whose value differs from the one loaded.         *)
(*                                                                          *)
(* Abstracted: the length of a cooldown is arbitrary (before_call compares   *)
(* it with the clock, after_call bounds it by an hour); the failure count,   *)
(* which only stretches it, and the rate-limit headers are left out.         *)
(***************************************************************************)
EXTENDS Naturals, Sequences, SequencesExt

CONSTANTS
  CooldownSources, \* the enabled sources, in the order of the status page
  SourceRequests,  \* requests of the API in flight
  MaxCooldowns     \* bound: rate limits of one source that are recorded

Limitable == Range(CooldownSources)

ASSUME CooldownAssumption == MaxCooldowns \in Nat

VARIABLES
  cooldown, \* SourceRuntimeState.cooldown_until: 0 for NULL, else the number of the cooldown
  latest,   \* history: how many cooldowns of the source were recorded
  elapsed,  \* the latest cooldown of the source has passed
  asking    \* the requests; asked: the latest cooldown when before_call let a source through

cooldownVars == <<cooldown, latest, elapsed, asking>>
sourceRows == <<cooldown, latest, elapsed>>

NotAsking == [at |-> "idle"]
PerSource(S) == [Limitable -> S]
Asking ==
  {NotAsking}
  \cup [at : {"calling"}, ready : SUBSET Limitable, asked : PerSource(0..MaxCooldowns)]
  \cup [at : {"health"}, checked : SUBSET Limitable, awaiting : SUBSET Limitable,
        passed : SUBSET Limitable, asked : PerSource(0..MaxCooldowns), loaded : PerSource(0..MaxCooldowns)]
  \cup [at : {"testing"}, source : Limitable, asked : PerSource(0..MaxCooldowns)]

CooldownInit ==
  /\ cooldown = [s \in Limitable |-> 0]
  /\ latest = [s \in Limitable |-> 0]
  /\ elapsed = [s \in Limitable |-> FALSE]
  /\ asking = [r \in SourceRequests |-> NotAsking]

InCooldown(s) == cooldown[s] # 0 /\ ~elapsed[s]
AsksAt(r, at) == asking[r].at = at
Asks(r, request) == asking' = [asking EXCEPT ![r] = request]

\* before_call; mutant: the cooldown is not consulted.
ReadyAlways == Limitable
BeforeCall == {s \in Limitable : ~InCooldown(s)}

-----------------------------------------------------------------------------
\* What an adapter makes of an HTTP answer: 429, another failure, or records.
OpenAlexStatus == {"rate_limited", "error", "ok"}
CrossrefStatus == {"rate_limited", "error", "ok"}
ArxivStatus == {"rate_limited", "error", "ok"}
SemanticScholarStatus == {"rate_limited", "error", "ok"}
FixtureStatus == {"ok"}
SearchStatus ==
  [openalex |-> OpenAlexStatus, crossref |-> CrossrefStatus, arxiv |-> ArxivStatus,
   semantic_scholar |-> SemanticScholarStatus, fixture |-> FixtureStatus]

\* An adapted query is sent after the original one, whatever that was answered: the status
\* of the search is that of the last answer.
ExecutedQueries(s, answers) == answers \in BoundedSeq(SearchStatus[s], 2) /\ answers # <<>>

\* after_call, for sources and what they answered.
AfterCall(status) ==
  LET limited == {s \in DOMAIN status : status[s] = "rate_limited"}
      healthy == {s \in DOMAIN status : status[s] = "ok"}
  IN /\ \A s \in limited : latest[s] < MaxCooldowns
     /\ latest' = [s \in Limitable |-> IF s \in limited THEN latest[s] + 1 ELSE latest[s]]
     /\ cooldown' = [s \in Limitable |-> IF s \in limited THEN latest[s] + 1
                                        ELSE IF s \in healthy THEN 0 ELSE cooldown[s]]
     /\ elapsed' = [s \in Limitable |-> s \notin limited /\ elapsed[s]]

-----------------------------------------------------------------------------
BeginSearch(r) ==
  /\ AsksAt(r, "idle")
  /\ Asks(r, [at |-> "calling", ready |-> BeforeCall, asked |-> latest])
  /\ UNCHANGED sourceRows

\* After the last answer nothing is awaited until the commit.
EndSearch(r) ==
  /\ AsksAt(r, "calling")
  /\ \E answers \in [asking[r].ready -> UNION {BoundedSeq(SearchStatus[s], 2) : s \in Limitable}] :
       /\ \A s \in asking[r].ready : ExecutedQueries(s, answers[s])
       /\ AfterCall([s \in asking[r].ready |-> Last(answers[s])])
  /\ Asks(r, NotAsking)

\* A paper of the search cannot be stored: its transaction is rolled back, the cooldowns
\* that it has recorded with it.
SearchFails(r) ==
  /\ AsksAt(r, "calling")
  /\ Asks(r, NotAsking)
  /\ UNCHANGED sourceRows

-----------------------------------------------------------------------------
\* GET /sources/status asks source after source, except those in cooldown at the time the
\* request began; health() answers "ok" without a call.
BeginStatus(r) ==
  /\ AsksAt(r, "idle")
  /\ Asks(r, [at |-> "health", checked |-> {}, awaiting |-> {}, asked |-> latest,
              passed |-> {s \in Limitable : elapsed[s]},
              loaded |-> [s \in Limitable |-> 0]])
  /\ UNCHANGED sourceRows

InCooldownSince(q, s) == cooldown[s] # 0 /\ (s \notin q.passed \/ latest[s] # q.asked[s])
NextUnchecked(r, s) ==
  \E i \in DOMAIN CooldownSources :
    /\ s = CooldownSources[i] /\ s \notin asking[r].checked
    /\ \A k \in 1..(i - 1) : CooldownSources[k] \in asking[r].checked
AskHealth(r) ==
  /\ AsksAt(r, "health") /\ asking[r].awaiting = {}
  /\ \E s \in Limitable :
       /\ NextUnchecked(r, s)
       /\ LET q == asking[r] IN
          Asks(r, IF InCooldownSince(q, s) THEN [q EXCEPT !.checked = @ \cup {s}]
                  ELSE [q EXCEPT !.awaiting = {s}, !.asked[s] = latest[s]])
  /\ UNCHANGED sourceRows

HealthAnswered(r) ==
  /\ AsksAt(r, "health")
  /\ \E s \in asking[r].awaiting :
       Asks(r, [asking[r] EXCEPT !.awaiting = {}, !.checked = @ \cup {s},
                                 !.loaded[s] = cooldown[s]])
  /\ UNCHANGED sourceRows

\* A cooldown that was loaded becomes NULL; an absent one was not changed and is not written.
EndStatus(r) ==
  /\ AsksAt(r, "health") /\ asking[r].checked = Limitable
  /\ cooldown' = [s \in Limitable |-> IF asking[r].loaded[s] # 0 THEN 0 ELSE cooldown[s]]
  /\ Asks(r, NotAsking)
  /\ UNCHANGED <<latest, elapsed>>

\* POST /sources/{name}/test
BeginTest(r, s) ==
  /\ AsksAt(r, "idle") /\ s \in BeforeCall
  /\ Asks(r, [at |-> "testing", source |-> s, asked |-> latest])
  /\ UNCHANGED sourceRows

EndTest(r) ==
  /\ AsksAt(r, "testing")
  /\ \E status \in {"ok", "error"} : AfterCall([s \in {asking[r].source} |-> status])
  /\ Asks(r, NotAsking)

CooldownPasses(s) ==
  /\ InCooldown(s)
  /\ elapsed' = [elapsed EXCEPT ![s] = TRUE]
  /\ UNCHANGED <<cooldown, latest, asking>>

-----------------------------------------------------------------------------
CooldownNext ==
  \/ \E r \in SourceRequests :
       \/ BeginSearch(r) \/ EndSearch(r) \/ SearchFails(r)
       \/ BeginStatus(r) \/ AskHealth(r) \/ HealthAnswered(r) \/ EndStatus(r)
       \/ EndTest(r) \/ \E s \in Limitable : BeginTest(r, s)
  \/ \E s \in Limitable : CooldownPasses(s)

CooldownSpec == CooldownInit /\ [][CooldownNext]_cooldownVars

-----------------------------------------------------------------------------
CooldownTypeOK ==
  /\ cooldown \in PerSource(0..MaxCooldowns)
  /\ latest \in PerSource(0..MaxCooldowns)
  /\ elapsed \in PerSource(BOOLEAN)
  /\ asking \in [SourceRequests -> Asking]

\* A cooldown that has not passed is lifted only by a request that before_call had let
\* through before the cooldown was recorded: as long as it lasts, nothing that begins calls
\* the source for a search and reports it healthy. (A request that began earlier does lift
\* it, whichever answer is older.)
CooldownLasts ==
  [][\A s \in Limitable :
       InCooldown(s) /\ cooldown'[s] = 0 =>
         \E r \in SourceRequests :
           /\ asking'[r] = NotAsking /\ asking[r] # NotAsking
           /\ asking[r].asked[s] < latest[s]]_cooldownVars

=============================================================================
