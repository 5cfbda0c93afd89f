---------------------------- MODULE PaperCatalog ----------------------------
(***************************************************************************)
(* The catalog of papers: what the adapters of the scholarly sources say of  *)
(* a work, how the records of one search are merged, and how they are        *)
(* matched with the stored papers and change them.                          *)
(*                                                                          *)
(* Searches of the API are stored between two awaits of one event loop, gap  *)
(* challenges and acquisitions are stored by worker processes. A session     *)
(* reads without a lock until its first INSERT or UPDATE, so the papers of a  *)
(* search are matched and compared before the database is locked up to the   *)
(* first one that changes, and an UPDATE names only the changed columns.     *)
(*                                                                          *)
(* Abstracted: a text is the record it comes from and its length; ranking is *)
(* an arbitrary order. Authors, counts, links and fields that are only       *)
(* filled are left out.                                                     *)
(***************************************************************************)
EXTENDS Naturals, Sequences, SequencesExt, FiniteSets

CONSTANTS
  SourceOrder, \* the enabled adapters, in the order of build_search_service
  Works,       \* the works the sources know: [doi, arxiv, title]; a title with its year
  Abstracts,   \* the ids a source may have for a work (the versions of a preprint, a preprint
               \* and its article), with the length of the abstract under each
  Writers,     \* processes that store papers: the API and the workers
  MaxPapers,   \* bound: stored papers
  MaxSearches  \* bound: searches that are answered

NoId == "none"
CatalogSources == Range(SourceOrder)
SourceIds == DOMAIN Abstracts
ASSUME CatalogAssumption ==
  /\ SourceOrder \in Seq(CatalogSources)
  /\ \A id \in SourceIds : Abstracts[id] \in 1..2
\* A paper_sources row is known by its source and the source's own id; a fixture has one.
Origins == CatalogSources \X (SourceIds \cup {NoId})
Real(o) == o[1] # "fixture"

-----------------------------------------------------------------------------
\* What an adapter says of a work: the identifiers it has and an abstract it may have.
SourceRecord(origin, doi, arxiv, w, length) ==
  [doi |-> doi, arxiv |-> arxiv, title |-> w.title, by |-> origin, length |-> length,
   sources |-> {origin}]
Length(id, given) == IF given THEN Abstracts[id] ELSE 0
OpenAlexRecords ==
  {SourceRecord(<<"openalex", id>>, w.doi, NoId, w, Length(id, given)) :
     given \in BOOLEAN, id \in SourceIds, w \in Works}
CrossrefRecords ==
  {SourceRecord(<<"crossref", id>>, w.doi, NoId, w, Length(id, given)) :
     given \in BOOLEAN, id \in SourceIds, w \in Works}
ArxivRecords ==
  {SourceRecord(<<"arxiv", id>>, IF linked THEN w.doi ELSE NoId, w.arxiv, w, Abstracts[id]) :
     linked \in BOOLEAN, id \in SourceIds, w \in {v \in Works : v.arxiv # NoId}}
SemanticScholarRecords ==
  {SourceRecord(<<"semantic_scholar", id>>, w.doi, w.arxiv, w, Length(id, given)) :
     given \in BOOLEAN, id \in SourceIds, w \in Works}
\* The text of a fixture is never the shorter one.
FixtureRecords == {SourceRecord(<<"fixture", NoId>>, NoId, NoId, w, 2) : w \in Works}

RecordsOf(s) ==
  {r \in OpenAlexRecords \cup CrossrefRecords \cup ArxivRecords
           \cup SemanticScholarRecords \cup FixtureRecords : r.by[1] = s}

-----------------------------------------------------------------------------
\* normalize.py: records of one search are merged by DOI, else arXiv id, else title.
DedupKey(r) ==
  IF r.doi # NoId THEN <<"doi", r.doi>>
  ELSE IF r.arxiv # NoId THEN <<"arxiv", r.arxiv>>
  ELSE <<"title", r.title>>
FirstOf(a, b) == IF a # NoId THEN a ELSE b
MergeRecords(left, right) ==
  [left EXCEPT !.doi = FirstOf(@, right.doi),
               !.arxiv = FirstOf(@, right.arxiv),
               !.by = IF left.length >= right.length THEN @ ELSE right.by,
               !.length = IF @ >= right.length THEN @ ELSE right.length,
               !.sources = @ \cup right.sources]

\* A record joins the one found under its key, or is found itself.
Add(found, r) ==
  IF \E i \in DOMAIN found : found[i].key = DedupKey(r)
  THEN [i \in DOMAIN found |-> IF found[i].key = DedupKey(r)
          THEN [found[i] EXCEPT !.record = MergeRecords(@, r)] ELSE found[i]]
  ELSE Append(found, [key |-> DedupKey(r), record |-> r])
Deduplicated(records) ==
  LET added[n \in 0..Len(records)] ==
        IF n = 0 THEN <<>> ELSE Add(added[n - 1], records[n])
      found == added[Len(records)]
  IN {found[i].record : i \in DOMAIN found}

-----------------------------------------------------------------------------
\* The paper that a record is of, if it is stored: by an identifier, else by title and year.
SameIdentifier(p, r) ==
  \/ r.doi # NoId /\ p.doi = r.doi
  \/ r.arxiv # NoId /\ p.arxiv = r.arxiv
FindExisting(catalog, r) ==
  LET identified == {i \in DOMAIN catalog : SameIdentifier(catalog[i], r)}
  IN IF identified # {} THEN identified
     ELSE {i \in DOMAIN catalog : catalog[i].title = r.title}

AbstractVerified(p) == \E o \in p.flagged : Real(o)
ReplacesAbstract(p, r) ==
  /\ r.length > 0
  /\ \/ p.length = 0
     \/ Real(r.by) /\ ~AbstractVerified(p)
     \/ Real(r.by) = AbstractVerified(p) /\ r.length > p.length

\* What PaperSource.provides_abstract becomes. Mutant: the source is compared without its
\* id, so its other versions are marked as well.
MarkVersions(p, r, o) == o[1] = r.by[1]
ProvidesAbstract(p, r, o) == o = r.by

NewPaper(r) ==
  [doi |-> r.doi, arxiv |-> r.arxiv, title |-> r.title, by |-> r.by, length |-> r.length,
   sources |-> r.sources, flagged |-> IF r.length > 0 THEN {r.by} ELSE {}, raced |-> FALSE]

\* The stored row after upsert_paper has changed a row it loaded as "loaded".
Column(new, old, stored) == IF new = old THEN stored ELSE new
UpdatedPaper(stored, loaded, r) ==
  LET replaced == ReplacesAbstract(loaded, r)
      text == <<IF replaced THEN r.by ELSE loaded.by,
                IF replaced THEN r.length ELSE loaded.length>>
      written == Column(text, <<loaded.by, loaded.length>>, <<stored.by, stored.length>>)
      Flag(o) == IF replaced THEN ProvidesAbstract(loaded, r, o) ELSE o \in loaded.flagged
      seen == loaded.sources \cup r.sources
  IN [stored EXCEPT
       !.doi = Column(FirstOf(loaded.doi, r.doi), loaded.doi, @),
       !.arxiv = Column(FirstOf(loaded.arxiv, r.arxiv), loaded.arxiv, @),
       !.by = written[1], !.length = written[2],
       !.sources = @ \cup r.sources,
       !.flagged = {o \in stored.sources \cup r.sources :
          Column(o \in seen /\ Flag(o), o \in loaded.flagged, o \in stored.flagged)},
       !.raced = @ \/ stored # loaded]
Unchanged(p, r) == UpdatedPaper(p, p, r) = p

\* papers.doi, papers.arxiv_id and (paper_id, source, source_id) are unique.
Unique(catalog) ==
  \A i, j \in DOMAIN catalog : i # j =>
    /\ catalog[i].doi # NoId => catalog[i].doi # catalog[j].doi
    /\ catalog[i].arxiv # NoId => catalog[i].arxiv # catalog[j].arxiv
SourceInserted(stored, loaded, r) ==
  (stored.sources \ loaded.sources) \cap (r.sources \ loaded.sources) = {}

\* upsert_paper on a catalog that was read as "loaded": the catalogs it can lead to; none
\* when a constraint fails. Any matching row may be found.
Upserts(catalog, loaded, r) ==
  LET found == FindExisting(loaded, r)
      results == IF found = {} THEN {Append(catalog, NewPaper(r))}
                 ELSE {[catalog EXCEPT ![i] =
                          IF Unchanged(loaded[i], r) THEN @ ELSE UpdatedPaper(@, loaded[i], r)] :
                         i \in {j \in found : SourceInserted(catalog[j], loaded[j], r)}}
  IN {c \in results : Unique(c)}

\* The records that are left, from the one whose INSERT or UPDATE takes the lock.
UpsertAll(catalog, loaded, records) ==
  LET stored[n \in 0..Len(records)] ==
        IF n = 0 THEN {catalog}
        ELSE UNION {Upserts(c, IF n = 1 THEN loaded ELSE c, records[n]) : c \in stored[n - 1]}
  IN stored[Len(records)]

-----------------------------------------------------------------------------
VARIABLES
  papers,  \* the papers and their paper_sources
  storing, \* what every process is about to store: the records and the catalog it has read
  searches \* counter for the bound

catalogVars == <<papers, storing, searches>>
NotStoring == [records |-> <<>>, loaded |-> <<>>]

CatalogInit ==
  /\ papers = <<>>
  /\ storing = [w \in Writers |-> NotStoring]
  /\ searches = 0

\* The original query is executed and, but for the fixtures, an adapted one.
QueryRecords(s) == BoundedSeq(RecordsOf(s), IF s = "fixture" THEN 1 ELSE 2)

SourceAnswers ==
  {answers \in [CatalogSources -> UNION {QueryRecords(s) : s \in CatalogSources}] :
     \A s \in CatalogSources : answers[s] \in QueryRecords(s)}
Merged(answers) ==
  LET joined[n \in 0..Len(SourceOrder)] ==
        IF n = 0 THEN <<>> ELSE joined[n - 1] \o answers[SourceOrder[n]]
  IN Deduplicated(joined[Len(SourceOrder)])

\* What a search can have to store, in some rank.
Rankings == UNION {SetToSeqs(Merged(answers)) : answers \in SourceAnswers}

\* The sources have answered with at most a record for every query: these are merged and
\* ranked, and the paper of the first is looked up.
AnswerSearch(w) ==
  /\ storing[w] = NotStoring /\ searches < MaxSearches /\ searches' = searches + 1
  /\ \E ranked \in Rankings :
       storing' = [storing EXCEPT ![w] = [records |-> ranked, loaded |-> papers]]
  /\ UNCHANGED papers

\* A challenge passes a record that changes nothing without a lock, and looks up the next in
\* what others have committed since; the paper it holds may stay as it was read.
PassUnchanged(w) ==
  /\ storing[w].records # <<>>
  /\ LET records == storing[w].records
         loaded == storing[w].loaded
     IN \E i \in FindExisting(loaded, Head(records)) :
          /\ Unchanged(loaded[i], Head(records))
          /\ \E read \in {papers, [papers EXCEPT ![i] = loaded[i]]} :
               storing' = [storing EXCEPT ![w] = [records |-> Tail(records), loaded |-> read]]
  /\ UNCHANGED <<papers, searches>>

\* Every paper that is left is stored, in one transaction.
StorePapers(w) ==
  /\ storing[w] # NotStoring
  /\ papers' \in UpsertAll(papers, storing[w].loaded, storing[w].records)
  /\ Len(papers') <= MaxPapers
  /\ storing' = [storing EXCEPT ![w] = NotStoring]
  /\ UNCHANGED searches

\* A unique constraint fails: the whole search is rolled back.
StoreFails(w) ==
  /\ storing[w] # NotStoring
  /\ UpsertAll(papers, storing[w].loaded, storing[w].records) = {}
  /\ storing' = [storing EXCEPT ![w] = NotStoring]
  /\ UNCHANGED <<papers, searches>>

CatalogNext == \E w \in Writers :
  AnswerSearch(w) \/ PassUnchanged(w) \/ StorePapers(w) \/ StoreFails(w)

CatalogSpec == CatalogInit /\ [][CatalogNext]_catalogVars

-----------------------------------------------------------------------------
Identifiers == {w.doi : w \in Works} \cup {w.arxiv : w \in Works} \cup {NoId}
PaperRow ==
  [doi : Identifiers, arxiv : Identifiers, title : {w.title : w \in Works},
   by : Origins, length : 0..2, sources : SUBSET Origins,
   flagged : SUBSET Origins, raced : BOOLEAN]
CatalogTypeOK ==
  /\ \A i \in DOMAIN papers : papers[i] \in PaperRow
  /\ \A w \in Writers : \A i \in DOMAIN storing[w].loaded : storing[w].loaded[i] \in PaperRow

\* The abstract of a paper that is shown as verified was written by a source that really
\* supplied it: whatever records were merged, and whichever search replaced the text of
\* another source or of another version, the marked row is the one whose text is stored. The
\* exception is a paper that two processes updated at the same time.
MarkedSourceWroteAbstract ==
  \A i \in DOMAIN papers : papers[i].raced \/ papers[i].flagged \subseteq {papers[i].by}

=============================================================================
