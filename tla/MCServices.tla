----------------------------- MODULE MCServices -----------------------------
EXTENDS Services

\* One work with both identifiers; the fixtures and arXiv, which may know the DOI.
MCWorks == {[doi |-> "d1", arxiv |-> "a1", title |-> "t1"]}
MCAbstracts == [v1 |-> 1, v2 |-> 2]
MCSourceOrder == <<"fixture", "arxiv">>
MCCooldownSources == <<"openalex", "arxiv">>
=============================================================================
