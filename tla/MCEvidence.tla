------------------------------ MODULE MCEvidence ------------------------------
(* Values for the constants of EvidenceWorkflow.                              *)
EXTENDS EvidenceWorkflow, TLC
CONSTANTS j1, c1, c2

OneJob == {j1}
TwoContents == {c1, c2}
OneReadable == (c1 :> "succeeded") @@ (c2 :> "failed")
Records == {[version |-> "known", doi |-> FALSE], [version |-> "unknown", doi |-> TRUE]}
=============================================================================
