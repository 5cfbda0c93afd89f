----------------------------- MODULE MCDataPlane -----------------------------
(* Values for the constants of DataPlane.                                    *)
EXTENDS DataPlane, TLC
CONSTANTS c1, c2, r1, r2, t1, i1, z1

TwoContents == {c1, c2}
TwoRequests == {r1, r2}
OneToken == {t1}
OneKey == {i1}
OneZip == {z1}
=============================================================================
