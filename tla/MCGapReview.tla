---------------------------- MODULE MCGapReview ----------------------------
(* Values for the constants of GapReview.                                    *)
EXTENDS GapReview, TLC
CONSTANTS c1, c2, c3, d1, d2, p1, p2, x1, x2, q1, q2, f1

OneChallenger == {c1}
TwoChallengers == {c1, c2}
ThreeChallengers == {c1, c2, c3}
OneDecider == {d1}
TwoDeciders == {d1, d2}
OnePlanner == {p1}
TwoPlanners == {p1, p2}
TwoContexts == {x1, x2}
EligibleContext == {x1}
TwoQueries == {q1, q2}
OneQuery == {q1}
OneFinding == {f1}
Symmetry == Permutations(ThreeChallengers) \cup Permutations(TwoDeciders)
            \cup Permutations(TwoPlanners) \cup Permutations(TwoQueries)
=============================================================================
