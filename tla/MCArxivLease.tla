---------------------------- MODULE MCArxivLease ----------------------------
(* Values for the constants of ArxivLease: two calls belong to one process.    *)
EXTENDS ArxivLease, TLC

ThreeCalls == {1, 2, 3}
FourCalls == {1, 2, 3, 4}
ThreeProcesses == {"a", "b", "c"}
SharedProcess == 1 :> "a" @@ 2 :> "a" @@ 3 :> "c"
TwoOfThree == SharedProcess @@ 4 :> "b"
=============================================================================
