----------------------------- MODULE MCJobQueue -----------------------------
(* Values for the constants of JobQueue: ordered job ids, workers and triggers *)
(* as strings so that locked_by can name them.                              *)
EXTENDS JobQueue, TLC

OneJob == {1}
TwoJobs == {1, 2}
First == {1}
Second == {2}
None == {}
OneWorker == {"worker a"}
TwoWorkers == {"worker a", "worker b"}
LateB == {"worker b"}
OneTrigger == {"trigger"}
OneRunner == {"api run"}
TwoRunners == {"api run", "api run 2"}
OneClient == {"cancel"}
=============================================================================
