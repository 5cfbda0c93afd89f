---------------------------- MODULE BackupPromise ----------------------------
(***************************************************************************)
(* What backup and restore promise, without files, logs, markers or staging  *)
(* directories: a finished backup never changes, a restore that was asked    *)
(* for is not passed over by the next start, and once it has begun to        *)
(* replace the state, the whole state of that backup is all that can follow,  *)
(* whatever interrupts it.                                                   *)
(***************************************************************************)
VARIABLES
  up,      \* the API serves
  whole,   \* the state is not one that a restore is replacing
  state,   \* documents, index and files; anything while it is being replaced
  saved,   \* the finished backups: <<name, state>>
  pending  \* the backup that is to be restored, if there is one

vars == <<up, whole, state, saved, pending>>

Init == up = TRUE /\ whole = TRUE /\ saved = {} /\ pending = {}

\* Requests of the API, or of the worker, change the state.
Change ==
  /\ whole
  /\ UNCHANGED <<up, whole, saved, pending>>

Finish ==
  /\ saved \subseteq saved'
  /\ \A new \in saved' \ saved, old \in saved : new[1] # old[1]
  /\ UNCHANGED <<up, whole, state, pending>>

\* A restore is asked for, another one in its place, or the request is lost.
Ask ==
  /\ up
  /\ pending' = {} \/ \E b \in saved : pending' = {b[1]}
  /\ UNCHANGED <<up, whole, state, saved>>

Stop ==
  /\ up /\ ~up'
  /\ UNCHANGED <<whole, state, saved, pending>>

Start ==
  /\ ~up /\ whole /\ pending = {}
  /\ up'
  /\ UNCHANGED <<whole, state, saved, pending>>

\* The state is replaced, out of sight.
Replace ==
  /\ ~up /\ pending # {}
  /\ ~whole'
  /\ UNCHANGED <<up, saved, pending>>

\* This is where the restore happens.
Restore ==
  /\ ~up /\ ~whole /\ whole'
  /\ \E b \in saved : pending = {b[1]} /\ state' = b[2]
  /\ UNCHANGED <<up, saved, pending>>

\* A restore is forgotten only when it has been done.
Forget ==
  /\ ~up /\ whole
  /\ \E b \in saved : pending = {b[1]} /\ state = b[2]
  /\ pending' = {}
  /\ UNCHANGED <<up, whole, state, saved>>

Next ==
  \/ Change \/ Finish \/ Ask \/ Stop \/ Start \/ Replace \/ Restore \/ Forget

Spec == Init /\ [][Next]_vars
=============================================================================
