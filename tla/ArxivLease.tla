----------------------------- MODULE ArxivLease -----------------------------
(***************************************************************************)
(* ArxivRequestCoordinator: the lease and the send gate in the row `arxiv`  *)
(* of `source_runtime_states`, shared by the processes that call arXiv.     *)
(*                                                                          *)
(* A call reads the clock and then runs one conditional UPDATE, which can   *)
(* commit much later (another process holds the database).  Both block the  *)
(* event loop of the process.  All calls of a process share its owner id.   *)
(*                                                                          *)
(* Abstracted: the polling interval, the creation of the row, what a call   *)
(* sends.  Calls that were built without a coordinator are not here.        *)
(***************************************************************************)
EXTENDS Naturals

CONSTANTS
  Calls,     \* calls of ArxivRequestCoordinator.run
  Owners,    \* owner_id of a process
  Owner,     \* the process of each call
  NoOne,     \* lease_owner IS NULL
  Ttl,       \* lease_ttl_seconds
  Interval,  \* minimum_interval_seconds
  MaxTime    \* bound: the clock

ASSUME LeaseAssumption ==
  /\ Owner \in [Calls -> Owners]
  /\ NoOne \notin Owners
  /\ Ttl \in Nat /\ Interval \in Nat /\ MaxTime \in Nat

Row == [owner : Owners \cup {NoOne},  \* lease_owner
        expires : Nat,                \* lease_expires_at
        nextAllowed : Nat]            \* next_allowed_at; 0 when it is NULL

VARIABLES
  now,     \* the clock
  row,     \* the row
  pc,      \* where a call is
  read,    \* the clock as a call read it, before acquiring or releasing
  lease,   \* the expiry of the lease a call was granted
  ends,    \* history: when operations ended
  lapsed,  \* history: a lease has been taken over after its expiry
  overtaken \* history: a process was granted the lease before it had released an earlier one

vars == <<now, row, pc, read, lease, ends, lapsed, overtaken>>

Init ==
  /\ now = 0
  /\ row = [owner |-> NoOne, expires |-> 0, nextAllowed |-> 0]
  /\ pc = [c \in Calls |-> "waiting"]
  /\ read = [c \in Calls |-> 0]
  /\ lease = [c \in Calls |-> 0]
  /\ ends = {}
  /\ lapsed = FALSE /\ overtaken = FALSE

InFlight(c) == pc[c] \in {"sending", "releasing"}

\* No other call of the same process is inside a database statement.
LoopFree(c) ==
  \A d \in Calls \ {c} : Owner[d] = Owner[c] => pc[d] \notin {"acquiring", "releasing"}

Tick ==
  /\ now < MaxTime
  /\ now' = now + 1
  /\ UNCHANGED <<row, pc, read, lease, ends, lapsed, overtaken>>

-----------------------------------------------------------------------------
(* try_acquire. *)

ReadClock(c) ==
  /\ pc[c] = "waiting"
  /\ LoopFree(c)
  /\ pc' = [pc EXCEPT ![c] = "acquiring"]
  /\ read' = [read EXCEPT ![c] = now]
  /\ UNCHANGED <<now, row, lease, ends, lapsed, overtaken>>

\* Mutants: a lease is taken over one step before it expires; the owner is not part
\* of the condition; the send gate is not part of it.
OpenEarly(t) ==
  /\ row.owner = NoOne \/ row.expires <= t + 1
  /\ row.nextAllowed <= t
OpenOwned(t) == row.nextAllowed <= t
OpenUngated(t) == row.owner = NoOne \/ row.expires <= t

\* The condition of the UPDATE.
Open(t) ==
  /\ row.owner = NoOne \/ row.expires <= t
  /\ row.nextAllowed <= t

Acquire(c) ==
  /\ pc[c] = "acquiring"
  /\ Open(read[c])
  /\ row' = [row EXCEPT !.owner = Owner[c], !.expires = read[c] + Ttl]
  /\ lease' = [lease EXCEPT ![c] = read[c] + Ttl]
  /\ lapsed' = (lapsed \/ (row.owner # NoOne /\ row.expires <= now))
  /\ overtaken' = (overtaken \/ \E d \in Calls \ {c} : InFlight(d) /\ Owner[d] = Owner[c])
  /\ pc' = [pc EXCEPT ![c] = "sending"]
  /\ UNCHANGED <<now, read, ends>>

\* Not acquired: the call sleeps and polls again.
Poll(c) ==
  /\ pc[c] = "acquiring"
  /\ ~Open(read[c])
  /\ pc' = [pc EXCEPT ![c] = "waiting"]
  /\ UNCHANGED <<now, row, read, lease, ends, lapsed, overtaken>>

\* The wait times out, or the database fails: CoordinatorUnavailable.
GiveUp(c) ==
  /\ pc[c] \in {"waiting", "acquiring"}
  /\ pc' = [pc EXCEPT ![c] = "done"]
  /\ UNCHANGED <<now, row, read, lease, ends, lapsed, overtaken>>

-----------------------------------------------------------------------------
(* The operation and release. *)

\* The operation returns, raises or is cancelled; release reads the clock.
EndOperation(c) ==
  /\ pc[c] = "sending"
  /\ LoopFree(c)
  /\ pc' = [pc EXCEPT ![c] = "releasing"]
  /\ read' = [read EXCEPT ![c] = now]
  /\ ends' = ends \cup {now}
  /\ UNCHANGED <<now, row, lease, lapsed, overtaken>>

\* Mutant: the owner is cleared to an empty string instead of NULL.
ReleaseEmpty(c) ==
  /\ pc[c] = "releasing"
  /\ row' = IF row.owner = Owner[c]
            THEN [owner |-> "", expires |-> 0, nextAllowed |-> read[c] + Interval]
            ELSE row
  /\ pc' = [pc EXCEPT ![c] = "done"]
  /\ UNCHANGED <<now, read, lease, ends, lapsed, overtaken>>

Release(c) ==
  /\ pc[c] = "releasing"
  /\ row' = IF row.owner = Owner[c]
            THEN [owner |-> NoOne, expires |-> 0, nextAllowed |-> read[c] + Interval]
            ELSE row
  /\ pc' = [pc EXCEPT ![c] = "done"]
  /\ UNCHANGED <<now, read, lease, ends, lapsed, overtaken>>

\* The process dies, or release cannot reach the database: the lease stays.
Lose(c) ==
  /\ pc[c] \in {"sending", "releasing"}
  /\ pc' = [pc EXCEPT ![c] = "done"]
  /\ ends' = IF pc[c] = "sending" THEN ends \cup {now} ELSE ends
  /\ UNCHANGED <<now, row, read, lease, lapsed, overtaken>>

-----------------------------------------------------------------------------
Next ==
  \/ Tick
  \/ \E c \in Calls :
       \/ ReadClock(c) \/ Acquire(c) \/ Poll(c) \/ GiveUp(c)
       \/ EndOperation(c) \/ Release(c) \/ Lose(c)

Spec == Init /\ [][Next]_vars

-----------------------------------------------------------------------------
(* Correctness. *)

\* Every column, clock and history holds a value of its kind.
TypeOK ==
  /\ now \in Nat
  /\ row \in Row
  /\ pc \in [Calls -> {"waiting", "acquiring", "sending", "releasing", "done"}]
  /\ read \in [Calls -> Nat] /\ lease \in [Calls -> Nat]
  /\ ends \subseteq Nat
  /\ lapsed \in BOOLEAN /\ overtaken \in BOOLEAN

\* As long as no lease had to be taken over after its expiry, at most one request is
\* under way, whichever processes the calls belong to.
OneAtATime ==
  ~lapsed => \A c, d \in Calls : pc[c] = "sending" /\ pc[d] = "sending" => c = d

\* A request within its lease is alone among the requests within their leases, even
\* if earlier ones outlived theirs and their processes release late or never. The code
\* does not keep this when a process shares its owner id among its calls.
OneInLease ==
  \A c, d \in Calls :
    pc[c] = "sending" /\ pc[d] = "sending" /\ now < lease[c] /\ now < lease[d] => c = d

\* It can be lost in one way only: a process is granted the lease again while a request of
\* its own has outlived its lease and is still to release. Lapses, takeovers, crashes and
\* late releases of other processes never lead to two requests within their leases.
AloneWithinLease == overtaken \/ OneInLease

\* A request starts no sooner than the minimum interval after the end of every
\* earlier one, unless a lease had to be taken over.
Spaced ==
  [][\A c \in Calls :
       pc[c] = "acquiring" /\ pc'[c] = "sending" /\ ~lapsed'
         => \A t \in ends : t + Interval <= now]_vars
=============================================================================
