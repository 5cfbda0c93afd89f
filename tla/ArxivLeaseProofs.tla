-------------------------- MODULE ArxivLeaseProofs --------------------------
(***************************************************************************)
(* Proofs about the arXiv lease, for any number of calls and processes and  *)
(* any durations.                                                          *)
(***************************************************************************)
EXTENDS ArxivLease, TLAPS

USE LeaseAssumption

\* The lease is well typed.
THEOREM TypeCorrect == Spec => []TypeOK
<1>1. Init => TypeOK
  <2> SUFFICES ASSUME Init PROVE TypeOK
    OBVIOUS
  <2> USE DEF Init
  <2>1. row \in Row
    BY DEF Row
  <2>2. pc \in [Calls -> {"waiting", "acquiring", "sending", "releasing", "done"}]
    OBVIOUS
  <2>3. read \in [Calls -> Nat] /\ lease \in [Calls -> Nat]
    OBVIOUS
  <2>4. now \in Nat /\ ends \subseteq Nat
    OBVIOUS
  <2>5. lapsed \in BOOLEAN
    OBVIOUS
  <2> QED BY <2>1, <2>2, <2>3, <2>4, <2>5 DEF TypeOK
<1>2. TypeOK /\ [Next]_vars => TypeOK'
  <2> SUFFICES ASSUME TypeOK, [Next]_vars PROVE TypeOK'
    OBVIOUS
  <2> USE DEF TypeOK
  <2>1. CASE Tick
    BY <2>1 DEF Tick
  <2>2. ASSUME NEW c \in Calls, ReadClock(c) PROVE TypeOK'
    BY <2>2 DEF ReadClock
  <2>3. ASSUME NEW c \in Calls, Acquire(c) PROVE TypeOK'
    <3> DEFINE expiry == read[c] + Ttl
    <3>1. expiry \in Nat /\ Owner[c] \in Owners
      OBVIOUS
    <3> HIDE DEF expiry
    <3>2. [row EXCEPT !.owner = Owner[c], !.expires = expiry] \in Row
      BY <3>1 DEF Row
    <3>3. row' \in Row
      BY <2>3, <3>2 DEF Acquire, expiry
    <3>4. lease' \in [Calls -> Nat]
      BY <2>3, <3>1 DEF Acquire, expiry
    <3>5. lapsed' \in BOOLEAN
      BY <2>3 DEF Acquire
    <3> QED BY <2>3, <3>3, <3>4, <3>5 DEF Acquire
  <2>4. ASSUME NEW c \in Calls, Poll(c) PROVE TypeOK'
    BY <2>4 DEF Poll
  <2>5. ASSUME NEW c \in Calls, GiveUp(c) PROVE TypeOK'
    BY <2>5 DEF GiveUp
  <2>6. ASSUME NEW c \in Calls, EndOperation(c) PROVE TypeOK'
    BY <2>6 DEF EndOperation
  <2>7. ASSUME NEW c \in Calls, Release(c) PROVE TypeOK'
    <3>1. row' \in Row
      BY <2>7 DEF Release, Row
    <3> QED BY <2>7, <3>1 DEF Release
  <2>8. ASSUME NEW c \in Calls, Lose(c) PROVE TypeOK'
    BY <2>8 DEF Lose
  <2>9. CASE UNCHANGED vars
    BY <2>9 DEF vars
  <2> QED BY <2>1, <2>2, <2>3, <2>4, <2>5, <2>6, <2>7, <2>8, <2>9 DEF Next
<1> QED BY <1>1, <1>2, PTL DEF Spec

-----------------------------------------------------------------------------
(* The inductive invariant. *)

\* A clock that was read is not ahead of the clock.
ReadsArePast == (\A c \in Calls : read[c] <= now) /\ (\A t \in ends : t <= now)

\* Without a lapse the row names the process of the one call in flight.
HolderInRow ==
  ~lapsed =>
    \A c \in Calls : InFlight(c) =>
      /\ row.owner = Owner[c]
      /\ \A d \in Calls : InFlight(d) => d = c

\* Without a lapse a call that is about to release was the last to end,
LastToEnd ==
  ~lapsed => \A c \in Calls : pc[c] = "releasing" => \A t \in ends : t <= read[c]

\* and a free row holds the gate that this call has set.
GateIsSet == ~lapsed /\ row.owner = NoOne => \A t \in ends : t + Interval <= row.nextAllowed

\* Until a process overtakes a request of its own, it has one in flight,
OneEach ==
  ~overtaken =>
    \A c, d \in Calls : InFlight(c) /\ InFlight(d) /\ Owner[c] = Owner[d] => c = d

\* and a request within its lease holds the row.
LeaseInRow ==
  ~overtaken =>
    \A c \in Calls : pc[c] = "sending" /\ now < lease[c]
                       => row.owner = Owner[c] /\ row.expires = lease[c]

IInv ==
  /\ TypeOK
  /\ ReadsArePast
  /\ HolderInRow
  /\ LastToEnd
  /\ GateIsSet

\* An UPDATE that takes the row of a process takes an expired lease.
LEMMA AcquireIsFree ==
  ASSUME TypeOK, ReadsArePast, NEW c \in Calls, Acquire(c), ~lapsed'
  PROVE  row.owner = NoOne /\ row.nextAllowed <= now
<1>1. /\ read[c] \in Nat /\ read[c] <= now /\ now \in Nat
      /\ row.expires \in Nat /\ row.nextAllowed \in Nat
  BY DEF TypeOK, ReadsArePast, Row
<1>2. (row.owner = NoOne \/ row.expires <= read[c]) /\ row.nextAllowed <= read[c]
  BY DEF Acquire, Open
<1>3. ~(row.owner # NoOne /\ row.expires <= now)
  BY DEF Acquire
<1> QED BY <1>1, <1>2, <1>3

\* A step that keeps the row and puts no call in flight.
LEMMA QuietKeeps ==
  ASSUME IInv, TypeOK', ReadsArePast', row' = row, ends' = ends, lapsed' = lapsed,
         \A d \in Calls :
           /\ pc'[d] \in {"sending", "releasing"} => pc[d] \in {"sending", "releasing"}
           /\ pc'[d] = "releasing" => pc[d] = "releasing" /\ read'[d] = read[d]
  PROVE  IInv'
<1>1. HolderInRow'
  BY DEF IInv, HolderInRow, InFlight
<1>2. LastToEnd'
  BY DEF IInv, LastToEnd
<1>3. GateIsSet'
  BY DEF IInv, GateIsSet
<1> QED BY <1>1, <1>2, <1>3 DEF IInv

\* A call is granted a free or an expired lease: no call within its lease is overrun.
THEOREM Invariance == Spec => []IInv
<1>1. Init => IInv
  <2> SUFFICES ASSUME Init PROVE IInv
    OBVIOUS
  <2>1. TypeOK
    BY DEF Init, TypeOK, Row
  <2> QED BY <2>1 DEF Init, IInv, ReadsArePast, HolderInRow, LastToEnd, GateIsSet, InFlight
<1>2. IInv /\ TypeOK' /\ [Next]_vars => IInv'
  <2> SUFFICES ASSUME IInv, TypeOK', [Next]_vars PROVE IInv'
    OBVIOUS
  <2> USE DEF IInv
  <2>1. CASE Tick
    <3>1. ReadsArePast'
      BY <2>1 DEF Tick, ReadsArePast, TypeOK
    <3> QED BY <2>1, <3>1 DEF Tick, HolderInRow, LastToEnd, GateIsSet, InFlight
  <2>2. ASSUME NEW c \in Calls, ReadClock(c) PROVE IInv'
    <3>1. ReadsArePast'
      BY <2>2 DEF ReadClock, ReadsArePast, TypeOK
    <3> QED BY <2>2, <3>1, QuietKeeps DEF ReadClock, TypeOK
  <2>3. ASSUME NEW c \in Calls, Acquire(c) PROVE IInv'
    <3>1. ReadsArePast'
      BY <2>3 DEF Acquire, ReadsArePast
    <3>2. SUFFICES ASSUME ~lapsed' PROVE HolderInRow' /\ LastToEnd' /\ GateIsSet'
      BY <3>1 DEF HolderInRow, LastToEnd, GateIsSet
    <3>3. ~lapsed
      BY <2>3, <3>2 DEF Acquire
    <3>4. row.owner = NoOne
      BY <2>3, <3>2, AcquireIsFree
    <3>5. \A d \in Calls : ~InFlight(d)
      BY <3>3, <3>4 DEF HolderInRow
    <3>6. row'.owner = Owner[c] /\ Owner[c] # NoOne
      BY <2>3 DEF Acquire, TypeOK, Row
    <3>7. \A d \in Calls : InFlight(d)' => d = c
      BY <2>3, <3>5 DEF Acquire, InFlight, TypeOK
    <3>8. \A d \in Calls : pc'[d] # "releasing"
      BY <2>3, <3>5 DEF Acquire, InFlight, TypeOK
    <3> QED BY <3>6, <3>7, <3>8 DEF HolderInRow, LastToEnd, GateIsSet
  <2>4. ASSUME NEW c \in Calls, Poll(c) \/ GiveUp(c) PROVE IInv'
    <3>1. ReadsArePast'
      BY <2>4 DEF Poll, GiveUp, ReadsArePast
    <3> QED BY <2>4, <3>1, QuietKeeps DEF Poll, GiveUp, TypeOK
  <2>5. ASSUME NEW c \in Calls, EndOperation(c) PROVE IInv'
    <3>1. ReadsArePast'
      BY <2>5 DEF EndOperation, ReadsArePast, TypeOK
    <3>2. \A d \in Calls : InFlight(d)' <=> InFlight(d)
      BY <2>5 DEF EndOperation, InFlight, TypeOK
    <3>3. row' = row /\ lapsed' = lapsed /\ InFlight(c)
      BY <2>5 DEF EndOperation, InFlight
    <3>4. HolderInRow'
      BY <3>2, <3>3 DEF HolderInRow
    <3>5. LastToEnd'
      <4> SUFFICES ASSUME ~lapsed, NEW d \in Calls, pc'[d] = "releasing",
                          NEW t \in ends'
                   PROVE  t <= read'[d]
        BY <3>3 DEF LastToEnd
      <4>1. d = c
        BY <3>2, <3>3 DEF HolderInRow, InFlight
      <4>2. read'[c] = now /\ t <= now
        BY <2>5, <3>1 DEF EndOperation, ReadsArePast, TypeOK
      <4> QED BY <4>1, <4>2
    <3>6. GateIsSet'
      <4>1. lapsed \/ row.owner # NoOne
        BY <3>3 DEF HolderInRow
      <4> QED BY <4>1, <3>3 DEF GateIsSet
    <3> QED BY <3>1, <3>4, <3>5, <3>6
  <2>6. ASSUME NEW c \in Calls, Release(c) PROVE IInv'
    <3>1. now' = now /\ read' = read /\ ends' = ends /\ lapsed' = lapsed
      BY <2>6 DEF Release
    <3>2. \A d \in Calls : pc'[d] \in {"sending", "releasing"} => InFlight(d) /\ d # c
      BY <2>6 DEF Release, InFlight, TypeOK
    <3>3. InFlight(c)
      BY <2>6 DEF Release, InFlight
    <3>4. ~lapsed => \A d \in Calls : pc'[d] \notin {"sending", "releasing"}
      BY <3>2, <3>3 DEF HolderInRow
    <3>5. ASSUME ~lapsed PROVE \A t \in ends : t + Interval <= row'.nextAllowed
      <4>1. row'.nextAllowed = read[c] + Interval
        BY <2>6, <3>3, <3>5 DEF Release, HolderInRow
      <4>2. \A t \in ends : t <= read[c]
        BY <2>6, <3>5 DEF Release, LastToEnd
      <4>3. read[c] \in Nat /\ ends \subseteq Nat
        BY DEF TypeOK
      <4> QED BY <4>1, <4>2, <4>3
    <3> QED BY <3>1, <3>2, <3>4, <3>5
          DEF ReadsArePast, HolderInRow, LastToEnd, GateIsSet, InFlight
  <2>7. ASSUME NEW c \in Calls, Lose(c) PROVE IInv'
    <3>1. ReadsArePast'
      BY <2>7 DEF Lose, ReadsArePast, TypeOK
    <3>2. \A d \in Calls : pc'[d] \in {"sending", "releasing"} => InFlight(d) /\ d # c
      BY <2>7 DEF Lose, InFlight, TypeOK
    <3>3. row' = row /\ lapsed' = lapsed /\ InFlight(c)
      BY <2>7 DEF Lose, InFlight
    <3>4. ~lapsed => row.owner # NoOne
      BY <3>3 DEF HolderInRow
    <3>5. ~lapsed => \A d \in Calls : pc'[d] \notin {"sending", "releasing"}
      BY <3>2, <3>3 DEF HolderInRow
    <3> QED BY <3>1, <3>3, <3>4, <3>5 DEF HolderInRow, LastToEnd, GateIsSet, InFlight
  <2>8. CASE UNCHANGED vars
    BY <2>8 DEF vars, ReadsArePast, HolderInRow, LastToEnd, GateIsSet, InFlight
  <2> QED BY <2>1, <2>2, <2>3, <2>4, <2>5, <2>6, <2>7, <2>8 DEF Next
<1> QED BY <1>1, <1>2, TypeCorrect, PTL DEF Spec

\* One request at a time while no lease lapses (scholarly/coordinator.py try_acquire).
THEOREM Exclusive == Spec => []OneAtATime
<1>1. IInv => OneAtATime
  BY DEF IInv, HolderInRow, InFlight, OneAtATime
<1> QED BY <1>1, Invariance, PTL

\* Requests keep the minimum interval (scholarly/coordinator.py release).
THEOREM KeepsInterval == Spec => Spaced
<1>1. IInv /\ [Next]_vars =>
        [\A c \in Calls : pc[c] = "acquiring" /\ pc'[c] = "sending" /\ ~lapsed'
           => \A t \in ends : t + Interval <= now]_vars
  <2> SUFFICES ASSUME IInv, Next, NEW c \in Calls,
                      pc[c] = "acquiring", pc'[c] = "sending", ~lapsed',
                      NEW t \in ends
               PROVE  t + Interval <= now
    OBVIOUS
  <2> USE DEF IInv
  <2>1. Acquire(c)
    BY DEF Next, Tick, ReadClock, Acquire, Poll, GiveUp, EndOperation, Release, Lose, TypeOK
  <2>2. row.owner = NoOne /\ row.nextAllowed <= now
    BY <2>1, AcquireIsFree
  <2>3. t + Interval <= row.nextAllowed
    BY <2>1, <2>2 DEF GateIsSet, Acquire
  <2>4. t \in Nat /\ row.nextAllowed \in Nat /\ now \in Nat
    BY DEF TypeOK, Row
  <2> QED BY <2>2, <2>3, <2>4
<1> QED BY <1>1, Invariance, PTL DEF Spec, Spaced

\* Requests within their leases exclude each other until a process is granted the lease before
\* it has released an earlier one: for any sharing of owner ids among the calls, whatever else
\* lapses, crashes or releases late (scholarly/coordinator.py try_acquire, release).
THEOREM ExclusiveWithinLease == Spec => []AloneWithinLease
<1>1. Init => OneEach /\ LeaseInRow
  BY DEF Init, OneEach, LeaseInRow, InFlight
<1>2. TypeOK /\ ReadsArePast /\ OneEach /\ LeaseInRow /\ [Next]_vars => (OneEach /\ LeaseInRow)'
  <2> SUFFICES ASSUME TypeOK, ReadsArePast, OneEach, LeaseInRow, [Next]_vars, ~overtaken'
               PROVE  /\ \A c, d \in Calls :
                           InFlight(c)' /\ InFlight(d)' /\ Owner[c] = Owner[d] => c = d
                      /\ \A c \in Calls : pc'[c] = "sending" /\ now' < lease'[c]
                           => row'.owner = Owner[c] /\ row'.expires = lease'[c]
    BY DEF OneEach, LeaseInRow
  <2> DEFINE Each == \A c, d \in Calls :
                       InFlight(c)' /\ InFlight(d)' /\ Owner[c] = Owner[d] => c = d
             Held == \A c \in Calls : pc'[c] = "sending" /\ now' < lease'[c]
                       => row'.owner = Owner[c] /\ row'.expires = lease'[c]
  <2>0. /\ \A c, d \in Calls : InFlight(c) /\ InFlight(d) /\ Owner[c] = Owner[d] => c = d
        /\ \A c \in Calls : pc[c] = "sending" /\ now < lease[c]
             => row.owner = Owner[c] /\ row.expires = lease[c]
    <3>1. ~overtaken
      BY DEF Next, Tick, ReadClock, Acquire, Poll, GiveUp, EndOperation, Release, Lose, vars
    <3> QED BY <3>1 DEF OneEach, LeaseInRow
  <2>1. CASE Tick
    <3>1. \A c \in Calls : now' < lease'[c] => now < lease[c]
      BY <2>1 DEF Tick, TypeOK
    <3> QED BY <2>0, <2>1, <3>1 DEF Tick, InFlight
  <2>2. ASSUME NEW c \in Calls, ReadClock(c) \/ Poll(c) \/ GiveUp(c) \/ EndOperation(c)
                                  \/ Lose(c)
        PROVE  Each /\ Held
    <3>1. /\ row' = row /\ lease' = lease /\ now' = now
          /\ \A d \in Calls : /\ InFlight(d)' => InFlight(d)
                              /\ pc'[d] = "sending" => pc[d] = "sending"
      BY <2>2 DEF ReadClock, Poll, GiveUp, EndOperation, Lose, TypeOK, InFlight
    <3> QED BY <2>0, <3>1
  <2>3. ASSUME NEW c \in Calls, Acquire(c) PROVE Each /\ Held
    <3>1. /\ pc' = [pc EXCEPT ![c] = "sending"] /\ now' = now
          /\ lease' = [lease EXCEPT ![c] = read[c] + Ttl]
          /\ row' = [row EXCEPT !.owner = Owner[c], !.expires = read[c] + Ttl]
      BY <2>3 DEF Acquire
    <3>2. \A d \in Calls \ {c} : ~(InFlight(d) /\ Owner[d] = Owner[c])
      BY <2>3 DEF Acquire
    <3>3. Each
      BY <2>0, <3>1, <3>2 DEF InFlight, TypeOK
    <3>4. ASSUME NEW d \in Calls, pc'[d] = "sending", now' < lease'[d]
          PROVE  row'.owner = Owner[d] /\ row'.expires = lease'[d]
      <4>1. CASE d = c
        BY <3>1, <4>1 DEF TypeOK, Row
      <4>2. CASE d # c
        <5>1. pc[d] = "sending" /\ now < lease[d]
          BY <3>1, <3>4, <4>2 DEF TypeOK
        <5>2. row.owner = Owner[d] /\ row.expires = lease[d] /\ Owner[d] # NoOne
          BY <2>0, <5>1
        <5>3. row.expires <= read[c] /\ read[c] <= now
          BY <2>3, <5>2 DEF Acquire, Open, ReadsArePast
        <5>4. now \in Nat /\ read[c] \in Nat /\ lease[d] \in Nat
          BY DEF TypeOK
        <5> QED BY <5>1, <5>2, <5>3, <5>4
      <4> QED BY <4>1, <4>2
    <3> QED BY <3>3, <3>4
  <2>4. ASSUME NEW c \in Calls, Release(c) PROVE Each /\ Held
    <3>1. /\ lease' = lease /\ now' = now /\ InFlight(c)
          /\ \A d \in Calls : /\ InFlight(d)' => InFlight(d)
                              /\ pc'[d] = "sending" => pc[d] = "sending" /\ d # c
      BY <2>4 DEF Release, TypeOK, InFlight
    <3>2. ASSUME NEW d \in Calls, pc'[d] = "sending", now' < lease'[d]
          PROVE  row'.owner = Owner[d] /\ row'.expires = lease'[d]
      <4>1. row.owner = Owner[d] /\ row.expires = lease[d] /\ InFlight(d) /\ d # c
        BY <2>0, <3>1, <3>2 DEF InFlight
      <4>2. Owner[d] # Owner[c]
        BY <2>0, <3>1, <4>1
      <4> QED BY <2>4, <3>1, <4>1, <4>2 DEF Release
    <3> QED BY <2>0, <3>1, <3>2
  <2>5. CASE UNCHANGED vars
    BY <2>0, <2>5 DEF vars, InFlight
  <2> QED BY <2>1, <2>2, <2>3, <2>4, <2>5 DEF Next
<1>3. IInv => TypeOK /\ ReadsArePast
  BY DEF IInv
<1>4. LeaseInRow /\ OneEach => AloneWithinLease
  BY DEF LeaseInRow, OneEach, AloneWithinLease, OneInLease, InFlight
<1> QED BY <1>1, <1>2, <1>3, <1>4, Invariance, PTL DEF Spec
=============================================================================
