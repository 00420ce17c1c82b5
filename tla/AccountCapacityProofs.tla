------------------------ MODULE AccountCapacityProofs ------------------------
(***************************************************************************)
(* Machine-checked proofs about AccountCapacity for every finite set of    *)
(* requests and every capacity: permits are conserved, nobody waits beside *)
(* a free permit, the queue never exceeds its configured capacity, and     *)
(* nobody is overtaken in it.                                              *)
(***************************************************************************)
EXTENDS AccountCapacity, FiniteSetTheorems, TLAPS

(***************************************************************************)
(* The inductive invariant.  The bounds of TypeOK on the two counters      *)
(* follow from the conservation of permits, so the types here are only     *)
(* Nat.                                                                    *)
(***************************************************************************)
Types ==
  /\ admission \in Nat
  /\ active \in Nat
  /\ st \in [Requests -> Stages]
  /\ ahead \in [Requests -> SUBSET Requests]
  /\ expired \in SUBSET Requests

IInv == Types /\ PermitsConserved /\ NoLostWakeup

(***************************************************************************)
(* Requests in any set of stages are finite, so their number is a natural. *)
(***************************************************************************)
LEMMA StageSetsFinite ==
  ASSUME NEW S \in SUBSET Requests
  PROVE  IsFiniteSet(S) /\ Cardinality(S) \in Nat
BY CapacityAssumption, FS_Subset, FS_CardinalityType, Zenon

(***************************************************************************)
(* Adding and removing one request changes a cardinality by one.           *)
(***************************************************************************)
LEMMA AddOne ==
  ASSUME NEW S \in SUBSET Requests, NEW r \in Requests, r \notin S
  PROVE  Cardinality(S \union {r}) = Cardinality(S) + 1
BY StageSetsFinite, FS_AddElement, Zenon

LEMMA RemoveOne ==
  ASSUME NEW S \in SUBSET Requests, NEW r \in S
  PROVE  Cardinality(S \ {r}) = Cardinality(S) - 1
BY StageSetsFinite, FS_RemoveElement, Zenon

(***************************************************************************)
(* Giving an active permit back, by the end of a stream or the drop of a   *)
(* future that had been assigned one, keeps the invariant: the permit is   *)
(* counted as free only when nobody waits.                                 *)
(***************************************************************************)
LEMMA GiveBackActiveKeepsIInv ==
  ASSUME IInv, NEW r \in Requests, r \in Owners, GiveBackActive(r),
         UNCHANGED <<admission, expired>>
  PROVE  IInv'
<1> USE DEF IInv, PermitsConserved, NoLostWakeup
<1>1. /\ Owners \in SUBSET Requests
      /\ Admitted \in SUBSET Requests
  BY Zenon DEF Owners, Admitted, In
<1>2. CASE /\ Waiting = {}
           /\ active' = active + 1
           /\ st' = [st EXCEPT ![r] = "releasing"]
           /\ UNCHANGED ahead
  <2>1. Types'
    BY <1>2 DEF Types, Stages
  <2>2. Owners' = Owners \ {r}
    BY <1>2, Zenon DEF Owners, In, Types
  <2>3. Admitted' = Admitted
    BY <1>2, Zenon DEF Owners, Admitted, In, Types, Stages
  <2>4. Waiting' = {}
    BY <1>2, Zenon DEF Waiting, In, Types
  <2>5. Cardinality(Owners') = Cardinality(Owners) - 1
    BY <1>1, <2>2, RemoveOne, Zenon
  <2>6. Cardinality(Owners) \in Nat
    BY <1>1, StageSetsFinite, Zenon
  <2>7. active' + Cardinality(Owners') = InferenceConcurrency
    BY <1>2, <2>5, <2>6, CapacityAssumption DEF Types
  <2>8. QED
    BY <2>1, <2>3, <2>4, <2>7, Zenon
<1>3. ASSUME NEW w \in Waiting,
             ahead[w] = {},
             st' = [st EXCEPT ![r] = "releasing", ![w] = "granted"],
             ahead' = Dequeued(w),
             UNCHANGED active
      PROVE  IInv'
  <2>1. w \in Requests /\ w # r /\ w \notin Owners
    BY Zenon DEF Waiting, Owners, In
  <2>2. Types'
    BY <1>3, <2>1, Zenon DEF Types, Stages, Dequeued
  <2>3. Owners' = (Owners \ {r}) \union {w}
    BY <1>3, <2>1, Zenon DEF Owners, In, Types
  <2>4. Admitted' = Admitted
    BY <1>3, <2>1, Zenon DEF Owners, Waiting, Admitted, In, Types, Stages
  <2>5. Cardinality(Owners') = Cardinality(Owners)
    <3>1. Owners \ {r} \in SUBSET Requests /\ w \notin Owners \ {r}
      BY <1>1, <2>1, Zenon
    <3>2. Cardinality((Owners \ {r}) \union {w}) = Cardinality(Owners \ {r}) + 1
      BY <2>1, <3>1, AddOne, Zenon
    <3>3. Cardinality(Owners \ {r}) = Cardinality(Owners) - 1
      BY <1>1, RemoveOne, Zenon
    <3>4. Cardinality(Owners) \in Nat
      BY <1>1, StageSetsFinite, Zenon
    <3>5. QED
      BY <2>3, <3>2, <3>3, <3>4
  <2>6. active' = 0
    BY <1>3, Zenon
  <2>7. QED
    BY <1>3, <2>2, <2>4, <2>5, <2>6, Zenon
<1>4. QED
  BY <1>2, <1>3, Zenon DEF GiveBackActive

(***************************************************************************)
(* Leaving without an active permit (a timeout, an expired deadline, a     *)
(* dropped future) changes neither the owners nor the admitted requests.   *)
(***************************************************************************)
LEMMA LeaveQueueKeepsIInv ==
  ASSUME IInv, NEW r \in Requests, st[r] \in {"admitted", "waiting"},
         LeaveQueue(r), UNCHANGED <<admission, expired>>
  PROVE  IInv'
<1> USE DEF IInv, PermitsConserved, NoLostWakeup
<1>1. Types'
  BY Zenon DEF LeaveQueue, Types, Stages, Dequeued
<1>2. Owners' = Owners /\ Admitted' = Admitted
  BY Zenon DEF LeaveQueue, Types, Stages, Owners, Admitted, In
<1>3. Waiting' \subseteq Waiting
  BY Zenon DEF LeaveQueue, Types, Waiting, In
<1>4. QED
  BY <1>1, <1>2, <1>3, Zenon DEF LeaveQueue

(***************************************************************************)
(* Every step of every action preserves the inductive invariant.           *)
(***************************************************************************)
LEMMA NextKeepsIInv == IInv /\ [Next]_vars => IInv'
<1> SUFFICES ASSUME IInv, [Next]_vars PROVE IInv'
  BY Zenon
<1> USE DEF IInv, PermitsConserved, NoLostWakeup
<1>1. /\ Owners \in SUBSET Requests
      /\ Admitted \in SUBSET Requests
      /\ Cardinality(Owners) \in Nat
      /\ Cardinality(Admitted) \in Nat
  BY StageSetsFinite, Zenon DEF Owners, Admitted, In
<1>2. CASE UNCHANGED vars
  BY <1>2, Zenon DEF vars, Types, Owners, Admitted, Waiting, In
<1>3. ASSUME NEW r \in Requests, NewPlan(r) \/ DeadlinePasses(r)
      PROVE  IInv'
  BY <1>3, Zenon DEF NewPlan, DeadlinePasses, Types, Owners, Admitted, Waiting, In
<1>4. ASSUME NEW r \in Requests, TryAdmit(r)
      PROVE  IInv'
  <2>1. Types'
    BY <1>4 DEF TryAdmit, Types, Stages
  <2>2. Owners' = Owners /\ Waiting' = Waiting
    BY <1>4, Zenon DEF TryAdmit, Types, Owners, Waiting, In
  <2>3. r \notin Admitted /\ Admitted' = Admitted \union {r}
    BY <1>4, Zenon DEF TryAdmit, Types, Admitted, In, Stages
  <2>4. Cardinality(Admitted') = Cardinality(Admitted) + 1
    BY <1>1, <2>3, AddOne, Zenon
  <2>5. admission' + Cardinality(Admitted') = InferenceConcurrency + QueueCapacity
    BY <1>1, <1>4, <2>4, CapacityAssumption DEF TryAdmit, Types
  <2>6. QED
    BY <1>4, <2>1, <2>2, <2>5, Zenon DEF TryAdmit
<1>5. ASSUME NEW r \in Requests, PollActive(r)
      PROVE  IInv'
  <2>1. CASE r \in expired
    BY <1>5, <2>1, LeaveQueueKeepsIInv, Zenon DEF PollActive
  <2>2. CASE r \notin expired /\ active > 0
    <3>1. Types'
      BY <1>5, <2>2 DEF PollActive, Types, Stages
    <3>2. r \notin Owners /\ Owners' = Owners \union {r} /\ Waiting' = Waiting
      BY <1>5, <2>2 DEF PollActive, Types, Owners, Waiting, In
    <3>3. Admitted' = Admitted
      BY <1>5, <2>2, Zenon DEF PollActive, Types, Admitted, In, Stages
    <3>4. Cardinality(Owners') = Cardinality(Owners) + 1
      BY <1>1, <3>2, AddOne, Zenon
    <3>5. active' = active - 1 /\ Waiting = {}
      BY <1>5, <2>2 DEF PollActive, Types
    <3>6. active' + Cardinality(Owners') = InferenceConcurrency
      BY <1>1, <3>4, <3>5, CapacityAssumption DEF Types
    <3>7. QED
      BY <1>5, <3>1, <3>2, <3>3, <3>5, <3>6, Zenon DEF PollActive
  <2>3. CASE r \notin expired /\ active = 0
    <3>1. Types'
      BY <1>5, <2>3 DEF PollActive, Types, Stages, Waiting, In
    <3>2. Owners' = Owners /\ Admitted' = Admitted
      BY <1>5, <2>3 DEF PollActive, Types, Owners, Admitted, In, Stages
    <3>3. active' = 0 /\ admission' = admission
      BY <1>5, <2>3 DEF PollActive, Types
    <3>4. QED
      BY <2>3, <3>1, <3>2, <3>3, Zenon
  <2>4. QED
    BY <2>1, <2>2, <2>3 DEF Types
<1>6. ASSUME NEW r \in Requests, TakeGranted(r)
      PROVE  IInv'
  <2>1. Types'
    BY <1>6, Zenon DEF TakeGranted, Types, Stages
  <2>2. Owners' = Owners /\ Admitted' = Admitted /\ Waiting' = Waiting
    BY <1>6, Zenon DEF TakeGranted, Types, Owners, Admitted, Waiting, In, Stages
  <2>3. QED
    BY <1>6, <2>1, <2>2, Zenon DEF TakeGranted
<1>7. ASSUME NEW r \in Requests, TimeOut(r)
      PROVE  IInv'
  BY <1>7, LeaveQueueKeepsIInv, Zenon DEF TimeOut
<1>8. ASSUME NEW r \in Requests, Cancel(r)
      PROVE  IInv'
  <2>1. CASE st[r] \in {"admitted", "waiting"} /\ LeaveQueue(r)
    BY <1>8, <2>1, LeaveQueueKeepsIInv, Zenon DEF Cancel
  <2>2. CASE st[r] = "granted" /\ GiveBackActive(r)
    BY <1>8, <2>2, GiveBackActiveKeepsIInv, Zenon DEF Cancel, Owners, In
  <2>3. QED
    BY <1>8, <2>1, <2>2, Zenon DEF Cancel
<1>9. ASSUME NEW r \in Requests, EndStream(r)
      PROVE  IInv'
  BY <1>9, GiveBackActiveKeepsIInv, Zenon DEF EndStream, Owners, In
<1>10. ASSUME NEW r \in Requests, GiveBackAdmission(r)
       PROVE  IInv'
  <2>1. Types'
    BY <1>10 DEF GiveBackAdmission, Types, Stages
  <2>2. Owners' = Owners /\ Waiting' = Waiting
    BY <1>10, Zenon DEF GiveBackAdmission, Types, Owners, Waiting, In
  <2>3. r \in Admitted /\ Admitted' = Admitted \ {r}
    BY <1>10, Zenon DEF GiveBackAdmission, Types, Admitted, In, Stages
  <2>4. Cardinality(Admitted') = Cardinality(Admitted) - 1
    BY <1>1, <2>3, RemoveOne, Zenon
  <2>5. admission' + Cardinality(Admitted') = InferenceConcurrency + QueueCapacity
    BY <1>1, <1>10, <2>4, CapacityAssumption DEF GiveBackAdmission, Types
  <2>6. QED
    BY <1>10, <2>1, <2>2, <2>5, Zenon DEF GiveBackAdmission
<1>11. QED
  BY <1>2, <1>3, <1>4, <1>5, <1>6, <1>7, <1>8, <1>9, <1>10, Zenon DEF Next

(***************************************************************************)
(* The inductive invariant holds in every reachable state.                 *)
(***************************************************************************)
THEOREM InductiveInvariant == Spec => []IInv
<1>1. Init => IInv
  <2> SUFFICES ASSUME Init PROVE IInv
    BY Zenon
  <2>1. Owners = {} /\ Admitted = {} /\ Waiting = {}
    BY Zenon DEF Init, Owners, Admitted, Waiting, In, Stages
  <2>2. Cardinality({}) = 0
    BY FS_EmptySet, Zenon
  <2>3. Types
    BY CapacityAssumption DEF Init, Types, Stages
  <2>4. PermitsConserved
    BY <2>1, <2>2, CapacityAssumption DEF PermitsConserved, Init
  <2>5. QED
    BY <2>1, <2>3, <2>4, Zenon DEF IInv, NoLostWakeup
<1>2. QED
  BY <1>1, NextKeepsIInv, PTL DEF Spec

(***************************************************************************)
(* AccountCapacity is type correct: in particular neither semaphore ever   *)
(* holds more permits than it was created with.                            *)
(***************************************************************************)
THEOREM TypeCorrect == Spec => []TypeOK
<1>1. IInv => TypeOK
  <2> SUFFICES ASSUME IInv PROVE TypeOK
    BY Zenon
  <2>1. Cardinality(Owners) \in Nat /\ Cardinality(Admitted) \in Nat
    BY StageSetsFinite, Zenon DEF Owners, Admitted, In
  <2>2. QED
    BY <2>1, CapacityAssumption DEF IInv, Types, PermitsConserved, TypeOK
<1>2. QED
  BY <1>1, InductiveInvariant, PTL

(***************************************************************************)
(* No interleaving of timeouts, dropped futures and ending streams leaks   *)
(* or mints a permit, for any number of requests and any capacity.         *)
(***************************************************************************)
THEOREM Conservation == Spec => []PermitsConserved
BY InductiveInvariant, PTL DEF IInv

(***************************************************************************)
(* Nobody waits while a permit is free.                                    *)
(***************************************************************************)
THEOREM NoWaiterBesideFreePermit == Spec => []NoLostWakeup
BY InductiveInvariant, PTL DEF IInv

(***************************************************************************)
(* At most QueueCapacity requests wait: when anyone waits, all active      *)
(* permits are owned, and owners and waiters share the admission permits.  *)
(***************************************************************************)
THEOREM QueueNeverExceedsCapacity == Spec => []QueueBounded
<1>1. IInv => QueueBounded
  <2> SUFFICES ASSUME IInv PROVE QueueBounded
    BY Zenon
  <2>1. /\ Owners \in SUBSET Requests /\ Waiting \in SUBSET Requests
        /\ Admitted \in SUBSET Requests
    BY Zenon DEF Owners, Waiting, Admitted, In
  <2>2. /\ IsFiniteSet(Owners) /\ IsFiniteSet(Waiting) /\ IsFiniteSet(Admitted)
        /\ Cardinality(Owners) \in Nat /\ Cardinality(Waiting) \in Nat
        /\ Cardinality(Admitted) \in Nat
    BY <2>1, StageSetsFinite, Zenon
  <2>3. CASE Waiting = {}
    BY <2>3, FS_EmptySet, CapacityAssumption DEF QueueBounded
  <2>4. CASE Waiting # {}
    <3>1. Owners \cap Waiting = {} /\ Owners \union Waiting \subseteq Admitted
      BY Zenon DEF Owners, Waiting, Admitted, In, Stages
    <3>2. Cardinality(Owners \union Waiting)
            = Cardinality(Owners) + Cardinality(Waiting) - Cardinality(Owners \cap Waiting)
      BY <2>2, FS_Union, Zenon
    <3>3. Cardinality(Owners \cap Waiting) = 0
      BY <3>1, FS_EmptySet, Zenon
    <3>4. Cardinality(Owners \union Waiting) <= Cardinality(Admitted)
      BY <2>2, <3>1, FS_Subset, Zenon
    <3>5. active = 0
      BY <2>4, Zenon DEF IInv, NoLostWakeup
    <3>6. QED
      BY <2>2, <3>2, <3>3, <3>4, <3>5, CapacityAssumption
      DEF QueueBounded, IInv, PermitsConserved, Types
  <2>5. QED
    BY <2>3, <2>4, Zenon
<1>2. QED
  BY <1>1, InductiveInvariant, PTL

(***************************************************************************)
(* Permits are conserved, nobody waits beside a free one and the queue     *)
(* keeps its bound, for every number of requests and both capacities.      *)
(***************************************************************************)
THEOREM QueueIsSound == Spec => []QueueSound
BY Conservation, NoWaiterBesideFreePermit, QueueNeverExceedsCapacity, PTL DEF QueueSound

-----------------------------------------------------------------------------
(***************************************************************************)
(* Of two requests that wait, one queued before the other.                 *)
(***************************************************************************)
QueueOrdered == \A q, r \in Waiting : q # r => q \in ahead[r] \/ r \in ahead[q]

\* Whoever leaves the queue is removed from what the others queued behind.
LEMMA DequeueKeepsOrder ==
  ASSUME Types, QueueOrdered, NEW r \in Requests, ahead' = Dequeued(r),
         Waiting' = Waiting \ {r}
  PROVE  QueueOrdered'
<1>1. \A q \in Waiting \ {r} : q \in Requests /\ ahead'[q] = ahead[q] \ {r}
  BY Zenon DEF Waiting, In, Dequeued
<1>2. QED
  BY <1>1, Zenon DEF QueueOrdered

LEMMA NextKeepsOrder == IInv /\ QueueOrdered /\ [Next]_vars => QueueOrdered'
<1> SUFFICES ASSUME IInv, QueueOrdered, [Next]_vars PROVE QueueOrdered'
  BY Zenon
<1>1. Types
  BY Zenon DEF IInv
<1>2. CASE UNCHANGED <<ahead, st>>
  BY <1>2, Zenon DEF QueueOrdered, Waiting, In
<1>3. ASSUME NEW r \in Requests, LeaveQueue(r) PROVE QueueOrdered'
  <2>1. Waiting' = Waiting \ {r}
    BY <1>1, <1>3, Zenon DEF LeaveQueue, Waiting, In, Types
  <2>2. QED
    BY <1>1, <1>3, <2>1, DequeueKeepsOrder, Zenon DEF LeaveQueue
<1>4. ASSUME NEW r \in Requests, r \notin Waiting, GiveBackActive(r) PROVE QueueOrdered'
  <2>1. CASE st' = [st EXCEPT ![r] = "releasing"] /\ UNCHANGED ahead
    <3>1. Waiting' \subseteq Waiting
      BY <1>1, <2>1, Zenon DEF Waiting, In, Types
    <3>2. QED
      BY <2>1, <3>1, Zenon DEF QueueOrdered
  <2>2. ASSUME NEW w \in Waiting, ahead' = Dequeued(w),
               st' = [st EXCEPT ![r] = "releasing", ![w] = "granted"]
        PROVE  QueueOrdered'
    <3>1. w \in Requests /\ Waiting' = Waiting \ {w}
      BY <1>1, <1>4, <2>2, Zenon DEF Waiting, In, Types
    <3>2. QED
      BY <1>1, <2>2, <3>1, DequeueKeepsOrder, Zenon
  <2>3. QED
    BY <1>4, <2>1, <2>2, Zenon DEF GiveBackActive
<1>5. ASSUME NEW r \in Requests, st[r] # "waiting", UNCHANGED ahead,
             NEW s \in {"admitted", "holding", "idle"}, st' = [st EXCEPT ![r] = s]
      PROVE  QueueOrdered'
  <2>1. Waiting' = Waiting
    BY <1>1, <1>5, Zenon DEF Waiting, In, Types
  <2>2. QED
    BY <1>5, <2>1, Zenon DEF QueueOrdered
<1>6. ASSUME NEW r \in Requests, st[r] = "admitted", st' = [st EXCEPT ![r] = "waiting"],
             ahead' = [ahead EXCEPT ![r] = Waiting]
      PROVE  QueueOrdered'
  <2>1. Waiting' = Waiting \union {r} /\ r \notin Waiting
    BY <1>1, <1>6, Zenon DEF Waiting, In, Types
  <2>2. \A q \in Waiting : ahead'[q] = ahead[q]
    BY <1>1, <1>6, <2>1, Zenon DEF Waiting, In, Types
  <2>3. ahead'[r] = Waiting
    BY <1>1, <1>6, Zenon DEF Types
  <2>4. QED
    BY <2>1, <2>2, <2>3, Zenon DEF QueueOrdered
<1>7. ASSUME NEW r \in Requests,
             \/ NewPlan(r) \/ DeadlinePasses(r) \/ TryAdmit(r) \/ TakeGranted(r)
             \/ TimeOut(r) \/ Cancel(r) \/ EndStream(r) \/ GiveBackAdmission(r)
      PROVE  QueueOrdered'
  BY Zenon, <1>2, <1>3, <1>4, <1>5, <1>7
  DEF NewPlan, DeadlinePasses, TryAdmit, TakeGranted, TimeOut, Cancel, EndStream,
      GiveBackAdmission, Waiting, In
<1>8. ASSUME NEW r \in Requests, PollActive(r) PROVE QueueOrdered'
  BY <1>3, <1>5, <1>6, <1>8, Zenon DEF PollActive
<1>9. QED
  BY <1>2, <1>7, <1>8, Zenon DEF Next, vars

(***************************************************************************)
(* Capacity is given first come, first served: a permit given back goes to *)
(* a waiter with nobody ahead, and a newcomer finds one free only when     *)
(* nobody waits.                                                           *)
(***************************************************************************)
THEOREM NobodyIsOvertaken == Spec => NoOvertaking
<1> DEFINE Step(r, q) ==
      /\ r # q
      /\ st[q] = "waiting" /\ st'[q] = "waiting"
      /\ st[r] \notin {"granted", "holding"} /\ st'[r] \in {"granted", "holding"}
      => st[r] = "waiting" /\ r \in ahead[q]
<1>1. Init => QueueOrdered
  BY Zenon DEF Init, QueueOrdered, Waiting, In
<1>2. IInv /\ QueueOrdered /\ [Next]_vars => [\A r, q \in Requests : Step(r, q)]_vars
  <2> SUFFICES ASSUME IInv, QueueOrdered, Next, NEW r \in Requests, NEW q \in Requests,
                      r # q, st[q] = "waiting", st'[q] = "waiting",
                      st[r] \notin {"granted", "holding"}, st'[r] \in {"granted", "holding"}
               PROVE  st[r] = "waiting" /\ r \in ahead[q]
    BY Zenon
  <2>1. Types /\ q \in Waiting
    BY Zenon DEF IInv, Waiting, In
  <2>2. active = 0
    BY <2>1, Zenon DEF IInv, NoLostWakeup
  <2>3. PICK c \in Requests :
          \/ NewPlan(c) \/ DeadlinePasses(c) \/ TryAdmit(c) \/ PollActive(c)
          \/ TakeGranted(c) \/ TimeOut(c) \/ Cancel(c) \/ EndStream(c) \/ GiveBackAdmission(c)
    BY Zenon DEF Next
  <2>4. GiveBackActive(c)
    BY <2>1, <2>2, <2>3
    DEF Types, NewPlan, DeadlinePasses, TryAdmit, PollActive, TakeGranted, TimeOut, Cancel,
        EndStream, GiveBackAdmission, LeaveQueue
  <2>5. r \in Waiting /\ ahead[r] = {}
    BY <2>1, <2>4, Zenon DEF GiveBackActive, Types, Waiting, In
  <2>6. QED
    BY <2>1, <2>5, Zenon DEF QueueOrdered, Waiting, In
<1>3. QED
  BY <1>1, <1>2, NextKeepsOrder, InductiveInvariant, PTL DEF Spec, NoOvertaking
=============================================================================
