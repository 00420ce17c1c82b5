--------------------------- MODULE AccountCapacity ---------------------------
(***************************************************************************)
(* Inference capacity of one provider account (provider-runtime,           *)
(* AccountInferenceCapacity): an admission semaphore that bounds running   *)
(* plus queued requests, and an active semaphore that bounds the running   *)
(* ones.  A request takes its admission permit without waiting, then waits *)
(* for an active permit until the deadline of its routing plan, and gives  *)
(* both back when its response stream, or the acquiring future, is         *)
(* dropped.                                                                *)
(*                                                                         *)
(* The active semaphore is tokio's: a permit given back goes straight to   *)
(* the waiter that has queued longest, and only to the free count when     *)
(* nobody waits.                                                           *)
(***************************************************************************)
EXTENDS Naturals, FiniteSets

CONSTANTS
  Requests,              \* requests that may ask this account for capacity
  InferenceConcurrency,  \* inference_concurrency
  QueueCapacity          \* inference_queue_capacity

\* new_with_config asserts that the concurrency is positive.
ASSUME CapacityAssumption ==
  /\ IsFiniteSet(Requests)
  /\ InferenceConcurrency \in Nat \ {0}
  /\ QueueCapacity \in Nat

VARIABLES
  admission,  \* free permits of the admission semaphore
  active,     \* free permits of the active semaphore
  st,         \* where each request is on its way through acquire
  ahead,      \* for a waiting request, the waiters that queued before it
  expired     \* requests whose plan deadline has passed

vars == <<admission, active, st, ahead, expired>>

(***************************************************************************)
(* idle       asks for nothing                                             *)
(* admitted   holds an admission permit, has not polled the active one     *)
(* waiting    queued on the active semaphore                               *)
(* granted    was assigned an active permit, has not been polled since     *)
(* holding    InferencePermit lives in the response stream                 *)
(* releasing  the active permit is gone, the admission permit not yet      *)
(***************************************************************************)
Stages == {"idle", "admitted", "waiting", "granted", "holding", "releasing"}

In(stages) == {r \in Requests : st[r] \in stages}
Waiting == In({"waiting"})
Owners == In({"granted", "holding"})
Admitted == In(Stages \ {"idle"})

TypeOK ==
  /\ admission \in 0..(InferenceConcurrency + QueueCapacity)
  /\ active \in 0..InferenceConcurrency
  /\ st \in [Requests -> Stages]
  /\ ahead \in [Requests -> SUBSET Requests]
  /\ expired \in SUBSET Requests

Init ==
  /\ admission = InferenceConcurrency + QueueCapacity
  /\ active = InferenceConcurrency
  /\ st = [r \in Requests |-> "idle"]
  /\ ahead = [r \in Requests |-> {}]
  /\ expired = {}

\* ahead after r has left the queue.
Dequeued(r) == [q \in Requests |-> IF q = r THEN {} ELSE ahead[q] \ {r}]

\* A mutation: any waiter may be assigned the permit.
GiveBackActiveUnordered(r) ==
  \/ /\ Waiting = {}
     /\ active' = active + 1
     /\ st' = [st EXCEPT ![r] = "releasing"]
     /\ UNCHANGED ahead
  \/ \E w \in Waiting :
       /\ st' = [st EXCEPT ![r] = "releasing", ![w] = "granted"]
       /\ ahead' = Dequeued(w)
       /\ UNCHANGED active

(***************************************************************************)
(* An active permit is given back by r, which moves to "releasing": the    *)
(* first waiter is assigned the permit, or the free count grows.           *)
(***************************************************************************)
GiveBackActive(r) ==
  \/ /\ Waiting = {}
     /\ active' = active + 1
     /\ st' = [st EXCEPT ![r] = "releasing"]
     /\ UNCHANGED ahead
  \/ \E w \in Waiting :
       /\ ahead[w] = {}
       /\ st' = [st EXCEPT ![r] = "releasing", ![w] = "granted"]
       /\ ahead' = Dequeued(w)
       /\ UNCHANGED active

\* r leaves the queue, or was never in it, without an active permit.
LeaveQueue(r) ==
  /\ st' = [st EXCEPT ![r] = "releasing"]
  /\ ahead' = Dequeued(r)
  /\ UNCHANGED active

(***************************************************************************)
(* A routing plan starts with a fresh deadline, and its deadline passes    *)
(* while it is anywhere: in this queue, or at an earlier candidate.        *)
(***************************************************************************)
NewPlan(r) ==
  /\ st[r] = "idle"
  /\ r \in expired
  /\ expired' = expired \ {r}
  /\ UNCHANGED <<admission, active, st, ahead>>

DeadlinePasses(r) ==
  /\ r \notin expired
  /\ expired' = expired \union {r}
  /\ UNCHANGED <<admission, active, st, ahead>>

(***************************************************************************)
(* try_acquire_owned on the admission semaphore.  When it has no permit    *)
(* the request is refused at once ("inference queue is full") and nothing  *)
(* changes.                                                                *)
(***************************************************************************)
TryAdmit(r) ==
  /\ st[r] = "idle"
  /\ admission > 0
  /\ admission' = admission - 1
  /\ st' = [st EXCEPT ![r] = "admitted"]
  /\ UNCHANGED <<active, ahead, expired>>

(***************************************************************************)
(* The deadline check and the first poll of the active semaphore: refused  *)
(* when no time remains, served when a permit is free, queued otherwise.   *)
(***************************************************************************)
PollActive(r) ==
  /\ st[r] = "admitted"
  /\ \/ /\ r \in expired
        /\ LeaveQueue(r)
     \/ /\ r \notin expired
        /\ active > 0
        /\ active' = active - 1
        /\ st' = [st EXCEPT ![r] = "holding"]
        /\ UNCHANGED ahead
     \/ /\ r \notin expired
        /\ active = 0
        /\ st' = [st EXCEPT ![r] = "waiting"]
        /\ ahead' = [ahead EXCEPT ![r] = Waiting]
        /\ UNCHANGED active
  /\ UNCHANGED <<admission, expired>>

\* timeout() polls the acquisition before its timer, so an assigned permit
\* is taken even when the deadline has passed meanwhile.
TakeGranted(r) ==
  /\ st[r] = "granted"
  /\ st' = [st EXCEPT ![r] = "holding"]
  /\ UNCHANGED <<admission, active, ahead, expired>>

\* A mutation: the wait is not wrapped in a timeout, its timer wakes nobody.
TimeOutUnpolled(r) ==
  /\ st[r] = "waiting"
  /\ r \in expired
  /\ UNCHANGED vars

TimeOut(r) ==
  /\ st[r] = "waiting"
  /\ r \in expired
  /\ LeaveQueue(r)
  /\ UNCHANGED <<admission, expired>>

\* A mutation: an assigned permit vanishes with the dropped future.
CancelLosingGrant(r) ==
  /\ st[r] \in {"admitted", "waiting", "granted"}
  /\ LeaveQueue(r)
  /\ UNCHANGED <<admission, expired>>

(***************************************************************************)
(* The client disconnects and the acquiring future is dropped.  A permit   *)
(* already assigned to it goes to the next waiter.                         *)
(***************************************************************************)
Cancel(r) ==
  /\ \/ st[r] \in {"admitted", "waiting"} /\ LeaveQueue(r)
     \/ st[r] = "granted" /\ GiveBackActive(r)
  /\ UNCHANGED <<admission, expired>>

\* The response stream ends or is dropped: InferencePermit drops its active
\* permit first and its admission permit second.
EndStream(r) ==
  /\ st[r] = "holding"
  /\ GiveBackActive(r)
  /\ UNCHANGED <<admission, expired>>

GiveBackAdmission(r) ==
  /\ st[r] = "releasing"
  /\ admission' = admission + 1
  /\ st' = [st EXCEPT ![r] = "idle"]
  /\ UNCHANGED <<active, ahead, expired>>

Next ==
  \E r \in Requests :
    \/ NewPlan(r) \/ DeadlinePasses(r)
    \/ TryAdmit(r) \/ PollActive(r) \/ TakeGranted(r) \/ TimeOut(r)
    \/ Cancel(r) \/ EndStream(r) \/ GiveBackAdmission(r)

(***************************************************************************)
(* Time passes, and the runtime polls a woken task and finishes a drop.    *)
(* Nothing makes a client send a request or a stream end.                  *)
(***************************************************************************)
Fairness ==
  \A r \in Requests :
    /\ WF_vars(DeadlinePasses(r))
    /\ WF_vars(PollActive(r))
    /\ WF_vars(TakeGranted(r))
    /\ WF_vars(TimeOut(r))
    /\ WF_vars(GiveBackAdmission(r))

Spec == Init /\ [][Next]_vars
FairSpec == Spec /\ Fairness

-----------------------------------------------------------------------------
(***************************************************************************)
(* No permit is lost or minted by any interleaving of timeouts, dropped    *)
(* futures and ending streams: the free permits and the requests that own  *)
(* one always add up to the configured capacity.                           *)
(***************************************************************************)
PermitsConserved ==
  /\ active + Cardinality(Owners) = InferenceConcurrency
  /\ admission + Cardinality(Admitted) = InferenceConcurrency + QueueCapacity

(***************************************************************************)
(* Nobody waits while an active permit is free.                            *)
(***************************************************************************)
NoLostWakeup == Waiting # {} => active = 0

(***************************************************************************)
(* The admission semaphore counts running and queued requests together;    *)
(* still, at most inference_queue_capacity of them ever wait.              *)
(***************************************************************************)
QueueBounded == Cardinality(Waiting) <= QueueCapacity

(***************************************************************************)
(* The two semaphores agree with the requests that hold or await them, in  *)
(* every interleaving.                                                     *)
(***************************************************************************)
QueueSound == PermitsConserved /\ NoLostWakeup /\ QueueBounded

(***************************************************************************)
(* acquire is first come, first served: a waiter that is assigned a permit *)
(* or a newcomer that takes one never overtakes a request that was already *)
(* queued.                                                                 *)
(***************************************************************************)
NoOvertaking ==
  [][\A r, q \in Requests :
       /\ r # q
       /\ st[q] = "waiting" /\ st'[q] = "waiting"
       /\ st[r] \notin {"granted", "holding"} /\ st'[r] \in {"granted", "holding"}
       => st[r] = "waiting" /\ r \in ahead[q]]_vars

(***************************************************************************)
(* A request inside acquire leaves it: with a permit, or at its deadline,  *)
(* whatever the streams that hold the permits do, and then it gives its    *)
(* admission permit back or runs.                                          *)
(***************************************************************************)
AcquireEnds ==
  \A r \in Requests :
    st[r] \in {"admitted", "waiting", "granted", "releasing"}
      ~> st[r] \in {"idle", "holding"}
=============================================================================
