----------------------------- MODULE QuotaLedger -----------------------------
(***************************************************************************)
(* How one API key is charged.  A request of a key with a quota (Finite)   *)
(* creates a durable claim before it may reach an upstream, and the quota  *)
(* ledger writer settles or releases the claim when the request is over.   *)
(* A request of a key without one (Plain) is charged by the usage writer,  *)
(* attempt by attempt, and may be lost.  Both writers record the same      *)
(* attempt rows; the process may crash anywhere, and recovery resolves the *)
(* claims it finds before it discards the requests left in flight.         *)
(*                                                                         *)
(* Money is abstracted to how many times the cost of an attempt was added  *)
(* to api_keys.spent_atoms (times).  A transaction is one step: every      *)
(* write goes through one exclusive connection.                            *)
(***************************************************************************)
EXTENDS Integers, Sequences, FiniteSets

CONSTANTS
  Finite,          \* requests of the key while it has a quota limit
  Plain,           \* requests of the key while it has none
  MaxAttempts,     \* upstream attempts per request
  Cost,            \* what one attempt with a complete cost adds to the spend
  Limit,           \* quota_limit_atoms
  LedgerCapacity,  \* DEFAULT_QUOTA_QUEUE
  UsageCapacity,   \* DEFAULT_WRITE_QUEUE, the write in hand included
  RecoveryBatch,   \* RECOVERY_BATCH
  MaxCrashes,      \* bound on crashes
  ClockMayStep     \* the wall clock may step back during an attempt

ASSUME QuotaAssumption ==
  /\ IsFiniteSet(Finite) /\ IsFiniteSet(Plain) /\ Finite \cap Plain = {}
  /\ MaxAttempts \in Nat /\ Cost \in Nat /\ Limit \in Nat \ {0}
  /\ LedgerCapacity \in Nat \ {0} /\ UsageCapacity \in Nat \ {0}
  /\ RecoveryBatch \in Nat \ {0} /\ MaxCrashes \in Nat
  /\ ClockMayStep \in BOOLEAN

Requests == Finite \union Plain
Indices == 1..MaxAttempts
Attempts == Requests \X Indices

VARIABLES
  \* the database
  logical,     \* usage_logical_requests: the row of each request
  claim,       \* api_key_quota_ledger.state of each finite request
  marked,      \* claims with dispatched_at_ms
  rows,        \* usage_attempts
  times,       \* how often each attempt's cost was added to spent_atoms
  gapped,      \* requests counted in usage_tracking_gaps
  \* the process and its requests
  stage,       \* serving, or the recovery step of a start
  phase,       \* where the handler of each request is
  result,      \* what each attempt came to
  unstorable,  \* attempts whose times violate the table's CHECK
  sent,        \* LogicalState.quota_dispatched
  noted,       \* LogicalState.quota_attempts, then the entry's attempts
  \* the quota ledger writer
  permits,     \* requests that hold a QuotaLedgerPermit
  entries,     \* its queue
  writing,     \* the entry it is writing, if any
  recorded,    \* attempts of that entry recorded in this pass
  healthy,     \* QuotaLedgerWriter.healthy
  acked,       \* requests whose receipt was acknowledged
  \* the usage writer
  facts,       \* its queue
  flushing,    \* flush_shed is due
  tally,       \* ShedGaps.counts
  unrecorded,  \* ShedGaps.unrecorded
  \* history
  orphaned,    \* claims committed for a handler that was gone
  crashed,     \* requests a crash interrupted
  crashes      \* number of crashes

db == <<logical, claim, marked, rows, times, gapped>>
handlers == <<phase, result, unstorable, sent, noted>>
ledger == <<permits, entries, writing, recorded, healthy, acked>>
usage == <<facts, flushing, tally, unrecorded>>
history == <<orphaned, crashed, crashes>>
vars == <<db, stage, handlers, ledger, usage, history>>

(***************************************************************************)
(* reserving  waits for capacity of the ledger queue                       *)
(* permitted  holds a permit, the claim is not committed                   *)
(* claimed    the tracker exists, quota not yet admitted                   *)
(* admitted   admitted, the dispatch marker not yet durable                *)
(* executing  may open attempts                                            *)
(* dropped    the client left while the marker was being written           *)
(* awaiting   finished, waits for the receipt                              *)
(* answered   the client has its terminal; gone: nobody is waiting         *)
(***************************************************************************)
Phases == {"new", "reserving", "permitted", "claimed", "admitted", "executing",
           "dropped", "awaiting", "answered", "gone"}
Tracked == {"claimed", "admitted", "executing", "dropped"}

\* unsent: not_invoked; unpriced and priced: confirmed dispatch without and
\* with a complete cost.
Results == {"unopened", "open", "unsent", "unpriced", "priced"}
Confirmed == {"unpriced", "priced"}

Fact == {"attempt"} \X Attempts \union {"terminal"} \X Requests
RequestOf(fact) == IF fact[1] = "attempt" THEN fact[2][1] ELSE fact[2]

IsOpen(r) == \E i \in Indices : result[<<r, i>>] = "open"
Queued(r) == \E n \in DOMAIN entries : entries[n] = r
Priced(r) == {i \in Indices : result[<<r, i>>] = "priced"}
Reserved == {r \in Finite : claim[r] = "reserved"}
InFlight == {r \in Requests : logical[r] = "in_progress"}
Exists(r) == logical[r] \in {"in_progress", "terminal"}

\* api_keys.spent_atoms: the cost of every charge, an attempt and how many times.
Charged == UNION {{a} \X (1..times[a]) : a \in Attempts}
Spent == Cardinality(Charged) * Cost

TypeOK ==
  /\ logical \in [Requests -> {"none", "in_progress", "terminal", "deleted"}]
  /\ claim \in [Finite -> {"none", "reserved", "settled", "released"}]
  /\ marked \in SUBSET Finite
  /\ rows \in SUBSET Attempts
  /\ times \in [Attempts -> Nat]
  /\ gapped \in SUBSET Requests
  /\ stage \in {"recover_quota", "recover_in_flight", "serving"}
  /\ phase \in [Requests -> Phases]
  /\ result \in [Attempts -> Results]
  /\ unstorable \in SUBSET Attempts
  /\ sent \in SUBSET Finite
  /\ noted \in [Finite -> SUBSET Indices]
  /\ permits \in SUBSET Finite
  /\ entries \in Seq(Finite)
  /\ writing \in SUBSET Finite /\ \A q, r \in writing : q = r
  /\ recorded \in SUBSET Indices
  /\ healthy \in BOOLEAN
  /\ acked \in SUBSET Finite
  /\ facts \in Seq(Fact) /\ Len(facts) <= UsageCapacity
  /\ flushing \in BOOLEAN
  /\ tally \in SUBSET Requests
  /\ unrecorded \in SUBSET Requests
  /\ orphaned \in SUBSET Finite
  /\ crashed \in SUBSET Requests
  /\ crashes \in 0..MaxCrashes

Init ==
  /\ logical = [r \in Requests |-> "none"]
  /\ claim = [r \in Finite |-> "none"]
  /\ marked = {} /\ rows = {} /\ gapped = {}
  /\ times = [a \in Attempts |-> 0]
  /\ stage = "serving"
  /\ phase = [r \in Requests |-> "new"]
  /\ result = [a \in Attempts |-> "unopened"]
  /\ unstorable = {} /\ sent = {}
  /\ noted = [r \in Finite |-> {}]
  /\ permits = {} /\ entries = <<>> /\ writing = {} /\ recorded = {}
  /\ healthy = TRUE /\ acked = {}
  /\ facts = <<>> /\ flushing = FALSE /\ tally = {} /\ unrecorded = {}
  /\ orphaned = {} /\ crashed = {} /\ crashes = 0

-----------------------------------------------------------------------------
(***************************************************************************)
(* The request handler.                                                    *)
(***************************************************************************)
Enter(r, p) == phase' = [phase EXCEPT ![r] = p]

\* UsageWriter::submit: queued, or tallied as shed.
Submit(fact) ==
  /\ \/ /\ Len(facts) < UsageCapacity
        /\ facts' = Append(facts, fact)
        /\ UNCHANGED tally
     \/ /\ Len(facts) = UsageCapacity
        /\ tally' = tally \union {RequestOf(fact)}
        /\ UNCHANGED facts
  /\ UNCHANGED <<flushing, unrecorded>>

\* QuotaLedgerWriter::reserve: refused when unhealthy, else it waits.
Reserve(r) ==
  /\ stage = "serving" /\ phase[r] = "new"
  /\ Enter(r, IF healthy THEN "reserving" ELSE "gone")
  /\ UNCHANGED <<db, stage, result, unstorable, sent, noted, ledger, usage, history>>

\* reserve_owned returned: health is read again.
TakePermit(r) ==
  /\ phase[r] = "reserving"
  /\ Cardinality(permits) + Len(entries) < LedgerCapacity
  /\ Enter(r, IF healthy THEN "permitted" ELSE "gone")
  /\ permits' = IF healthy THEN permits \union {r} ELSE permits
  /\ UNCHANGED <<db, stage, result, unstorable, sent, noted,
                 entries, writing, recorded, healthy, acked, usage, history>>

(***************************************************************************)
(* begin_quota_request: the start row and the claim commit together, and   *)
(* the tracker is built after the commit.  The handler may be dropped in   *)
(* between, while the commit is awaited.                                   *)
(***************************************************************************)
BeginClaim(r) ==
  /\ phase[r] = "permitted"
  /\ logical' = [logical EXCEPT ![r] = "in_progress"]
  /\ claim' = [claim EXCEPT ![r] = "reserved"]
  /\ \/ /\ Enter(r, "claimed")
        /\ UNCHANGED <<permits, orphaned>>
     \/ /\ Enter(r, "gone")
        /\ permits' = permits \ {r}
        /\ orphaned' = orphaned \union {r}
  /\ UNCHANGED <<marked, rows, times, gapped, stage, result, unstorable, sent, noted,
                 entries, writing, recorded, healthy, acked, usage, crashed, crashes>>

\* The transaction failed, or the handler was dropped before its commit.
BeginFails(r) ==
  /\ phase[r] \in {"reserving", "permitted"}
  /\ Enter(r, "gone")
  /\ permits' = permits \ {r}
  /\ UNCHANGED <<db, stage, result, unstorable, sent, noted,
                 entries, writing, recorded, healthy, acked, usage, history>>

\* begin_request is fail-open: the request goes on without a row.
BeginPlain(r) ==
  /\ stage = "serving" /\ phase[r] = "new"
  /\ Enter(r, "executing")
  /\ \E row \in {"none", "in_progress"} : logical' = [logical EXCEPT ![r] = row]
  /\ UNCHANGED <<claim, marked, rows, times, gapped, stage, result, unstorable,
                 sent, noted, ledger, usage, history>>

\* A mutation: the spend is not read again once the claim exists.
AdmitQuotaUnread(r) ==
  /\ phase[r] = "claimed"
  /\ Enter(r, "admitted")
  /\ UNCHANGED <<db, stage, result, unstorable, sent, noted, ledger, usage, history>>

\* admit_api_key_quota; a refusal goes to Finish.
AdmitQuota(r) ==
  /\ phase[r] = "claimed"
  /\ Spent < Limit
  /\ Enter(r, "admitted")
  /\ UNCHANGED <<db, stage, result, unstorable, sent, noted, ledger, usage, history>>

\* mark_quota_dispatched: the marker is durable before execution, and the
\* handler may be dropped after it was written.
MarkDispatched(r) ==
  /\ phase[r] = "admitted"
  /\ claim[r] = "reserved"
  /\ marked' = marked \union {r}
  /\ \/ Enter(r, "executing") /\ sent' = sent \union {r}
     \/ Enter(r, "dropped") /\ UNCHANGED sent
  /\ UNCHANGED <<logical, claim, rows, times, gapped, stage, result, unstorable, noted,
                 ledger, usage, history>>

\* open_attempt; the attempts of a request follow one another.
OpenAttempt(r, i) ==
  /\ phase[r] = "executing" /\ ~IsOpen(r)
  /\ result[<<r, i>>] = "unopened"
  /\ \A j \in 1..(i - 1) : result[<<r, j>>] # "unopened"
  /\ result' = [result EXCEPT ![<<r, i>>] = "open"]
  /\ UNCHANGED <<db, stage, phase, unstorable, sent, noted, ledger, usage, history>>

(***************************************************************************)
(* AttemptTracker::close, by the stream, a failure or a drop: evidence and *)
(* cost are decided, the request notes a confirmed dispatch while it holds *)
(* its permit, and the facts go to the usage writer.                       *)
(***************************************************************************)
CloseAttempt(r, i, res) ==
  LET confirmed == res \in Confirmed IN
  /\ result[<<r, i>>] = "open"
  /\ result' = [result EXCEPT ![<<r, i>>] = res]
  /\ sent' = IF confirmed /\ r \in Finite THEN sent \union {r} ELSE sent
  /\ noted' = IF confirmed /\ r \in permits
              THEN [noted EXCEPT ![r] = @ \union {i}] ELSE noted
  /\ \/ UNCHANGED unstorable
     \/ ClockMayStep /\ confirmed /\ unstorable' = unstorable \union {<<r, i>>}
  /\ Submit(<<"attempt", <<r, i>>>>)
  /\ UNCHANGED <<db, stage, phase, ledger, history>>

\* A mutation: the request finishes before its stream is dropped.
FinishFirst(r) ==
  /\ phase[r] \in Tracked
  /\ \/ /\ r \in permits
        /\ permits' = permits \ {r}
        /\ entries' = Append(entries, r)
        /\ Enter(r, "gone")
     \/ /\ r \notin permits
        /\ Enter(r, "gone")
        /\ UNCHANGED <<permits, entries>>
  /\ Submit(<<"terminal", r>>)
  /\ UNCHANGED <<db, stage, result, unstorable, sent, noted,
                 writing, recorded, healthy, acked, history>>

(***************************************************************************)
(* LogicalTracker::finish, by the end of the stream, an error before any   *)
(* byte, or a drop: the entry takes the permit's slot and the terminal     *)
(* goes to the usage writer.  The attempt always closed before: the        *)
(* stream is dropped first.  Whoever waits for the receipt is awaiting.    *)
(***************************************************************************)
Finish(r) ==
  /\ phase[r] \in Tracked /\ ~IsOpen(r)
  /\ \/ /\ r \in permits
        /\ permits' = permits \ {r}
        /\ entries' = Append(entries, r)
        /\ \/ phase[r] # "dropped" /\ Enter(r, "awaiting")
           \/ Enter(r, "gone")
     \/ /\ r \notin permits
        /\ \E p \in {"answered", "gone"} : Enter(r, p)
        /\ UNCHANGED <<permits, entries>>
  /\ Submit(<<"terminal", r>>)
  /\ UNCHANGED <<db, stage, result, unstorable, sent, noted,
                 writing, recorded, healthy, acked, history>>

\* persisted() returned, or the client leaves meanwhile.
Answer(r) ==
  /\ phase[r] = "awaiting"
  /\ \/ r \in acked /\ Enter(r, "answered")
     \/ Enter(r, "gone")
  /\ UNCHANGED <<db, stage, result, unstorable, sent, noted, ledger, usage, history>>

-----------------------------------------------------------------------------
(***************************************************************************)
(* The transactions both writers use.                                      *)
(***************************************************************************)
\* record_attempt fails for good when a CHECK or the foreign key does.
Recordable(a) == a \notin unstorable /\ Exists(a[1])

\* The cost is charged here only on insertion and when no claim owns it.
Charges(a) ==
  /\ a \notin rows
  /\ result[a] = "priced"
  /\ a[1] \in Finite => claim[a[1]] = "none"

RecordAttempt(a) ==
  /\ Recordable(a)
  /\ rows' = rows \union {a}
  /\ times' = IF Charges(a) THEN [times EXCEPT ![a] = @ + 1] ELSE times

\* add_api_key_spend of the sum over the attempts is of r.
Charge(r, is) ==
  times' = [a \in Attempts |-> IF a[1] = r /\ a[2] \in is THEN times[a] + 1 ELSE times[a]]

-----------------------------------------------------------------------------
(***************************************************************************)
(* run_quota_ledger: an entry is written pass by pass, first its attempts  *)
(* and then the claim, and any failure starts the pass over.               *)
(***************************************************************************)
LedgerRecv ==
  /\ stage = "serving" /\ writing = {} /\ entries # <<>>
  /\ writing' = {Head(entries)}
  /\ entries' = Tail(entries)
  /\ recorded' = {}
  /\ UNCHANGED <<db, stage, handlers, permits, healthy, acked, usage, history>>

LedgerRecord(r, i) ==
  /\ r \in writing /\ i \in noted[r] \ recorded
  /\ \A j \in noted[r] \ recorded : i <= j
  /\ RecordAttempt(<<r, i>>)
  /\ recorded' = recorded \union {i}
  /\ UNCHANGED <<logical, claim, marked, gapped, stage, handlers,
                 permits, entries, writing, healthy, acked, usage, history>>

\* A mutation: a failed entry is given up instead of retried.
LedgerFailGivingUp(r) ==
  /\ r \in writing
  /\ healthy' = FALSE
  /\ recorded' = {} /\ writing' = {}
  /\ UNCHANGED <<db, stage, handlers, permits, entries, acked, usage, history>>

LedgerFail(r) ==
  /\ r \in writing
  /\ healthy' = FALSE
  /\ recorded' = {}
  /\ UNCHANGED <<db, stage, handlers, permits, entries, writing, acked, usage, history>>

\* What the entry's cost_atoms is made of: nothing unless dispatched.
EntryCost(r) == IF r \in sent THEN noted[r] \cap Priced(r) ELSE {}

\* record_quota_ledger_entry; a claim that is resolved is left alone.
ResolveClaim(r) ==
  \/ /\ claim[r] = "reserved" /\ EntryCost(r) # {}
     /\ r \in marked
     /\ claim' = [claim EXCEPT ![r] = "settled"]
     /\ Charge(r, EntryCost(r))
  \/ /\ claim[r] = "reserved" /\ EntryCost(r) = {}
     /\ claim' = [claim EXCEPT ![r] = "released"]
     /\ UNCHANGED times
  \/ /\ claim[r] \in {"settled", "released"}
     /\ UNCHANGED <<claim, times>>

\* The claim is resolved after every attempt was recorded.
LedgerSettle(r) ==
  /\ r \in writing /\ recorded = noted[r]
  /\ ResolveClaim(r)
  /\ healthy' = TRUE
  /\ writing' = {}
  /\ acked' = acked \union {r}
  /\ UNCHANGED <<logical, marked, rows, gapped, stage, handlers,
                 permits, entries, recorded, usage, history>>

\* The same, but COMMIT reported an error for what is durable: a failed pass.
LedgerSettleUnreported(r) ==
  /\ r \in writing /\ recorded = noted[r]
  /\ ResolveClaim(r)
  /\ healthy' = FALSE
  /\ recorded' = {}
  /\ UNCHANGED <<logical, marked, rows, gapped, stage, handlers,
                 permits, entries, writing, acked, usage, history>>

-----------------------------------------------------------------------------
(***************************************************************************)
(* The usage writer: run, apply and flush_shed.                            *)
(***************************************************************************)
\* apply recorded a gap for the fact it could not write, or could not even
\* do that.
ApplyGap(r) ==
  /\ \/ gapped' = gapped \union {r} /\ UNCHANGED unrecorded
     \/ unrecorded' = unrecorded \union {r} /\ UNCHANGED gapped
  /\ UNCHANGED <<rows, times, logical>>

\* record_attempt or complete_logical_request succeeded.
ApplyWrite(fact) ==
  /\ \/ /\ fact[1] = "attempt"
        /\ RecordAttempt(fact[2])
        /\ UNCHANGED logical
     \/ /\ fact[1] = "terminal"
        /\ Exists(fact[2])
        /\ logical' = [logical EXCEPT ![fact[2]] = "terminal"]
        /\ UNCHANGED <<rows, times>>
  /\ UNCHANGED <<gapped, unrecorded>>

UsageApply ==
  /\ stage = "serving" /\ facts # <<>> /\ ~flushing
  /\ ApplyWrite(Head(facts)) \/ ApplyGap(RequestOf(Head(facts)))
  /\ facts' = Tail(facts)
  /\ flushing' = TRUE
  /\ UNCHANGED <<claim, marked, stage, handlers, ledger, tally, history>>

\* A mutation: a tally that cannot be written is forgotten.
UsageFlushForgetting ==
  /\ stage = "serving" /\ flushing
  /\ \E failed \in SUBSET tally :
       /\ gapped' = gapped \union (tally \ failed)
       /\ UNCHANGED unrecorded
  /\ tally' = {}
  /\ flushing' = FALSE
  /\ UNCHANGED <<logical, claim, marked, rows, times, stage, handlers, ledger,
                 facts, history>>

UsageFlush ==
  /\ stage = "serving" /\ flushing
  /\ \E failed \in SUBSET tally :
       /\ gapped' = gapped \union (tally \ failed)
       /\ unrecorded' = unrecorded \union failed
  /\ tally' = {}
  /\ flushing' = FALSE
  /\ UNCHANGED <<logical, claim, marked, rows, times, stage, handlers, ledger,
                 facts, history>>

-----------------------------------------------------------------------------
(***************************************************************************)
(* A crash loses everything in memory, at any moment, recovery included.   *)
(* The instance lock keeps a second process out, so recovery runs alone.   *)
(***************************************************************************)
Interrupted ==
  {r \in Requests :
     /\ phase[r] # "new"
     /\ \/ phase[r] \notin {"answered", "gone"}
        \/ r \in Finite /\ claim[r] = "reserved"
        \/ \E n \in DOMAIN facts : RequestOf(facts[n]) = r
        \/ r \in tally \union unrecorded}

Crash ==
  /\ crashes < MaxCrashes
  /\ crashes' = crashes + 1
  /\ crashed' = crashed \union Interrupted
  /\ stage' = "recover_quota"
  /\ phase' = [r \in Requests |->
                 IF phase[r] \in {"new", "answered"} THEN phase[r] ELSE "gone"]
  /\ result' = [a \in Attempts |-> IF result[a] = "open" THEN "unsent" ELSE result[a]]
  /\ permits' = {} /\ entries' = <<>> /\ writing' = {} /\ recorded' = {}
  /\ healthy' = TRUE
  /\ facts' = <<>> /\ flushing' = FALSE /\ tally' = {} /\ unrecorded' = {}
  /\ UNCHANGED <<db, unstorable, sent, noted, acked, orphaned>>

\* The attempts of r that recovery finds a complete cost for.
DurableCost(r) == {i \in Priced(r) : <<r, i>> \in rows}

\* recover_quota_reservations: one transaction per batch, until a short one.
RecoverQuota ==
  /\ stage = "recover_quota"
  /\ \E batch \in SUBSET Reserved :
       /\ Cardinality(batch) <= RecoveryBatch
       /\ batch = Reserved \/ Cardinality(batch) = RecoveryBatch
       /\ claim' = [r \in Finite |->
                      IF r \notin batch THEN claim[r]
                      ELSE IF DurableCost(r) = {} THEN "released" ELSE "settled"]
       /\ times' = [a \in Attempts |->
                      IF a[1] \in batch /\ a[2] \in DurableCost(a[1])
                      THEN times[a] + 1 ELSE times[a]]
       /\ stage' = IF Cardinality(batch) < RecoveryBatch
                   THEN "recover_in_flight" ELSE stage
  /\ UNCHANGED <<logical, marked, rows, gapped, handlers, ledger, usage, history>>

\* recover_in_flight_requests: a gap for each, and the rows go by cascade.
RecoverInFlight ==
  /\ stage = "recover_in_flight"
  /\ \E batch \in SUBSET InFlight :
       /\ Cardinality(batch) <= RecoveryBatch
       /\ batch = InFlight \/ Cardinality(batch) = RecoveryBatch
       /\ gapped' = gapped \union batch
       /\ logical' = [r \in Requests |-> IF r \in batch THEN "deleted" ELSE logical[r]]
       /\ rows' = {a \in rows : a[1] \notin batch}
       /\ stage' = IF Cardinality(batch) < RecoveryBatch THEN "serving" ELSE stage
  /\ UNCHANGED <<claim, marked, times, handlers, ledger, usage, history>>

-----------------------------------------------------------------------------
HandlerNext ==
  \/ \E r \in Finite :
       \/ Reserve(r) \/ TakePermit(r) \/ BeginClaim(r) \/ BeginFails(r)
       \/ AdmitQuota(r) \/ MarkDispatched(r) \/ Answer(r)
  \/ \E r \in Plain : BeginPlain(r)
  \/ \E r \in Requests, i \in Indices :
       \/ OpenAttempt(r, i)
       \/ \E res \in {"unsent", "unpriced", "priced"} : CloseAttempt(r, i, res)
  \/ \E r \in Requests : Finish(r)

WriterNext ==
  \/ LedgerRecv
  \/ \E r \in Finite :
       \/ \E i \in Indices : LedgerRecord(r, i)
       \/ LedgerFail(r) \/ LedgerSettle(r) \/ LedgerSettleUnreported(r)
  \/ UsageApply \/ UsageFlush

RecoveryNext == Crash \/ RecoverQuota \/ RecoverInFlight

Next == HandlerNext \/ WriterNext \/ RecoveryNext

Spec == Init /\ [][Next]_vars

(***************************************************************************)
(* The ledger writer runs and retries for ever; the database accepts a     *)
(* write that is tried for ever and is not refused by its constraints; a   *)
(* start finishes its recovery.                                            *)
(***************************************************************************)
Fairness ==
  /\ WF_vars(LedgerRecv)
  /\ \A r \in Finite :
       /\ \A i \in Indices : SF_vars(LedgerRecord(r, i))
       /\ SF_vars(LedgerSettle(r))
  /\ WF_vars(RecoverQuota) /\ WF_vars(RecoverInFlight)

FairSpec == Spec /\ Fairness

-----------------------------------------------------------------------------
(***************************************************************************)
(* No attempt is charged twice, and none without a complete cost, although *)
(* the usage writer, the ledger writer's retries and the recovery after a  *)
(* crash may all write the same attempt.                                   *)
(***************************************************************************)
ChargedAtMostOnce ==
  \A a \in Attempts :
    times[a] # 0 => times[a] = 1 /\ result[a] = "priced"

(***************************************************************************)
(* Unless a crash interrupted the request, a settled claim charged every   *)
(* attempt that had a complete cost, and a released claim had none.        *)
(***************************************************************************)
SettledExactly ==
  \A r \in Finite \ crashed :
    /\ claim[r] = "settled" => \A i \in Priced(r) : times[<<r, i>>] = 1
    /\ claim[r] = "released" => Priced(r) = {}

(***************************************************************************)
(* A client of a finite key that has its terminal has been charged         *)
(* durably: no crash after the answer can undo or lose the charge.         *)
(***************************************************************************)
AnsweredIsCharged ==
  \A r \in Finite :
    phase[r] = "answered" =>
      /\ claim[r] \in {"settled", "released"}
      /\ \A i \in Priced(r) : times[<<r, i>>] = 1

(***************************************************************************)
(* "every admitted claim has an unsheddable route to settlement": a claim  *)
(* that is reserved while the process serves is held by a permit, queued   *)
(* or being written, unless its handler was dropped during the commit.     *)
(***************************************************************************)
RouteToSettlement ==
  stage = "serving" =>
    \A r \in Reserved \ orphaned : r \in permits \/ Queued(r) \/ r \in writing

(***************************************************************************)
(* The ledger writer is unhealthy only while it retries an entry.  New     *)
(* finite requests are refused while it is, so an unhealthy writer with    *)
(* nothing to write would never become healthy again.                      *)
(***************************************************************************)
UnhealthyMeansRetrying == ~healthy => writing # {}

(***************************************************************************)
(* The ledger of the finite requests: charges are exact, durable before    *)
(* the answer, and never without somebody who will write them.             *)
(***************************************************************************)
LedgerSound ==
  /\ ChargedAtMostOnce /\ SettledExactly /\ AnsweredIsCharged
  /\ RouteToSettlement /\ UnhealthyMeansRetrying

(***************************************************************************)
(* No charge of a plain request vanishes silently: it was applied, is in   *)
(* the queue, is counted as a gap or an unrecorded fact, or a crash        *)
(* interrupted it.                                                         *)
(***************************************************************************)
PlainLossAdmitted ==
  \A r \in Plain : \A i \in Priced(r) :
    \/ times[<<r, i>>] = 1
    \/ \E n \in DOMAIN facts : facts[n] = <<"attempt", <<r, i>>>>
    \/ r \in tally \union gapped \union unrecorded \union crashed

(***************************************************************************)
(* Nothing deletes the attempt rows of a claim that is still reserved:     *)
(* they are what recovery settles it from.                                 *)
(***************************************************************************)
ReservedRowsKept == \A a \in rows : a[1] \in Reserved => a \in rows'

(***************************************************************************)
(* Admission never reads a stale spend with respect to answers: when a     *)
(* request is admitted, the costs of the finite requests whose clients     *)
(* have been answered are below the limit.                                 *)
(***************************************************************************)
AnsweredCosts ==
  {a \in Attempts : a[1] \in Finite /\ phase[a[1]] = "answered" /\ result[a] = "priced"}
AdmissionSeesAnswers ==
  \A r \in Finite :
    phase[r] = "claimed" /\ phase'[r] = "admitted" => Cardinality(AnsweredCosts) * Cost < Limit

(***************************************************************************)
(* What later steps rely on stays visible: the rows to recovery, the       *)
(* charges to admission.                                                   *)
(***************************************************************************)
EvidenceKept == [][ReservedRowsKept /\ AdmissionSeesAnswers]_vars

(***************************************************************************)
(* A submitted entry is resolved, by the writer's retries or, after a      *)
(* crash, by recovery.                                                     *)
(***************************************************************************)
EntriesResolve ==
  \A r \in Finite : Queued(r) \/ r \in writing ~> claim[r] \in {"settled", "released"}
=============================================================================
