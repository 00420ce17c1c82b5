--------------------------------- MODULE Usage ---------------------------------
(***************************************************************************)
(* The usage record of a request, from its first to its last reader: the   *)
(* logical tracker and its attempts (crates/provider-usage/src/tracking.rs *)
(* and lifecycle.rs) as the server and the runtime drive them              *)
(* (crates/provider-server/src/http.rs, crates/provider-runtime/src/       *)
(* runtime.rs), the writer's queue, the two tables, retention and the      *)
(* queries over them (crates/provider-storage/src/usage_query.rs), while   *)
(* the catalogue changes underneath.                                       *)
(***************************************************************************)
EXTENDS CatalogRefresh

CONSTANTS MaxRequest,  \* request ids are 1..MaxRequest, begun in any order
          Usages       \* [name -> the usage an upstream may report]

VARIABLES clock,
          req,      \* [1..MaxRequest -> the tracker and where its handler is]
          att,      \* [1..MaxRequest -> the open attempt, or Absent]
          queue,    \* the writer's channel, in submission order
          logical,  \* usage_logical_requests
          attempts, \* usage_attempts
          pager     \* a client walking through the request list

usageVars == <<clock, req, att, queue, logical, attempts, pager>>
vars == <<catalogVars, usageVars>>

Requests == 1..MaxRequest

NewRequest == [at |-> "new", gap |-> FALSE, body |-> Absent, route |-> Absent, acct |-> Absent,
               own |-> Absent, next |-> 1, final |-> Absent, finalExecution |-> Absent,
               execution |-> Absent, delivery |-> Absent, sent |-> FALSE,
               lost |-> FALSE]  \* history: a fact of it was not written
NoPager == [at |-> "idle", cursor |-> Absent, listed |-> <<>>, promised |-> {}]

UsageInit ==
  /\ clock = 1
  /\ req = [r \in Requests |-> NewRequest]
  /\ att = [r \in Requests |-> Absent]
  /\ queue = <<>>
  /\ logical = [r \in Requests |-> Absent]
  /\ attempts = {}
  /\ pager = NoPager

(***************************************************************************)
(* Closing an attempt and finishing a request.                             *)
(***************************************************************************)
\* What an account's own models say of a model's price.
OwnPrices(a) == [m \in Models |-> IF m = Listing[a].model THEN routed[a] ELSE Absent]

\* model_disagrees: some upstreams answer with a decorated name of the same model.
ModelDisagrees(a, reported) ==
  reported # Absent /\ reported \notin {Listing[a].model, Listing[a].build}

\* Mutant of AttemptPrice: the catalogue of the moment, not the request's.
PriceOfTheMoment(r, t) ==
  ResolveAttemptPrice(t.route, t.reported, Listing[t.acct].alias, t.own, Parsed(memory))

AttemptPrice(r, t) ==
  ResolveAttemptPrice(t.route, t.reported, Listing[t.acct].alias, t.own, Parsed(req[r].body))

\* AttemptTracker::close: normalised, priced, and only then a fact.
AttemptFacts(r, t) ==
  LET contract == Listing[t.acct].contract
      price == AttemptPrice(r, t)
      byReport == PricedByReport(t.route, t.reported, t.own, Parsed(req[r].body))
                    /\ price.kind = "resolved"
      bare == NormalizeUsage(t.usage, contract)
      seen == [bare EXCEPT !.warnings = IF ModelDisagrees(t.acct, t.reported) /\ ~byReport
                                        THEN @ \union {"model_mismatch"} ELSE @]
  IN [kind |-> "attempt", r |-> r, seq |-> t.seq, acct |-> t.acct, reported |-> t.reported,
      evidence |-> t.evidence, tracking |-> t.tracking, price |-> price, obs |-> seen,
      outcome |-> IF t.outcome # Absent THEN t.outcome ELSE IF t.success THEN "succeeded" ELSE "failed",
      cost |-> IF t.evidence = "not_invoked" THEN NotDispatched
               ELSE ObservedCost(seen, contract, price)]

ExecutionOutcome(t) ==
  CASE t.evidence = "not_invoked" -> "stable_failure"
    [] t.evidence # "not_invoked" /\ t.success -> "stable_success_terminal"
    [] OTHER -> "eof_without_success_terminal"

NoteFinalAttempt(q, t) ==
  IF q.final # Absent /\ t.seq <= q.final THEN q
  ELSE [q EXCEPT !.final = t.seq, !.finalExecution = ExecutionOutcome(t)]

MergeLogicalTerminal(execution, delivery) ==
  CASE delivery = "client_drop" ->
         IF execution = "stable_success_terminal" THEN "succeeded" ELSE "canceled"
    [] delivery = "error_before_bytes" -> "failed"
    [] OTHER ->
         CASE execution = "stable_success_terminal" ->
                IF delivery = "clean_eof" THEN "succeeded" ELSE "incomplete"
           [] execution = "stable_failure" -> "failed"
           [] OTHER -> "incomplete"

\* LogicalTracker::finish, once the outcomes are noted.
Terminal(r, q) ==
  LET execution == CASE q.execution # Absent -> q.execution
                     [] q.execution = Absent /\ q.final # Absent -> q.finalExecution
                     [] OTHER -> "eof_without_success_terminal"
  IN [kind |-> "terminal", r |-> r, completed |-> clock, final |-> q.final, gap |-> q.gap,
      delivery |-> q.delivery, status |-> MergeLogicalTerminal(execution, q.delivery)]

\* The tracker q of r, its attempt t closed if there is one, and the request over.
Finished(r, q, t) ==
  LET closed == IF t = Absent THEN q ELSE NoteFinalAttempt(q, t)
  IN /\ req' = [req EXCEPT ![r] = [closed EXCEPT !.at = "finished"]]
     /\ att' = [att EXCEPT ![r] = Absent]
     /\ queue' = queue \o (IF t = Absent THEN <<>> ELSE <<AttemptFacts(r, t)>>)
                       \o <<Terminal(r, closed)>>

\* finish_before_bytes.
FinishBeforeBytes(r) ==
  Finished(r, [req[r] EXCEPT !.execution = "stable_failure", !.delivery = "error_before_bytes"],
           Absent)

(***************************************************************************)
(* The handler and the runtime under it.                                   *)
(***************************************************************************)
\* begin_request is fail-open, and freezes the installed catalogue after the write.
\* A handler dropped in the write has no tracker yet: nothing will close its row.
Begin(r, how) ==
  /\ r \in Bound.requests /\ req[r].at = "new"
  /\ ref.at \notin {"boot", "initial", "fetch_initial", "store_initial", "install_initial", "serve"}
  /\ Outcome(how # "fault")
  /\ logical' = [logical EXCEPT ![r] = IF how = "fault" THEN Absent
                                       ELSE [status |-> "in_progress", completed |-> Absent,
                                             final |-> Absent, gap |-> FALSE, delivery |-> Absent]]
  /\ req' = [req EXCEPT ![r] = IF how = "dropped" THEN [@ EXCEPT !.at = "orphan"]
                               ELSE [@ EXCEPT !.at = "begun", !.body = memory, !.gap = how = "fault"]]
  /\ UNCHANGED <<clock, att, queue, attempts, pager>>

\* Nothing routes it: a malformed body, a refused key, no candidate.
Reject(r) ==
  /\ req[r].at = "begun"
  /\ FinishBeforeBytes(r)
  /\ UNCHANGED <<clock, logical, attempts, pager>>

\* prepare_stream: every candidate takes its model's price along. An optimistic
\* route of an undiscovered model has none.
Plan(r, priced) ==
  /\ req[r].at = "begun"
  /\ req' = [req EXCEPT ![r].at = "planned",
                        ![r].route = [a \in Accounts |-> IF priced THEN ModelPriceResolution(routed[a])
                                                         ELSE MappingMissing]]
  /\ UNCHANGED <<clock, att, queue, logical, attempts, pager>>

\* begin_attempt. The first call on a candidate reads its account's prices; a
\* retry on the same account keeps them.
OpenAttempt(r, a) ==
  /\ \/ req[r].at = "planned"
     \/ req[r].at = "between" /\ req[r].next <= Bound.attempts
  /\ LET own == IF a = req[r].acct THEN req[r].own ELSE OwnPrices(a)
     IN /\ req' = [req EXCEPT ![r].at = "calling", ![r].next = @ + 1, ![r].acct = a, ![r].own = own]
        /\ att' = [att EXCEPT ![r] =
                     [seq |-> req[r].next, acct |-> a, route |-> req[r].route[a], own |-> own,
                      evidence |-> "not_invoked", usage |-> Absent, reported |-> Absent,
                      terminal |-> "none", success |-> FALSE, outcome |-> Absent,
                      tracking |-> "complete"]]
  /\ UNCHANGED <<clock, queue, logical, attempts, pager>>

\* execute_stream returned an error: AttemptTracker::fail.
CallFails(r, answered) ==
  /\ req[r].at = "calling"
  /\ LET t == [att[r] EXCEPT !.evidence = IF answered THEN "response_observed" ELSE "dispatch_invoked",
                             !.outcome = "failed"]
     IN /\ queue' = Append(queue, AttemptFacts(r, t))
        /\ req' = [req EXCEPT ![r] = [NoteFinalAttempt(@, t) EXCEPT !.at = "between"]]
  /\ att' = [att EXCEPT ![r] = Absent]
  /\ UNCHANGED <<clock, logical, attempts, pager>>

GiveUp(r) ==
  /\ req[r].at = "between"
  /\ FinishBeforeBytes(r)
  /\ UNCHANGED <<clock, logical, attempts, pager>>

StreamOpened(r) ==
  /\ Bound.streams
  /\ req[r].at = "calling"
  /\ req' = [req EXCEPT ![r].at = "streaming"]
  /\ att' = [att EXCEPT ![r].evidence = "response_observed"]
  /\ UNCHANGED <<clock, queue, logical, attempts, pager>>

\* The frames the observer reads: usage, a model, a terminal. What the translator
\* has passed on by then is its own affair.
Observe(r, usage, reported, terminal, sent) ==
  /\ req[r].at = "streaming" /\ att[r].terminal = "none" /\ att[r].tracking = "complete"
  /\ req' = [req EXCEPT ![r].sent = sent]
  /\ att' = [att EXCEPT ![r].usage = usage, ![r].reported = reported, ![r].terminal = terminal]
  /\ UNCHANGED <<clock, queue, logical, attempts, pager>>

\* A frame too large to decode ends the observation, not the response.
ObservationLost(r) ==
  /\ req[r].at = "streaming" /\ att[r].terminal = "none" /\ att[r].tracking = "complete"
  /\ Bound.drops
  /\ att' = [att EXCEPT ![r].tracking = "observation_lost"]
  /\ req' = [req EXCEPT ![r].sent = TRUE]
  /\ UNCHANGED <<clock, queue, logical, attempts, pager>>

\* report_finished, and report_cancelled when the stream is dropped: a terminal
\* that was seen counts either way.
ReportedEnd(t, eof) ==
  IF eof \/ t.terminal # "none" THEN [t EXCEPT !.success = t.terminal = "yes"]
  ELSE [t EXCEPT !.outcome = "cancelled",
                 !.tracking = IF @ = "complete" THEN "ambiguous_cancel" ELSE @]

\* observe_delivery: the attempt is closed before the request is.
StreamEnds(r, how) ==
  /\ req[r].at = "streaming"
  /\ how = "client_drop" => Bound.drops
  /\ LET delivery == CASE how = "eof" -> "clean_eof"
                       [] how = "client_drop" -> "client_drop"
                       [] how = "error" -> IF req[r].sent THEN "error_after_bytes"
                                           ELSE "error_before_bytes"
         q == [req[r] EXCEPT !.delivery = delivery,
                             !.execution = IF how = "error" THEN "translator_or_stream_error" ELSE @]
     IN Finished(r, q, ReportedEnd(att[r], how = "eof"))
  /\ UNCHANGED <<clock, logical, attempts, pager>>

\* The handler is dropped before there is a body: the trackers' Drop, the attempt's first.
DropHandler(r) ==
  /\ Bound.drops
  /\ req[r].at \in {"begun", "planned", "calling", "between"}
  /\ Finished(r, [req[r] EXCEPT !.delivery = "client_drop"],
              IF att[r] = Absent THEN Absent
              ELSE [att[r] EXCEPT !.tracking = "ambiguous_cancel", !.outcome = "cancelled"])
  /\ UNCHANGED <<clock, logical, attempts, pager>>

(***************************************************************************)
(* The writer and the tables.                                              *)
(***************************************************************************)
Stored(fact) ==
  [r |-> fact.r, seq |-> fact.seq, acct |-> fact.acct, reported |-> fact.reported,
   evidence |-> fact.evidence, outcome |-> fact.outcome, price |-> fact.price,
   obs |-> JoinObservation(SplitObservation(fact.obs), fact.obs.billable, fact.obs.warnings),
   cost |-> StorableCost(fact.cost)]

\* apply: a write that fails, or finds no request row, is a gap and nothing else. A
\* fact that a full queue sheds is lost in the same way.
WriteFact(ok) ==
  /\ queue # <<>>
  /\ Outcome(ok)
  /\ LET fact == Head(queue)
         row == logical[fact.r]
         lands == ok /\ row # Absent
     IN /\ attempts' = IF lands /\ fact.kind = "attempt" THEN attempts \union {Stored(fact)}
                       ELSE attempts
        /\ logical' = IF lands /\ fact.kind = "terminal" /\ row.status = "in_progress"
                      THEN [logical EXCEPT ![fact.r] =
                              [status |-> fact.status, completed |-> fact.completed,
                               final |-> fact.final, gap |-> fact.gap, delivery |-> fact.delivery]]
                      ELSE logical
        /\ req' = IF ok THEN req ELSE [req EXCEPT ![fact.r].lost = TRUE]
  /\ queue' = Tail(queue)
  /\ UNCHANGED <<clock, att, pager>>

\* A restart: nothing in memory survives, and before anything is served
\* recover_in_flight_requests deletes what an earlier run left open. The attempts
\* go with their request (ON DELETE CASCADE); the gap that is counted for it is
\* QuotaLedger's.
InProgress == {r \in Requests : logical[r] # Absent /\ logical[r].status = "in_progress"}
MemoryLost ==
  /\ req' = [r \in Requests |-> IF req[r].at = "new" THEN NewRequest
                                ELSE [NewRequest EXCEPT !.at = "gone", !.lost = req[r].lost]]
  /\ att' = [r \in Requests |-> Absent]
  /\ queue' = <<>>
  /\ UNCHANGED <<clock, pager>>

\* Mutant of RestartUsage: the rows of requests with an attempt are kept.
RestartKeepsAttempted ==
  LET open == {r \in InProgress : ~\E t \in attempts : t.r = r}
  IN /\ MemoryLost
     /\ logical' = [r \in Requests |-> IF r \in open THEN Absent ELSE logical[r]]
     /\ UNCHANGED attempts

RestartUsage ==
  /\ MemoryLost
  /\ logical' = [r \in Requests |-> IF r \in InProgress THEN Absent ELSE logical[r]]
  /\ attempts' = {t \in attempts : t.r \notin InProgress}

Tick ==
  /\ clock < Bound.time
  /\ clock' = clock + 1
  /\ UNCHANGED <<req, att, queue, logical, attempts, pager>>

(***************************************************************************)
(* Retention and the queries.                                              *)
(***************************************************************************)
Completed == {r \in Requests : logical[r] # Absent /\ logical[r].status # "in_progress"}
\* In the order of the index: the later completion first, the greater id first.
Before(x, y) == \/ logical[x].completed > logical[y].completed
                \/ logical[x].completed = logical[y].completed /\ x > y

\* delete_logical_requests_before, one batch: the oldest first, attempts with them.
Retain ==
  LET expired == {r \in Completed : logical[r].completed < clock - Bound.window}
      batch == {r \in expired : Cardinality({x \in expired : Before(r, x)}) < Bound.batch}
  IN /\ batch # {}
     /\ logical' = [r \in Requests |-> IF r \in batch THEN Absent ELSE logical[r]]
     /\ attempts' = {t \in attempts : t.r \notin batch}
     /\ UNCHANGED <<clock, req, att, queue, pager>>

\* scoped_dispatched_requests_from.
Dispatched == {r \in Completed : \E t \in attempts : t.r = r /\ t.evidence # "not_invoked"}

StartPaging ==
  /\ Bound.limit > 0 /\ pager.at = "idle"
  /\ pager' = [NoPager EXCEPT !.at = "paging", !.promised = Dispatched]
  /\ UNCHANGED <<clock, req, att, queue, logical, attempts>>

\* Mutant of After: a page starts at an earlier completion than the last one ended.
AfterCompletion(r, cursor) == cursor = Absent \/ logical[r].completed < cursor.completed

\* The keyset condition.
After(r, cursor) ==
  \/ cursor = Absent
  \/ logical[r].completed < cursor.completed
  \/ logical[r].completed = cursor.completed /\ r < cursor.r

\* requests: limit + 1 rows are read, and the extra one only says there is more.
NextPage ==
  /\ pager.at = "paging"
  /\ LET rows == SetToSortSeq({r \in Dispatched : After(r, pager.cursor)}, Before)
         page == SubSeq(rows, 1, IF Len(rows) < Bound.limit THEN Len(rows) ELSE Bound.limit)
         more == Len(rows) > Bound.limit
         last == page[Len(page)]
     IN pager' = [pager EXCEPT !.listed = @ \o page,
                               !.at = IF more THEN "paging" ELSE "done",
                               !.cursor = IF more THEN [completed |-> logical[last].completed, r |-> last]
                                          ELSE @]
  /\ UNCHANGED <<clock, req, att, queue, logical, attempts>>

\* scoped_from: the final attempts whose tokens and cost an overview sums.
OverviewRows ==
  {t \in attempts :
     /\ logical[t.r].status \in {"succeeded", "incomplete"}
     /\ t.seq = logical[t.r].final
     /\ t.obs.billable \/ \E f \in Metrics \ {"context"} : IsKnown(t.obs[f]) /\ t.obs[f].n > 0}

\* cache_totals: both sides of the ratio from the same attempts.
CacheTotals ==
  LET both == {t \in OverviewRows : IsKnown(t.obs.effective) /\ IsKnown(t.obs.read)}
      sum(f) == FoldSet(LAMBDA t, n : n + t.obs[f].n, 0, both)
  IN [input |-> sum("effective"), read |-> sum("read")]
OverviewFails == CacheTotals.read > CacheTotals.input

(***************************************************************************)
(* The specification.                                                      *)
(***************************************************************************)
RequestStep(r) ==
  \/ Reject(r) \/ GiveUp(r) \/ StreamOpened(r) \/ ObservationLost(r) \/ DropHandler(r)
  \/ \E priced \in Bound.priced : Plan(r, priced)
  \/ \E a \in Bound.accounts : OpenAttempt(r, a)
  \/ \E answered \in Bound.answered : CallFails(r, answered)
  \/ /\ req[r].at = "streaming"
     /\ \E u \in Usages[Bound.usages], m \in Bound.reported, v \in Bound.verdicts, sent \in Bound.sent :
          Observe(r, u, m, v, sent)
  \/ \E how \in {"eof", "error", "client_drop"} : StreamEnds(r, how)

UsageNext ==
  \/ \E r \in Requests : RequestStep(r) /\ UNCHANGED catalogVars
  \/ \E r \in Requests, how \in {"ok", "fault", "dropped"} :
       /\ how = "dropped" => Bound.drops
       /\ Begin(r, how)
       /\ UNCHANGED <<menu, published, stored, memory, routed, ref, job, pending>>
  \/ \E ok \in BOOLEAN :
       WriteFact(ok) /\ UNCHANGED <<menu, published, stored, memory, routed, ref, job, pending>>
  \/ (Tick \/ Retain \/ StartPaging \/ NextPage) /\ UNCHANGED catalogVars

Next ==
  \/ UsageNext
  \/ /\ \/ \E body \in Bound.bodies, tagged \in BOOLEAN : Publish(body, tagged)
        \/ RefresherStep
        \/ \E p \in Jobs : JobStep(p)
     /\ UNCHANGED usageVars
  \/ RestartCatalog /\ RestartUsage

Init == menu \in DOMAIN Menu /\ CatalogInit /\ UsageInit

\* The refresher's loop and the jobs are tasks of their own, which nothing holds up.
Fairness == /\ WF_vars(RefresherStep /\ UNCHANGED usageVars)
            /\ \A p \in Jobs : WF_vars(JobStep(p) /\ UNCHANGED usageVars)
Spec == Init /\ [][Next]_vars /\ Fairness

(***************************************************************************)
(* Properties of the record.                                               *)
(***************************************************************************)
\* The whole output of the metering chain: a cost that claims to be complete,
\* under a rule with an input and an output rate, was computed from usage the
\* provider reported, and the tokens it prices add up to the provider's own
\* total. Audio is metered outside the total, and a number too large to store is
\* read back as unknown (normalize.rs, normalize_usage; cost.rs,
\* compute_observed_catalog_cost; codec.rs).
CompleteAccounts ==
  \A t \in attempts :
    LET o == t.obs
        rates == PricesForContext(t.price.pricing, o.context)
        amount(m) == IF IsKnown(m) THEN m.n ELSE 0
    IN (/\ t.cost.status = "complete"
        /\ rates.uncached # Absent /\ rates.output # Absent
        /\ amount(o.audio) = 0
        /\ \A f \in Metrics : o[f].k # "invalid")
       => /\ IsKnown(o.uncached) /\ IsKnown(o.output)
          /\ IsKnown(o.total) =>
               amount(o.uncached) + amount(o.read) + amount(o.write) + amount(o.output) = o.total.n

\* Two attempts of one request on one account whose upstream named the same model
\* are priced by the same rule, whatever the catalogue did between them
\* (tracking.rs, resolve_attempt_price and the frozen snapshot).
RetriesPricedAlike ==
  \A t, u \in attempts :
    (t.r = u.r /\ t.acct = u.acct /\ t.reported = u.reported) => t.price = u.price

\* A request is recorded as succeeded only if the last call it made upstream saw
\* the success terminal; it names that call; and a success the client was not
\* told an error about is never recorded as failed or canceled (tracking.rs,
\* note_final_attempt and finish; lifecycle.rs, merge_logical_terminal).
TerminalTellsLast ==
  \A r \in Requests :
    logical[r] # Absent /\ logical[r].status # "in_progress" =>
      LET own == {t \in attempts : t.r = r}
          last == CHOOSE t \in own : \A u \in own : u.seq <= t.seq
      IN own # {} =>
           /\ logical[r].final >= last.seq
           /\ logical[r].final = last.seq =>
                /\ logical[r].status = "succeeded" => last.outcome = "succeeded"
                /\ last.outcome = "succeeded" =>
                     \/ logical[r].status = "succeeded"
                     \/ logical[r].delivery \in {"error_before_bytes", "error_after_bytes"}

\* What the two tables say of a request is one whole, whatever was cut short: an
\* attempt has its request; a completed request has all its attempts, unless a
\* write of it failed, since they are submitted before its terminal and deleted
\* with it; and a request is in progress only while somebody is going to complete
\* it. The code has two exceptions to the last, which stay open until the next
\* start deletes them: a handler dropped while its begin was written, and a fact
\* that was lost (tracking.rs, begin_request and finish; writer.rs, apply;
\* repository.rs, recover_in_flight_requests).
RecordsWhole ==
  /\ \A t \in attempts : logical[t.r] # Absent
  /\ \A r \in Completed :
       LET final == IF logical[r].final = Absent THEN 0 ELSE logical[r].final
       IN req[r].lost \/ {t.seq : t \in {u \in attempts : u.r = r}} = 1..final
  /\ \A r \in InProgress :
       \/ req[r].at \in {"begun", "planned", "calling", "between", "streaming", "orphan"}
       \/ req[r].lost
       \/ \E i \in DOMAIN queue : queue[i].kind = "terminal" /\ queue[i].r = r

\* What is recorded of a request is consistent over its attempts.
AttemptsAgree == RetriesPricedAlike /\ TerminalTellsLast

\* A client that walks the request list meets every request that was there when
\* it began and has not expired, once, however many requests complete, and
\* however many batches retention deletes, between its pages (usage_query.rs,
\* requests).
PagesComplete ==
  /\ \A i, j \in DOMAIN pager.listed : i # j => pager.listed[i] # pager.listed[j]
  /\ pager.at = "done" =>
       \A r \in pager.promised : logical[r] # Absent => \E i \in DOMAIN pager.listed : pager.listed[i] = r

\* The overview of an owner fails for one reason only: an upstream that reported
\* more cached input than input, which is kept with a field conflict
\* (usage_query.rs, cache_totals; normalize.rs).
OverviewReads ==
  OverviewFails => \E t \in OverviewRows : "field_conflict" \in t.obs.warnings

\* The pages and totals an owner reads are complete.
QueriesRead == PagesComplete /\ OverviewReads
================================================================================
