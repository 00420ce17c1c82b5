# provider-core in TLA+

provider-core is a proxy that takes OpenAI- and Claude-shaped requests, routes
them to upstream provider accounts, streams the answers back, and charges API
keys for them. This directory holds TLA+ models of it, the TLC configurations
that check them on small instances, and TLAPS proofs for every value of the
constants.

`PROJECT.json` has the machine-readable side: components, runs, the map from
definitions to source lines, hazards, findings, mutations and theorems.

## The system and its parts

| part | crates | modules |
| --- | --- | --- |
| inference capacity of an account | runtime | `AccountCapacity` |
| credential refresh, scheduler, installation of accounts | runtime, drivers (Codex), management, storage | `CredentialRefresh` |
| model router, failover, response bindings | runtime, core | `Routing` |
| quota claims, ledger writer, usage writer, recovery | usage, storage, server | `QuotaLedger` |
| account management, quota cache, OAuth logins | management, drivers, storage, server | `Management`, `AccountStore`, `QuotaCache`, `LoginFlow` |
| users, invitations, sessions, API keys | auth, storage, server | `UserAuth` |
| requests of three client protocols to five upstreams | protocol, drivers | `Conversation`, `ClientRequests`, `UpstreamRequests`, `ToolNames` |
| Grok's replay of earlier answers | drivers | `GrokReplay` |
| streamed answers | drivers, protocol, server | `ResponsePipeline`, `ClaudeStream`, `ChatStream`, `ResponsesStream`, `GrokStream`, `AntigravityStream`, `UsageObserver`, `ResponsesEvents`, `UpstreamAnswers`, `ClientView`, `Relay` |
| token counts, costs, prices, catalogue, usage records | core, usage, storage, management | `Usage`, `CatalogRefresh`, `Pricing`, `Metering` |

A request meets them in this order. Its key is looked up (`UserAuth`). Its handler
reserves room in the ledger queue and commits a claim (`QuotaLedger`). The router
plans a list of accounts (`Routing`). The body is translated for the chosen upstream
(`Conversation`, `GrokReplay`). For each candidate the runtime takes a capacity permit
(`AccountCapacity`) and sends with the account's credential, refreshing it after a 401
(`CredentialRefresh`). The answer streams back (`ResponsePipeline`). The attempts are
priced and recorded (`Usage`) and the claim is settled (`QuotaLedger`). Operators
change accounts meanwhile (`Management`).

Where one module needs another part of the system, it takes that part's outcome as a
choice: an upstream call in `Routing` ends with any result that capacity and refresh
could give it.

## Modules

Every `MC` module only supplies constants and symmetry; `credential_refresh` needs none and
runs `CredentialRefresh` itself. Operators introduced by "Mutant"
or "A mutation" are plausible bugs. Replacing the original by one of them makes TLC report
the property paired with it in `PROJECT.json`.

**AccountCapacity** (`runtime.rs`, `AccountInferenceCapacity`). `admission` and
`active` are the free permits of the two semaphores, `st` the stage of each
request, `ahead` the waiters that queued before it. The actions are the steps of
`acquire`, of a dropped future and of a dropped stream. The tokio semaphore is
external and modelled as used: first come, first served.

**QuotaLedger** (`tracking.rs`, `writer.rs`, `usage/repository.rs`, `http.rs`,
`app.rs`). Handlers, both writers, the database, crash and recovery for one API key.
A transaction is one step. Money is abstracted to which attempts' costs were added.
- A COMMIT that reports an error after it became durable is an explicit case for the
  settlement. For an attempt row it equals `LedgerRecord` followed by `LedgerFail`,
  and for the claim the orphan case of `BeginFails`.
- A failed recovery ends the process, which is a `Crash` during recovery.
- Attempts open at a crash count as never sent.

**CredentialRefresh** (`runtime.rs`, `codex/account.rs`, `account_repository.rs`,
`manager.rs`). One OAuth account: every account object built for it, requests and
scheduler workers that refresh through them, the credential row with its revision,
and one management operation. Credentials are numbers, `parent` says what each was
exchanged for. Time is left out.

**Routing** (`router.rs`, `proxy/service.rs`, `catalog.rs`). `Collect` and `Choose` are
the two halves of `routes()`, which holds the cooldowns' mutex throughout. `Dispatch`,
`Answer`, `Failover`, `RecordSuccess` and `CommitAffinity` are the loop of
`execute_stream`. `Created`, `Completed`, `Bind` and `Overflow` are
`observe_response_id`. The remaining actions remove, install and expire accounts, one
lock at a time. Requests are for one model, an account is one candidate, and access
rights are constant. Round-robin cursors are unbounded naturals where the code wraps at
2^64.

**Management** with **AccountStore**, **QuotaCache** and **LoginFlow** (`manager.rs`,
`management_http`, the drivers' `oauth` modules). One account: the handlers that create,
edit, delete and inspect it, the login task, the sweep that reapplies the catalogue, its
row, the object and route the runtime serves from, and the cached quota. An await ends a
step, and a handler may be dropped at one. Discovery touches nothing shared and is part of
the commit after it. `menu` selects the operations and the bounds of a behaviour.

**UserAuth** (`provider-auth/service.rs`, `sqlite/auth.rs`, `auth_http.rs`). Tables of
users, invitations, sessions and keys, the keys held in memory under the mutation lock,
and handlers that stop at every await, meet database errors, are dropped, or see a
restart. `lost`, `blind` and `late` are history: the ways in which memory and rows may
part.

**Conversation** with **ClientRequests**, **UpstreamRequests** and **ToolNames**
(`provider-protocol`, `request*.rs` of the drivers, `responses_history.rs`). A client holds
a history and sends it with every request, each time to any upstream. Texts are numbers, a
name is a sequence of tokens of which at most `NameLimit` fit, a signature is its issuer
and whether it is padded.

**GrokReplay** (`grok/replay.rs`, `grok/account.rs`, `http/request.rs`). The cache of
earlier answers and how a request is completed from it: by response id, by tool outputs,
by item references, or by its session.

**ResponsePipeline** composes a driver (`GrokStream`, `AntigravityStream`, or a
pass-through), the observer (`UsageObserver`) and a translator (`ClaudeStream`,
`ChatStream`, `ResponsesStream`) as the code wraps one stream in another. A converter is a
record; each event yields the next record. `UpstreamAnswers` is external: what upstreams
send. `ClientView` reads what the client gets strictly by its protocol. `Relay` is the
abstract specification: every part in order, each fragment once, completion only after the
last.

**Usage** with **CatalogRefresh**, **Pricing** and **Metering** (`tracking.rs`,
`lifecycle.rs`, `cost.rs`, `price.rs`, `catalog.rs`, `refresh.rs`, `normalize.rs`,
`codec.rs`, `usage_query.rs`). The pure part normalises reported tokens, chooses a price
and computes costs. Around it run trackers, the writer, retention, the paged list and the
overview, and the refresher with the two jobs that carry prices into the accounts' models.

## What the runs show

| run | states | shows |
| --- | --- | --- |
| `account_capacity` | 78,752 | permits are conserved, nobody waits beside a free permit, the queue is bounded (`QueueSound`), nobody is overtaken, and `acquire` ends although no stream has to |
| `quota_ledger` | 979,281 | claims are charged at most once, settled exactly, before the answer, and keep a route to settlement (`LedgerSound`); recovery finds its evidence and admission counts what was answered (`EvidenceKept`) |
| `quota_ledger_mixed` | 688,813 | a lost charge of an unlimited request is admitted somewhere; submitted entries are resolved |
| `credential_refresh` | 4,781,353 | equal revisions mean equal credentials and object and row part only in known ways (`ObjectsFollowRow`); a refresh token is exchanged once; a due account stays scheduled; the row follows the chain of exchanges (`CommitsKept`) |
| `routing` | 868,798 | continuations stay with the account that keeps their state; bindings are exact, bounded, and made before an id is announced; selections share the accounts evenly; planning and failover end |
| `response_pipeline` | 588,223 | the client's protocol is kept; the attempt's report agrees with what the client was told; a stream never ends silently; the pipeline implements `Relay`; idle streams end |
| `user_auth` | 314,475 | an enabled super_admin remains; an invitation makes one user; live sessions are current; keys in memory follow their rows both ways |
| `conversation` | 280,486 | the transcript arrives in order; every output meets its call; reasoning returns only to its issuer, with its own signature; tool names come back as declared, and a forced tool is the one named |
| `grok_replay` | 68,219 | a replay stays in its scope and gives every output one call, before it; a session continues its latest turn |
| `management` | 550,321 | the runtime serves what the row says; a quota view belongs to its credential and a forced one is new; a login has one effect and ends |
| `usage` | 161,774 | complete costs account for every token; a request and its attempts are recorded and deleted as one, and none is left open (`RecordsWhole`); retries are priced alike; prices follow the catalogue; queries read every row once; a pending catalogue is applied |

One run is expected to fail. `catalog_empty_cost` states the comment of `refresh.rs:182`, that a
document which prices nothing is not installed. A document whose models have a cost without any rate
counts as priced and is installed. An attempt priced by it has no cost (`catalog_entry_invalid`, which
is unavailable). The finding in `PROJECT.json` quotes the comment.

### Bounds

- Capacity: five requests on two permits and two queue places fill both semaphores and
  leave one request to refuse.
- Quota: two limited requests with one attempt and a crash, or one limited beside one
  unlimited. Capacities of one or two fill both queues, and a recovery batch of one needs
  several batches. Larger instances were run once without error: two attempts and two crashes
  (36,191 states with fairness), one limited and one unlimited request with two attempts
  (59.2 million), two limited requests with fairness (1.43 million).
- Credentials: two objects (one is replaced), three credentials, two commands, and two faults,
  since a failed write and its failed retry need two.
- Routing: two requests, three accounts of different kinds, two response ids, room for one
  binding so that eviction happens, and either one tick or one change of accounts. Larger ones
  of up to 19.7 million states were run without error.
- Pipeline: all answers of at most two parts and five of three, over ten routes, with five faults.
- Auth: three users, one invitation, one key, two handlers, seven calls, one fault.
- Conversations: at most five parts, one of them an aside; six with a single plain tool, which
  is what a signature needs to wander from one answer into the next. Six parts with every tool
  list (2,033,958 states) were run without error.
- Replay: two keys and two turns, with clients of every protocol, or one key and three turns of a
  Responses client; room for one or two entries and two items; one request open at a time. Every
  protocol in all instances (184,554) was run without error.
- Management: two handlers and the two background tasks, one model, two configurations, two or
  three operations of a menu (edits, quota, logins), one restart. Larger ones of up to 3.9
  million states were run without error.
- Usage: the whole metering chain over 300 usages under five kinds of catalogue with one request;
  the life of a request with two attempts, a fault and a restart; three requests under the pager.

Deadlock is checked for capacity. It is not checked where the system may stop: bounded requests
run once, and an account that requires authorization waits for an operator.

### Fairness

- Capacity: timers fire and woken futures are polled. No stream has to end.
- Quota: the writer and the recovery run (weak fairness). A storable write that is tried for
  ever succeeds eventually (strong fairness). This is an assumption on the database; the
  retry loop of `run_quota_ledger` justifies the repetition.
- Routing: `routes()` and the failover loop are code that runs on, and the upstream answers
  (response header timeouts). No client has to stay and no stream to end.
- Pipeline: the reader polls and timers fire. Upstream has to send nothing. Only Grok and
  Antigravity have an idle timer, so only their streams are said to end.
- Management: a handler that can step does, and deadlines of logins pass. Nobody has to
  authorize a login.
- Usage: the refresher and the jobs run on.

The remaining runs state safety only.

## What is proved

| module | theorems |
| --- | --- |
| `AccountCapacityProofs` | `TypeCorrect`, `Conservation`, `NoWaiterBesideFreePermit`, `QueueNeverExceedsCapacity`, `QueueIsSound`, `NobodyIsOvertaken` |
| `QuotaLedgerProofs` | `InductiveInvariant`, `TypeCorrect`, `NoDoubleCharge`, `ExactSettlement`, `AnswerAfterCharge`, `ClaimHasRoute`, `UnhealthyRetries`, `LedgerIsSound`, `EvidenceIsKept`, `PlainLossIsAdmitted` |
| `CredentialRefreshProofs` | `InductiveInvariant`, `ObjectsStayInStep`, `TokensAreExchangedOnce`, `SchedulesAreKept`, `CommitsAreKept` |
| `UserAuthProofs` | `AuthInvariant`, `AdminAlwaysRemains`, `InvitationsMakeOneUser`, `SessionsStayCurrent`, `KeysAlwaysFollowRows` |
| `RoutingProofs` | `RoutingInvariant`, `ContinuationsStayHome`, `BindingsAlwaysSound` |
| `ManagementProofs` | `ManagementInvariant`, `RuntimeAlwaysFollowsRow`, `QuotaAlwaysCurrent`, `LoginsLeaveOneEffect` |

So every safety property of the runs `account_capacity`, `quota_ledger`, `quota_ledger_mixed`,
`credential_refresh`, `user_auth` and `management`, and of `routing` all but `RoundRobinFair`,
holds for every value of the constants. The assumptions are stated in the modules that declare the
constants, and TLC evaluates them on every run:
- `CapacityAssumption`, `QuotaAssumption` and `RefreshAssumption` give the types of the constants,
  with finite sets of requests where they are counted, and disjoint sets of tasks;
- `AuthAssumption`: the value for a free lock is no handler;
- `RoutingAssumption`: accounts are finitely many positive numbers with priorities, and the kinds of
  accounts are subsets of them;
- `ManagementAssumption`: handlers are distinct from the background tasks and from the value of a free
  gate, there is a configuration, and the kinds of logins are those of `LoginFlow`.

Each `IInv` below was model-checked on the instance of its run before it was proved.

*Capacity.* The invariant is `Types /\ PermitsConserved /\ NoLostWakeup`. The queue bound is no
part of it: when somebody waits, `NoLostWakeup` says all active permits are taken, and
conservation of the admission permits leaves `QueueCapacity` places for waiters. That nobody is
overtaken follows from the order `ahead` keeps.

*Quota.* None of the properties is inductive. `IInv` adds what
holds between them: for each limited request, which of permit, queue place and writer owns it in
each phase (`ClaimInv`), and which costs may have been added given the claim's state, the entry
and the rows (`CostInv`); for unlimited ones `PlainInv`; and what each recovery stage leaves
behind (`ProcessInv`). There is one lemma per action of handlers, writers, crash and recovery.
`EvidenceKept` is an action property. It follows from the invariant and the
step, with the finite cardinality of the charged attempts for what admission sees.

*Credentials.* `IInv` (in `CredentialRefreshInvariant`) has six parts.
- `GateInv`: one task at a time is past the gate of an object.
- `TaskInv` says per stage what a task's snapshot still means. What it read first is no newer than
  what it sent with, and that is no newer than the object's generation. Equal generations mean equal
  credentials. Past the gate the snapshot is the object's credential, and an update under way is
  based on it.
- `ObjectInv` says of each object how its pending update, revision and credential relate to the row,
  and that a token presented by it is lost, being exchanged, or no longer its own.
- `ManagerInv` relates the candidate of an operation to the row it was loaded from.
- `BehindInv` says where the installed object and the row may part.
- `ScheduleInv` says who will put a due account back into the queue.

Two ideas carry the proof. A revision that names a credential keeps naming it, because the row's
revision only grows and each step of it has one author (`Names`, `Continues`). And a step of one task
leaves every other object and task as they were, which frame lemmas state once (`WorksKeepsIInv`,
`ObjectFrame`, `GateFrame`). One lemma per action follows, of the requests and the refreshing task in
`CredentialRefreshInvariant`, of scheduler and manager in `CredentialRefreshProofs`.

*Users and keys.* Of the properties only `SessionsAreCurrent` is part of `IInv` as it stands
(`UserAuthTableProofs`, which also has the lemmas about tables and the actions that touch no key).
- `AdminInv`: before the setup there is nothing at all, so no handler can be on its way with a user
  of an earlier life. After it, the guards of the statements that demote, disable and delete leave an
  admin. What a handler read before its await is never needed for this.
- `InviteInv` names the user each closed invitation made, from which the cardinality follows.
- `LockInv` and `HolderInv`: the lock's holder is the one handler past taking it, and what it took out
  of memory is what the rows said when it took it.
- `KeyInv`: every cached key is backed by its row, or by a committed revocation that a failed answer
  hid (`blind`), or by an owner disabled meanwhile (`late`); every enabled row is cached, taken by the
  holder, or `lost`.

*Routing.* `IInv` has the shape of `ResponseBindings`: the queue lists every bound id once, with the
time of its binding (`QueueInv`), and an id is bound to an account that announced it (`HomeInv`). Lemmas show that removing expired and oldest entries and inserting keep this. `PlanInv`
says that a request is at an account of its plan and, for a continuation, that a stateful account
in the plan announced the id; `StreamInv` what an open stream has announced and bound. Rotation, sorting and
moving an account to the front only permute a plan, which is all the invariant needs of them.

*Management.* `RuntimeFollowsRow` and the others speak of states in which nothing is under way, so
`IInv` has to say what everything under way still has to do.
- `IdentityInv`: a revision of the credential belongs to one login, recorded in history and never
  rewritten. Equal revisions therefore mean equal logins wherever they were read (`Backed`).
- `ObjectInv` and `QuotaInv`: an object, a refresh under way, a cached entry and an observation carry a
  revision that is backed in this sense. This is why a quota answer fetched with an old credential
  cannot be filed under a new login.
- `JobInv`: what a job knows at each stage, and that it has the account's gate. The row it loaded still
  has the settings and the login of the present one, since only refreshes write the row beside it. Creation is the exception, as it takes no gate (`KnownInv`
  says nothing else happens before it).
- `RunInv`: object and route equal what the row gives, or the holder of the gate will install,
  publish or remove them, or `behind` and `broken` record that the code left them.
- `LoginInv`: the session's state, the task's stage and the number of effects agree.

One lemma per action keeps `IInv`. Rows, entries and jobs are typed as sets of records, and steps on
them are shown to stay in these sets once (`RowWritten`, `SnapshotWritten`, `Discovered`).

### Only model-checked

- Liveness (`AcquireEnds`, `EntriesResolve`, `PlansEnd`, `IdleStreamEnds`, `LoginEnds`,
  `PendingIsApplied`): TLAPS proves no liveness under fairness here.
- `Conversation`, `GrokReplay`, `ResponsePipeline` and the pure part of `Usage` fold over sequences.
  What a fold computes for every input needs induction over data, which is out of reach here.
- `RoundRobinFair` counts the first choices of all plans made so far. Its proof needs the count over a
  set of requests as a function of the cursor modulo the length of a tier, an induction over the turns.
- The safety properties of the catalogue (`CatalogFollowed`): not proved.

## Behaviours worth knowing

The models show these; no property excludes them, since the code does not.

Quota
- When the wall clock steps back within an attempt, its row violates a CHECK of the migration
  (`tracking.rs:649`, `0001_initial.sql:252-256`) and its ledger entry is retried for ever.
  `EntriesResolve` speaks of storable entries.
- A handler dropped while the claim's COMMIT is awaited leaves a claim without a tracker until the
  next start (`tracking.rs:189`); `RouteToSettlement` names the case.
- Recovery releases dispatched claims whose cost was not durable (`repository.rs:637`, where
  `app.rs:162-164` speaks of settling them), and deletes requests left in flight.

Credentials
- A replaced object has a gate and a generation of its own. A request on the old object and the
  scheduler on the new one may exchange the same token.
- A request dropped between the token endpoint's answer and the write loses the rotated token, and so
  does a process that ends while a pending update is in memory. An edit that is built from the row
  abandons a pending update of the installed object.
- A rejection reported by a replaced object takes the account out of the scheduler until the next
  refused request or edit (`cut`).

Routing
- Requests that open a session together may be planned to different accounts, and the last one to
  commit keeps the session.

Management
- Creation takes no gate, so a deletion that runs into it may leave an object without a row.
- A PATCH fills the fields it does not name from a read before the gate and may undo another edit.
- A handler dropped between commit and install leaves the runtime behind the row.
- A changed configuration whose discovery fails keeps the old models. `oauth_sessions` is never
  evicted. A second callback of Antigravity is accepted and ignored. Grok may poll once after expiry.

Auth
- `set_user_enabled` and `delete_user` take the cached keys out before they check who is asking; a
  dropped handler then leaves them out (`lost`).

Answers
- A Claude client of an Antigravity carrier gets the carrier's signature on the open thinking block.
- A second unstreamed message is lost because `emitted_text` is never reset.
- After a Chat upstream's `[DONE]` without a `finish_reason` the observer reports success while the
  client is told of a failure.
- The pass-through drivers have no idle timeout.

Requests
- Of Antigravity tools with the same identity the last one wins in names and the first in declarations.
- `normalize_input` drops the namespace of a custom call (`Ambiguous`), and a pending signature survives
  an answer that was cut off (`Silent`); the properties name both.
- Antigravity's Claude models get the mode VALIDATED whenever tools are declared
  (`antigravity/request/mod.rs:144-156`). It takes the place of the mode the client's `tool_choice`
  asked for: a forced tool is still the only one allowed, but the model need not call it, and `none`
  no longer forbids calls. `ToolsRoundTrip` says what is sent.
- The retry after Grok could not decrypt strips the request as it was before the driver prepared it
  (`grok/request.rs:135-190`). Reasoning of another upstream, which the first request left out, goes
  out in the second as an item without content.
- Between a Chat client and a Chat upstream nothing is translated or checked.
- A turn whose client hung up, or whose answer has no response id, leaves nothing to replay.

Usage
- Recovery deletes the requests an earlier run left in progress and counts them as a gap, while the
  trait's comment (`provider-usage/src/repository.rs:270-272`) still speaks of closing them as
  `incomplete`.
- A handler dropped while its begin is written, and a request whose terminal was not written, stay in
  progress until the next start; `RecordsWhole` names both.
- The overview fails when the stored cache reads of a period exceed its input.
- Only the final attempt's cost shows in the overview. A number above the column's range reads back as
  unknown. The validators of an unchanged catalogue are not stored.
- A tracker prices with the catalogue of its start, also when a newer one is installed meanwhile.

## Not modelled

- The drain of the usage writer at shutdown, and retention of ledger entries, gaps and observations.
- Antigravity's variant of the refresh, and the identity writes of drivers; Grok's refresh has the
  control of the Codex one.
- `compute_maximum_text_request_cost`, which only its tests call.
- Login rate limits, password hashing, expiry of sessions by time.
- Parsing of quota and model answers, HTTP presentation, read-only queries, codecs, encryption and
  configuration: data without control that the properties could tell apart.
