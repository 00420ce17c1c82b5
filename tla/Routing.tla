------------------------------- MODULE Routing -------------------------------
(***************************************************************************)
(* How a request finds an account: ProviderModelRouter with its cooldowns, *)
(* session affinities, round-robin cursors and response bindings, and the  *)
(* failover loop of PreparedProxyExecution, for requests of one model,     *)
(* while accounts are removed and installed.                               *)
(*                                                                         *)
(* An account is a number, so that the order of account ids is the order   *)
(* of numbers. A cooldown is the time it ends at, 0 for none.              *)
(***************************************************************************)
EXTENDS Sequences, FiniteSetsExt

CONSTANTS
  Accounts,         \* account ids, numbers from 1
  Priority,         \* Priority[a], lower first
  Codex,            \* accounts that continue a response by its id
  Tracked,          \* accounts whose response ids are observed
  Native,           \* accounts that need no conversion of the request
  Exact,            \* accounts that list the model
  Relay,            \* OpenAI-compatible accounts that do not know the model
  Scopes,           \* routing scopes: API keys
  Allowed,          \* Allowed[s]: the accounts a scope may use
  Sessions,         \* session ids
  ResponseIds,      \* response ids upstreams announce
  NoSession, NoId,
  Requests,
  Cooldown,         \* Cooldown[reason], in ticks
  AffinityTTL, CleanupInterval, BindingTTL,
  MaxBindings,      \* MAX_RESPONSE_BINDINGS
  Menu              \* instances; each bounds the removals, installations and rejections
                    \* of accounts (changes, of the touched ones) and the clock (time),
                    \* and says what requests name (sessions, ids) and upstreams give
                    \* for retry-after

Reasons == {"auth", "quota", "rate", "capacity", "preconnect"}
CooldownReasons == Reasons \ {"capacity"}

ASSUME RoutingAssumption ==
  /\ Accounts \subseteq Nat \ {0} /\ IsFiniteSet(Accounts)
  /\ Priority \in [Accounts -> Nat]
  /\ Codex \subseteq Tracked /\ Tracked \subseteq Accounts
  /\ Native \subseteq Accounts
  /\ Exact \subseteq Accounts /\ Relay \subseteq Accounts /\ Exact \cap Relay = {}
  /\ Allowed \in [Scopes -> SUBSET Accounts]
  /\ NoSession \notin Sessions /\ NoId \notin ResponseIds
  /\ Cooldown \in [CooldownReasons -> Nat]
  /\ AffinityTTL \in Nat /\ CleanupInterval \in Nat /\ BindingTTL \in Nat
  /\ MaxBindings \in Nat \ {0}
  /\ Menu \subseteq [changes : Nat, touched : SUBSET Accounts, time : Nat,
                     sessions : SUBSET Sessions, ids : SUBSET ResponseIds, retryAfter : SUBSET Nat]

VARIABLES
  now,         \* Instant::now()
  registered,  \* accounts in the runtime's map
  routed,      \* accounts in the router's map, as objects with a usable credential
  available,   \* accounts whose object in the runtime has a usable credential
  admin,       \* how far the removal or installation of an account is
  changes,     \* how many of them happened
  cooldowns,   \* by account
  affinities,  \* by scope and session: an account (0 for none) and its last use
  cleaned,     \* last_cleanup, 0 for None, else the time plus 1
  selections,  \* round-robin cursors, by scope and priority
  entries,     \* response bindings by scope and id: an account (0 for none) and a time
  oldest,      \* oldest_first
  request,     \* what each request is doing
  origin,      \* history: origin[id], the accounts that announced the id
  gone,        \* history: bindings that expired or were evicted
  menu         \* the instance

router == <<cooldowns, affinities, cleaned, selections>>
bindings == <<entries, oldest, gone>>
accounts == <<registered, routed, available, admin, changes, menu>>
vars == <<now, registered, routed, available, admin, changes, cooldowns, affinities,
          cleaned, selections, entries, oldest, request, origin, gone, menu>>

Keys == Scopes \X ResponseIds
Priorities == {Priority[a] : a \in Accounts}
NoAffinity == [account |-> 0, used |-> 0]
NoBinding == [account |-> 0, at |-> 0]

\* at is the Instant a call took before it locked anything; plan are the
\* accounts of the candidates and index the one being tried.
Fresh == [step |-> "new", scope |-> CHOOSE s \in Scopes : TRUE, session |-> NoSession,
          previous |-> NoId, at |-> 0, plan |-> <<>>, index |-> 0, id |-> NoId,
          bound |-> FALSE, completed |-> FALSE, observed |-> TRUE]

Init ==
  /\ now = 0
  /\ registered = Accounts /\ routed = Accounts /\ available = Accounts
  /\ admin = [a \in Accounts |-> "idle"]
  /\ changes = 0 /\ cooldowns = [a \in Accounts |-> 0]
  /\ affinities = [k \in Scopes \X Sessions |-> NoAffinity]
  /\ cleaned = 0
  /\ selections = [k \in Scopes \X Priorities |-> 0]
  /\ entries = [k \in Keys |-> NoBinding] /\ oldest = <<>>
  /\ request = [r \in Requests |-> Fresh]
  /\ origin = [id \in ResponseIds |-> {}] /\ gone = {}
  /\ menu \in Menu

At(r, step) == request[r].step = step
Account(r) == request[r].plan[request[r].index]
Elapsed(later, earlier) == IF later > earlier THEN later - earlier ELSE 0

\* The mutex of the cooldowns: routes() keeps it from its first line to its last.
CooldownsFree == \A r \in Requests : ~At(r, "collected")

-----------------------------------------------------------------------------
(***************************************************************************)
(* ResponseBindings.                                                       *)
(***************************************************************************)
\* remove_expired: how many leave at the front of oldest_first.
Expired(at) ==
  LET stays == {i \in DOMAIN oldest :
                  /\ entries[oldest[i].key].at = oldest[i].at /\ entries[oldest[i].key].account # 0
                  /\ Elapsed(at, oldest[i].at) < BindingTTL}
  IN IF stays = {} THEN Len(oldest) ELSE Min(stays) - 1

\* remove_oldest, n times.
RemoveOldest(n) ==
  LET dropped == {oldest[i].key : i \in {j \in 1 .. n :
                    entries[oldest[j].key].at = oldest[j].at}}
  IN [entries |-> [k \in Keys |-> IF k \in dropped THEN NoBinding ELSE entries[k]],
      oldest |-> SubSeq(oldest, n + 1, Len(oldest)),
      dropped |-> {k \in dropped : entries[k].account # 0}]

Size(map) == Cardinality({k \in Keys : map[k].account # 0})

\* remove_expired, then remove_oldest until there is room.
MadeRoom(at) ==
  RemoveOldest(Min({n \in Expired(at) .. Len(oldest) :
                      Size(RemoveOldest(n).entries) < MaxBindings}))

Bound(kept, at, key, account) ==
  /\ entries' = [kept.entries EXCEPT ![key] = [account |-> account, at |-> at]]
  /\ oldest' = Append(kept.oldest, [at |-> at, key |-> key])
  /\ gone' = (gone \cup kept.dropped) \ {key}

\* insert: the first account bound to an id keeps it.
Insert(at, key, account) ==
  LET live == RemoveOldest(Expired(at))
  IN \/ /\ live.entries[key].account # 0
        /\ entries' = live.entries /\ oldest' = live.oldest
        /\ gone' = gone \cup live.dropped
     \/ /\ live.entries[key].account = 0
        /\ Bound(MadeRoom(at), at, key, account)

-----------------------------------------------------------------------------
(***************************************************************************)
(* routes().                                                               *)
(***************************************************************************)
\* The accounts of a set in the order of priorities and ids: one sequence.
Orders(S) == {routes \in [1 .. Cardinality(S) -> S] :
                \A i, j \in DOMAIN routes : i < j =>
                  \/ Priority[routes[i]] < Priority[routes[j]]
                  \/ Priority[routes[i]] = Priority[routes[j]] /\ routes[i] < routes[j]}

Candidates(scope) ==
  LET usable == {a \in routed \cap Allowed[scope] : cooldowns[a] <= now}
  IN IF usable \cap Exact # {} THEN usable \cap Exact ELSE usable \cap Relay

\* The candidates are collected under the mutex of the cooldowns. The instant is taken
\* just before the lock; a Tick before Choose makes it old.
Collect(r) ==
  /\ At(r, "new") /\ CooldownsFree
  /\ cooldowns' = [a \in Accounts |-> IF cooldowns[a] > now THEN cooldowns[a] ELSE 0]
  /\ \E scope \in Scopes, session \in menu.sessions \cup {NoSession},
        previous \in menu.ids \cup {NoId} :
       \E routes \in Orders(Candidates(scope)) :
         request' = [request EXCEPT ![r] =
           [Fresh EXCEPT !.step = IF routes = <<>> THEN "failed" ELSE "collected",
                         !.scope = scope, !.session = session, !.previous = previous,
                         !.at = now, !.plan = routes]]
  /\ UNCHANGED <<now, accounts, affinities, cleaned, selections, bindings, origin>>

TierLength(routes, p) == Cardinality({i \in DOMAIN routes : Priority[routes[i]] = p})
TierStart(routes, p) == Min({i \in DOMAIN routes : Priority[routes[i]] = p})

\* rotate_round_robin: every tier of equal priority is rotated by its cursor.
Rotated(scope, routes) ==
  [i \in DOMAIN routes |->
     LET p == Priority[routes[i]]
         start == TierStart(routes, p)
     IN routes[start + ((i - start + selections[<<scope, p>>]) % TierLength(routes, p))]]

\* A mutation: the cursors stay where they are.
AdvancedNever(scope, routes) == selections

Advanced(scope, routes) ==
  [k \in Scopes \X Priorities |->
     IF k[1] = scope /\ TierLength(routes, k[2]) > 1 THEN selections[k] + 1 ELSE selections[k]]

RotateLeft(routes, i) == SubSeq(routes, i, Len(routes)) \o SubSeq(routes, 1, i - 1)

Planned(r, plan) ==
  request' = [request EXCEPT ![r].step = "planned", ![r].plan = plan, ![r].index = 1]

RoundRobin(r, routes) ==
  /\ Planned(r, Rotated(request[r].scope, routes))
  /\ selections' = Advanced(request[r].scope, routes)

Refuse(r) == request' = [request EXCEPT ![r].step = "failed"]

\* The affinity of the session, after the expired ones were cleaned up.
Affine(r, routes) ==
  LET key == <<request[r].scope, request[r].session>>
      at == request[r].at
      due == cleaned = 0 \/ Elapsed(at, cleaned - 1) >= CleanupInterval
      live == [k \in DOMAIN affinities |->
                 IF due /\ Elapsed(at, affinities[k].used) >= AffinityTTL
                 THEN NoAffinity ELSE affinities[k]]
      places == {i \in DOMAIN routes : routes[i] = live[key].account}
      valid == places # {} /\ Elapsed(at, live[key].used) < AffinityTTL
  IN /\ cleaned' = IF due THEN at + 1 ELSE cleaned
     /\ \/ /\ valid
           /\ affinities' = [live EXCEPT ![key].used = at]
           /\ Planned(r, RotateLeft(routes, Min(places)))
           /\ UNCHANGED selections
        \/ /\ ~valid
           /\ affinities' = [live EXCEPT ![key] = NoAffinity]
           /\ RoundRobin(r, routes)

Arrange(r, routes) ==
  \/ /\ request[r].session = NoSession
     /\ RoundRobin(r, routes)
     /\ UNCHANGED <<affinities, cleaned>>
  \/ /\ request[r].session # NoSession
     /\ Affine(r, routes)

\* A mutation: an id without a binding does not exclude the accounts that keep
\* the state of a response.
StatelessAny(routes) == Orders(Range(routes))

Stateless(routes) == Orders(Range(routes) \ Codex)

\* The rest of routes(): a binding decides alone; without one a continuation
\* goes only to accounts that keep no response state.
Choose(r) ==
  LET key == <<request[r].scope, request[r].previous>>
      routes == request[r].plan
      live == RemoveOldest(Expired(request[r].at))
  IN /\ At(r, "collected")
     /\ \/ /\ request[r].previous = NoId
           /\ Arrange(r, routes)
           /\ UNCHANGED bindings
        \/ /\ request[r].previous # NoId
           /\ entries' = live.entries /\ oldest' = live.oldest
           /\ gone' = gone \cup live.dropped
           /\ \/ /\ live.entries[key].account # 0
                 /\ IF live.entries[key].account \in Range(routes)
                    THEN Planned(r, <<live.entries[key].account>>) ELSE Refuse(r)
                 /\ UNCHANGED <<affinities, cleaned, selections>>
              \/ /\ live.entries[key].account = 0 /\ Range(routes) \subseteq Codex
                 /\ Refuse(r)
                 /\ UNCHANGED <<affinities, cleaned, selections>>
              \/ /\ live.entries[key].account = 0
                 /\ \E stateless \in Stateless(routes) : stateless # <<>> /\ Arrange(r, stateless)
     /\ UNCHANGED <<now, accounts, cooldowns, origin>>

-----------------------------------------------------------------------------
(***************************************************************************)
(* PreparedProxyExecution::execute_stream.                                 *)
(***************************************************************************)
Ends(r, step) == request' = [request EXCEPT ![r].step = step]

\* The loop goes on with the next candidate, or the plan is exhausted.
NextCandidate(r) ==
  IF request[r].index < Len(request[r].plan)
  THEN request' = [request EXCEPT ![r].step = "planned", ![r].index = @ + 1]
  ELSE Ends(r, "failed")

\* prepare_candidate and request_account: a conversion that rejects the request
\* skips the candidate, any other error ends the request, an account that is no
\* longer registered or usable included.
Dispatch(r) ==
  /\ At(r, "planned")
  /\ \/ Account(r) \notin Native /\ NextCandidate(r)
     \/ Ends(r, "failed")
     \/ Account(r) \in registered \cap available /\ Ends(r, "calling")
  /\ UNCHANGED <<now, accounts, router, bindings, origin>>

\* The upstream's headers: a stream, or an error that may be replayed nowhere.
Answer(r) ==
  /\ At(r, "calling")
  /\ Ends(r, "won") \/ Ends(r, "failed")
  /\ UNCHANGED <<now, accounts, router, bindings, origin>>

\* record_route_failure_with_retry_after.
Durations(reason) ==
  CASE reason = "rate" -> {Cooldown[reason]} \cup menu.retryAfter
    [] reason = "quota" -> {Cooldown[reason]} \cup {Max({Cooldown[reason], d}) : d \in menu.retryAfter}
    [] OTHER -> {Cooldown[reason]}

\* A mutation: the candidate that failed is tried again.
FailoverInPlace(r) ==
  /\ At(r, "calling")
  /\ CooldownsFree
  /\ \E reason \in CooldownReasons : \E d \in Durations(reason) :
       cooldowns' = [cooldowns EXCEPT ![Account(r)] = now + d]
  /\ Ends(r, "planned")
  /\ UNCHANGED <<now, accounts, affinities, cleaned, selections, bindings, origin>>

\* An error with a failover reason: a continuation ends with it, any other
\* request goes on to the next candidate, after the cooldown was recorded.
Failover(r) ==
  /\ At(r, "calling")
  /\ \/ /\ request[r].previous # NoId
        /\ Ends(r, "failed") /\ UNCHANGED cooldowns
     \/ /\ request[r].previous = NoId
        /\ NextCandidate(r)
        /\ \/ UNCHANGED cooldowns   \* capacity
           \/ /\ CooldownsFree
              /\ \E reason \in CooldownReasons : \E d \in Durations(reason) :
                   cooldowns' = [cooldowns EXCEPT ![Account(r)] = now + d]
  /\ UNCHANGED <<now, accounts, affinities, cleaned, selections, bindings, origin>>

RecordSuccess(r) ==
  /\ At(r, "won") /\ CooldownsFree
  /\ cooldowns' = [cooldowns EXCEPT ![Account(r)] = 0]
  /\ Ends(r, "recorded")
  /\ UNCHANGED <<now, accounts, affinities, cleaned, selections, bindings, origin>>

CommitAffinity(r) ==
  /\ At(r, "recorded")
  /\ affinities' = [k \in DOMAIN affinities |->
                      IF k = <<request[r].scope, request[r].session>>
                      THEN [account |-> Account(r), used |-> now] ELSE affinities[k]]
  /\ Ends(r, "streaming")
  /\ UNCHANGED <<now, accounts, cooldowns, cleaned, selections, bindings, origin>>

-----------------------------------------------------------------------------
(***************************************************************************)
(* observe_response_id.                                                    *)
(***************************************************************************)
Observing(r) == At(r, "streaming") /\ Account(r) \in Tracked

\* An event with or without the response's id, which is bound if it is to be.
Event(r, id, binds, completes) ==
  /\ origin' = [i \in ResponseIds |-> origin[i] \cup (IF i = id THEN {Account(r)} ELSE {})]
  /\ request' = [request EXCEPT ![r].id = id, ![r].at = now, ![r].completed = completes,
                                ![r].step = IF binds THEN "binding" ELSE "streaming"]
  /\ UNCHANGED <<now, accounts, router, bindings>>

\* A mutation: nothing is bound before the response is complete.
CreatedUnbound(r) ==
  /\ Observing(r) /\ request[r].id = NoId /\ ~request[r].completed
  /\ \E id \in menu.ids : Event(r, id, FALSE, FALSE)

\* response.created, of which an upstream sends one with an id: an account that keeps
\* the state of the response is bound to the id before the client gets it.
Created(r) ==
  /\ Observing(r) /\ request[r].id = NoId /\ ~request[r].completed
  /\ \E id \in menu.ids : Event(r, id, Account(r) \in Codex /\ request[r].observed, FALSE)

\* response.completed or response.incomplete: the latest moment to bind. The id is the
\* event's own or the one of response.created, which are the same if both are known.
Completed(r) ==
  /\ Observing(r) /\ ~request[r].completed
  /\ \E id \in IF request[r].id = NoId THEN menu.ids \cup {NoId} ELSE {request[r].id} :
       Event(r, id, id # NoId /\ ~request[r].bound /\ request[r].observed, TRUE)

\* bind_response_id: the time was taken before the lock. The chunk with the id
\* goes to the client afterwards.
Bind(r) ==
  LET key == <<request[r].scope, request[r].id>>
  IN /\ At(r, "binding")
     /\ Insert(request[r].at, key, Account(r))
     /\ request' = [request EXCEPT ![r].bound = TRUE, ![r].step = "streaming"]
     /\ UNCHANGED <<now, accounts, router, origin>>

\* A frame outgrows the buffer: nothing is observed from now on.
Overflow(r) ==
  /\ Observing(r) /\ request[r].observed /\ ~request[r].completed
  /\ request' = [request EXCEPT ![r].observed = FALSE]
  /\ UNCHANGED <<now, accounts, router, bindings, origin>>

\* The stream ends or the client goes away, wherever the request awaits.
Leave(r) ==
  /\ request[r].step \in {"calling", "streaming"}
  /\ Ends(r, "over")
  /\ UNCHANGED <<now, accounts, router, bindings, origin>>

-----------------------------------------------------------------------------
(***************************************************************************)
(* Accounts, one management operation at a time for each.                  *)
(***************************************************************************)
Change == changes < menu.changes /\ changes' = changes + 1

AdminStep(a, from, to) == admin[a] = from /\ admin' = [admin EXCEPT ![a] = to]

\* ProviderRuntimeCatalog::remove_account: first the runtime, then the router with
\* one lock after the other.
Unregister(a) ==
  /\ AdminStep(a, "idle", "unregistered") /\ a \in registered /\ Change
  /\ registered' = registered \ {a}
  /\ UNCHANGED <<now, menu, routed, available, router, bindings, request, origin>>

Unroute(a) ==
  /\ AdminStep(a, "unregistered", "unrouted")
  /\ routed' = routed \ {a}
  /\ UNCHANGED <<now, menu, changes, registered, available, router, bindings, request, origin>>

ForgetAffinities(a) ==
  /\ AdminStep(a, "unrouted", "forgotten")
  /\ affinities' = [k \in DOMAIN affinities |->
                      IF affinities[k].account = a THEN NoAffinity ELSE affinities[k]]
  /\ UNCHANGED <<now, menu, changes, registered, routed, available, cooldowns, cleaned, selections,
                 bindings, request, origin>>

ForgetCooldowns(a) ==
  /\ AdminStep(a, "forgotten", "idle") /\ CooldownsFree
  /\ cooldowns' = [cooldowns EXCEPT ![a] = 0]
  /\ UNCHANGED <<now, menu, changes, registered, routed, available, affinities, cleaned, selections,
                 bindings, request, origin>>

\* install_account: the runtime, then the router, which offers the old account object
\* until then.
Register(a) ==
  /\ AdminStep(a, "idle", "registered") /\ Change
  /\ registered' = registered \cup {a} /\ available' = available \cup {a}
  /\ UNCHANGED <<now, menu, routed, router, bindings, request, origin>>

Route(a) ==
  /\ AdminStep(a, "registered", "idle")
  /\ routed' = (routed \ {a}) \cup ({a} \cap available)
  /\ UNCHANGED <<now, menu, changes, registered, available, router, bindings, request, origin>>

\* A refresh is rejected: the account object of the runtime requires authorization.
Expire(a) ==
  /\ a \in available /\ available' = available \ {a} /\ Change
  /\ routed' = IF admin[a] = "registered" THEN routed ELSE routed \ {a}
  /\ UNCHANGED <<now, menu, registered, admin, router, bindings, request, origin>>

Tick ==
  /\ now < menu.time /\ now' = now + 1
  /\ UNCHANGED <<accounts, router, bindings, request, origin>>

RequestNext ==
  \E r \in Requests :
    \/ Collect(r) \/ Choose(r) \/ Dispatch(r) \/ Answer(r) \/ Failover(r)
    \/ RecordSuccess(r) \/ CommitAffinity(r)
    \/ Created(r) \/ Completed(r) \/ Bind(r) \/ Overflow(r) \/ Leave(r)
AdminNext ==
  \E a \in menu.touched :
    \/ Unregister(a) \/ Unroute(a) \/ ForgetAffinities(a) \/ ForgetCooldowns(a)
    \/ Register(a) \/ Route(a) \/ Expire(a)
Next == RequestNext \/ AdminNext \/ Tick
Spec == Init /\ [][Next]_vars

\* routes() and the failover loop run to their end, and an upstream answers; no
\* client needs to stay, no stream to end and no account to be touched.
RequestStep(r) ==
  \/ Choose(r) \/ Dispatch(r) \/ Answer(r) \/ Failover(r)
  \/ RecordSuccess(r) \/ CommitAffinity(r) \/ Bind(r)
Fairness == \A r \in Requests : WF_vars(RequestStep(r))
FairSpec == Spec /\ Fairness

-----------------------------------------------------------------------------
\* A continuation reaches an account that keeps response state only if that
\* account announced the id: not after the binding expired or was evicted, not
\* by failover, not under another API key's scope.
ContinuationAtHome ==
  \A r \in Requests :
    At(r, "calling") /\ request[r].previous # NoId /\ Account(r) \in Codex =>
      Account(r) \in origin[request[r].previous]

\* The queue of the response bindings holds each bound key once, with the time it
\* was bound at, and nothing else: neither map nor queue leaks.
BindingsExact ==
  /\ Len(oldest) = Size(entries)
  /\ \A k \in Keys : entries[k].account # 0 =>
       \E i \in DOMAIN oldest : oldest[i] = [at |-> entries[k].at, key |-> k]

\* An id that a client got from an account that keeps response state, or with a
\* completed response, is bound to an account that announced it until it expires
\* or is evicted, whatever other streams bind meanwhile.
AnnouncedIsBound ==
  \A r \in Requests :
    LET key == <<request[r].scope, request[r].id>>
    IN /\ request[r].id # NoId /\ ~At(r, "binding") /\ request[r].observed
       /\ Account(r) \in Codex \/ request[r].completed
       => \/ key \in gone
          \/ entries[key].account \in origin[request[r].id]

\* The response bindings are exact, bounded by MAX_RESPONSE_BINDINGS and kept.
BindingsSound == BindingsExact /\ Size(entries) <= MaxBindings /\ AnnouncedIsBound

\* Requests without a session and with the same candidates begin with each
\* account of the best tier equally often, up to one.
RoundRobinFair ==
  LET planned == {r \in Requests : request[r].step \notin {"new", "collected"}
                                     /\ request[r].index > 0}
      first(a) == Cardinality({r \in planned : request[r].plan[1] = a})
      tier(r) == {a \in Range(request[r].plan) :
                    \A b \in Range(request[r].plan) : Priority[a] <= Priority[b]}
  IN (\A r, q \in planned :
        /\ request[r].session = NoSession /\ request[r].previous = NoId
        /\ request[r].scope = request[q].scope
        /\ Range(request[r].plan) = Range(request[q].plan)) =>
     \A r \in planned : \A a, b \in tier(r) : first(a) <= first(b) + 1

\* routes() is left again although it holds a mutex that failing and succeeding
\* requests need, and the failover loop ends, with a stream or with an error.
PlansEnd ==
  \A r \in Requests :
    At(r, "collected") ~> request[r].step \in {"streaming", "failed", "over"}
==============================================================================
