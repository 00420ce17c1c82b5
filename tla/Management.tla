------------------------------ MODULE Management ------------------------------
(***************************************************************************)
(* One provider account under management: the handlers that create, edit,  *)
(* delete and inspect it, the login session that provisions it, the        *)
(* background sweep, the row they write, the account object and the route  *)
(* the runtime serves requests from, and the quota cache.                  *)
(*                                                                         *)
(* Operations of one account take its gate, except create_account, which   *)
(* nobody else knows the id of until the row is there. An await ends a     *)
(* step; a handler whose client goes away is dropped at one, the login     *)
(* task and the sweep are not. A discovery touches nothing that is shared, *)
(* so it is part of the commit that follows it.                            *)
(***************************************************************************)
EXTENDS AccountStore, QuotaCache, LoginFlow, FiniteSets

CONSTANTS
  Handlers,      \* HTTP requests being handled at once
  Models,        \* upstream models a discovery can report
  Configs,       \* values of config_json
  Kinds,         \* the OAuth drivers a login can use
  Menus          \* bounds: see menu

Login == "login"   \* the spawned task of the login session
Sweep == "sweep"   \* the task that reapplies the model catalogue
Processes == Handlers \cup {Login, Sweep}
Free == "free"     \* nobody holds the gate

ASSUME ManagementAssumption ==
  /\ Handlers \cap {Login, Sweep, Free} = {}
  /\ Configs # {} /\ Kinds \subseteq FlowKinds

VARIABLES
  row,       \* the account's rows
  known,     \* the account has been created once
  object,    \* the account object in the runtime's map
  route,     \* the account in the router's map
  broken,    \* the account is in recovery_failures
  cache,     \* the quota cache entry
  fetches,   \* how many quota fetches were cached
  proc,      \* what each process is doing
  gate,      \* the process that holds the account's gate
  login,     \* the OAuth session
  flight,    \* the credential refresh an account object has under way
  now,       \* the clock
  menu,      \* bounds: the operations of this behaviour, how many of them start,
             \* the revision no object refreshes, the observations of an object,
             \* the clock's last value and the number of restarts
  started,   \* operations started
  restarts,  \* restarts so far
  identityOf,\* history: the login each credential revision belongs to
  behind,    \* history: the runtime was left behind the row
  misfiled,  \* history: an observation was stored under another identity
  outdated   \* history: a forced fetch was answered with an earlier one

vars == <<row, known, object, route, broken, cache, fetches, proc, gate, login, flight,
          now, menu, started, restarts, identityOf, behind, misfiled, outdated>>
runtime == <<object, route, broken>>
history == <<identityOf, misfiled, outdated>>
bounds == <<now, menu, restarts>>

NoObject == [revision |-> -1]
NoRoute == [priority |-> -1]
NoFlight == [revision |-> -1]
NoLogin == [status |-> "none"]
Idle == [pc |-> "idle"]

\* build_account and the router's RoutedAccount.
ObjectOf(r) ==
  [revision |-> r.revision, identity |-> r.identity,
   seen |-> [revision |-> -1, generation |-> 0, identity |-> 0]]
RouteOf(r) ==
  [visibility |-> r.visibility, priority |-> r.priority, config |-> r.config,
   models |-> r.models]
Seen == IF object = NoObject THEN NoObservation ELSE object.seen

Patches ==
  [visibility : {"private", "shared"}, priority : 0 .. 1, config : Configs]
FirstPatch == [visibility |-> "private", priority |-> 0, config |-> CHOOSE c \in Configs : TRUE]

Init ==
  /\ \E there \in BOOLEAN :
       /\ known = there
       /\ row = IF there
                THEN [NewAccount(FirstPatch) EXCEPT !.models = WriteModels(@, Models, TRUE, TRUE)]
                ELSE NoRow
       /\ object = IF there THEN ObjectOf(row) ELSE NoObject
       /\ route = IF there THEN RouteOf(row) ELSE NoRoute
       /\ identityOf = IF there THEN [r \in 0 .. 0 |-> 0] ELSE [r \in {} |-> 0]
  /\ broken = FALSE /\ behind = FALSE /\ misfiled = FALSE /\ outdated = FALSE
  /\ cache = NoEntry /\ fetches = 0
  /\ proc = [x \in Processes |-> Idle] /\ gate = Free
  /\ login = NoLogin /\ flight = NoFlight
  /\ menu \in Menus /\ now = 0 /\ started = 0 /\ restarts = 0

At(x, pc) == proc[x].pc = pc
Move(x, pc) == proc' = [proc EXCEPT ![x].pc = pc]
Release(x) == gate' = IF gate = x THEN Free ELSE gate

\* finish_oauth_session: only a session that is still open is finished.
Finished(s, result) ==
  IF s.status \in {"pending", "provisioning"} THEN [s EXCEPT !.status = result] ELSE s

\* The operation is over and its result goes to whoever started it.
End(x, result) ==
  /\ proc' = [proc EXCEPT ![x] = Idle]
  /\ Release(x)
  /\ login' = IF x = Login THEN Finished(login, result) ELSE login

-----------------------------------------------------------------------------
(***************************************************************************)
(* Operations start.                                                       *)
(***************************************************************************)
Start(x, operation) ==
  /\ x \in Handlers \cup {Sweep} /\ At(x, "idle")
  /\ started < menu.starts /\ started' = started + 1
  /\ operation.op \in menu.operations
  /\ proc' = [proc EXCEPT ![x] = operation]
  /\ UNCHANGED <<row, known, runtime, gate, login, flight, bounds, history, behind>>

\* update_account of the HTTP layer: the fields the request leaves out are
\* filled in from the account as it is now. These requests name one field.
StartUpdate(h) ==
  \E op \in {"update", "both"}, patch \in Patches :
    /\ row.present
    /\ Cardinality({f \in DOMAIN patch : patch[f] # row[f]}) = 1
    /\ Start(h, [pc |-> "gate", op |-> op, patch |-> patch, current |-> NoRow])
    /\ UNCHANGED <<cache, fetches>>

\* The operations that need nothing but the account: load_owned_account.
StartEdit(h) ==
  \E op \in {"replace", "enable", "disable", "refresh", "delete"} :
    /\ row.present
    /\ Start(h, [pc |-> "gate", op |-> op, patch |-> PatchOf(row), current |-> NoRow])
    /\ UNCHANGED <<cache, fetches>>

StartUpdateModel(h) ==
  \E m \in Models, enabled \in BOOLEAN, price \in {"same", "none", "manual"} :
    /\ row.present
    /\ Start(h, [pc |-> "gate", op |-> "model", model |-> m, enabled |-> enabled,
                 price |-> price, current |-> NoRow])
    /\ UNCHANGED <<cache, fetches>>

\* refresh_enabled_model_catalogs: load_enabled_accounts reported the account.
StartSweep ==
  /\ row.present /\ row.enabled
  /\ Start(Sweep, [pc |-> "gate", op |-> "sweep", patch |-> PatchOf(row), current |-> NoRow])
  /\ UNCHANGED <<cache, fetches>>

\* create_account, with an id nobody has used.
StartCreate(h) ==
  /\ ~known /\ login = NoLogin /\ \A x \in Processes : At(x, "idle")
  /\ Start(h, [pc |-> "prepared", op |-> "create", patch |-> FirstPatch])
  /\ UNCHANGED <<cache, fetches>>

\* fetch_quota_view up to the gate. The clock is the caller's, read here.
StartQuota(h) ==
  \E mode \in {"automatic", "force"} :
    LET cached == CachedEntry(cache, row.revision, Seen)
    IN /\ row.present
       /\ Start(h, [pc |-> "gate", op |-> "quota", mode |-> mode, now |-> now,
                    revision |-> row.revision, attempt |-> Attempt(cached),
                    fetches |-> fetches, current |-> NoRow, cached |-> NoEntry, base |-> 0,
                    result |-> NoObject])
       /\ cache' = cached /\ UNCHANGED fetches

\* list_accounts reads every summary before the first cached_quota.
StartList(h) ==
  /\ row.present
  /\ Start(h, [pc |-> "listing", op |-> "list", revision |-> row.revision,
               identity |-> row.identity])
  /\ UNCHANGED <<cache, fetches>>

\* persist_quota_observation of the observation the cache just took in.
Filed(entry, seen, identity) ==
  misfiled' = (misfiled \/ (entry # NoEntry /\ Applies(entry, seen) /\ seen.identity # identity))

ListQuota(h) ==
  /\ At(h, "listing")
  /\ cache' = CachedEntry(cache, proc[h].revision, Seen)
  /\ Filed(IF cache.revision = proc[h].revision THEN cache ELSE NoEntry, Seen, proc[h].identity)
  /\ End(h, "failed")
  /\ UNCHANGED <<row, known, runtime, fetches, flight, bounds, started, identityOf, outdated, behind>>

-----------------------------------------------------------------------------
(***************************************************************************)
(* Gated operations: lock, load, discover, commit, install.                *)
(***************************************************************************)
\* Mutant of Gated: set_account_enabled does not take the gate.
Ungated(x) == At(x, "gate") /\ (proc[x].op \in {"enable", "disable"} \/ gate = Free)

Gated(x) == At(x, "gate") /\ gate = Free

\* The account was deleted while the operation waited for the gate, or was
\* disabled before the sweep reached it.
NotFound(x) ==
  /\ Gated(x)
  /\ row.present => (proc[x].op = "sweep" /\ ~row.enabled)
  /\ End(x, "failed")
  /\ UNCHANGED <<row, known, runtime, cache, fetches, flight, bounds, started, history, behind>>

Enter(x) ==
  /\ Gated(x) /\ proc[x].op # "quota" /\ row.present
  /\ proc[x].op = "sweep" => row.enabled
  /\ gate' = x
  /\ proc' = [proc EXCEPT ![x] = [@ EXCEPT !.pc = "loaded", !.current = row]]
  /\ UNCHANGED <<row, known, runtime, cache, fetches, login, flight, bounds, started, history,
                 behind>>

\* update_account writes the row only, unless the configuration or the priority
\* changes.
Rebuilds(operation) ==
  operation.op # "update" \/ operation.patch.config # operation.current.config
                          \/ operation.patch.priority # operation.current.priority

\* The candidates of update_account, update_account_with_credential,
\* update_credential, set_account_enabled, and of the two model refreshes.
UpdateAccount(operation) == Patched(operation.current, operation.patch)
UpdateAccountWithCredential(operation) == ReplacementCredential(UpdateAccount(operation))
UpdateCredential(operation) == ReplacementCredential(operation.current)
SetAccountEnabled(operation, enabled) == [operation.current EXCEPT !.enabled = enabled]
RefreshModels(operation) == operation.current

Candidate(operation) ==
  CASE operation.op = "update" -> UpdateAccount(operation)
    [] operation.op = "both" -> UpdateAccountWithCredential(operation)
    [] operation.op = "replace" -> UpdateCredential(operation)
    [] operation.op = "enable" -> SetAccountEnabled(operation, TRUE)
    [] operation.op = "disable" -> SetAccountEnabled(operation, FALSE)
    [] operation.op \in {"refresh", "sweep"} -> RefreshModels(operation)

Resets(operation) ==
  operation.op \in {"update", "both"} /\ operation.patch.config # operation.current.config

\* A discovery: the models found, or nothing and write_models = FALSE. refresh
\* and sweep give up when it fails, disable does without.
Discovery(op) ==
  (IF op = "disable" THEN {} ELSE {[found |-> s, write |-> TRUE] : s \in SUBSET Models})
    \cup (IF op \in {"refresh", "sweep", "create"} THEN {}
          ELSE {[found |-> {}, write |-> FALSE]})

Revision(r) == [v \in DOMAIN identityOf \cup {r.revision} |->
                  IF v = r.revision THEN r.identity ELSE identityOf[v]]

Effect(x) == IF x = Login THEN [login EXCEPT !.effects = @ + 1] ELSE login

\* commit_candidate up to the installation: the row, if nobody wrote a
\* credential since current was loaded.
Commit(x) ==
  LET operation == proc[x]
      candidate == Candidate(operation)
  IN /\ At(x, "loaded") /\ operation.op \notin {"delete", "model"} /\ Rebuilds(operation)
     /\ Commits(row, operation.current.revision)
     /\ \E d \in Discovery(operation.op) :
          row' = Committed(row, candidate, operation.current.revision, d.found, d.write,
                           Resets(operation) /\ d.write)
     /\ identityOf' = Revision(row')
     /\ proc' = [proc EXCEPT ![x] = [pc |-> "install", op |-> operation.op, row |-> row']]
     /\ login' = Effect(x)
     /\ UNCHANGED <<known, runtime, cache, fetches, gate, flight, bounds, started, behind, misfiled, outdated>>

\* Conflict, or a discovery that must not fail failed.
GiveUp(x) ==
  /\ \/ /\ At(x, "loaded") /\ proc[x].op \notin {"delete", "model"} /\ Rebuilds(proc[x])
        /\ ~Commits(row, proc[x].current.revision) \/ proc[x].op \in {"refresh", "sweep"}
     \/ At(x, "prepared")
  /\ End(x, "failed")
  /\ UNCHANGED <<row, known, runtime, cache, fetches, flight, bounds, started, history, behind>>

\* create_account's commit: the row appears.
CommitCreate(x) ==
  /\ At(x, "prepared") /\ ~row.present /\ ~known
  /\ \E d \in Discovery("create") :
       row' = [NewAccount(proc[x].patch) EXCEPT !.models = WriteModels(@, d.found, TRUE, TRUE)]
  /\ known' = TRUE
  /\ identityOf' = Revision(row')
  /\ proc' = [proc EXCEPT ![x] = [pc |-> "install", op |-> "create", row |-> row']]
  /\ login' = Effect(x)
  /\ UNCHANGED <<runtime, cache, fetches, gate, flight, bounds, started, behind, misfiled, outdated>>

Serves(r, o, t) ==
  IF r.present /\ r.enabled THEN o # NoObject /\ t = RouteOf(r) ELSE o = NoObject /\ t = NoRoute

Invalidates(op) == op \in {"replace", "both"}
Replaced == IF flight = NoFlight THEN flight ELSE [flight EXCEPT !.current = FALSE]

\* install_account or remove_account, and invalidate_quota after a new credential.
Install(x) ==
  LET committed == proc[x].row
  IN /\ At(x, "install")
     /\ object' = IF committed.enabled THEN ObjectOf(committed) ELSE NoObject
     /\ route' = IF committed.enabled THEN RouteOf(committed) ELSE NoRoute
     /\ broken' = FALSE
     /\ flight' = Replaced
     /\ cache' = IF Invalidates(proc[x].op) THEN NoEntry ELSE cache
     /\ behind' = (proc[x].op = "create" /\ ~Serves(row, object', route'))
     /\ End(x, "completed")
     /\ UNCHANGED <<row, known, fetches, bounds, started, history>>

\* update_account without a rebuild, then the access it publishes.
WriteRow(x) ==
  /\ At(x, "loaded") /\ proc[x].op = "update" /\ ~Rebuilds(proc[x])
  /\ row' = WriteAccount(row, proc[x].patch)
  /\ Move(x, "publish")
  /\ UNCHANGED <<known, runtime, cache, fetches, gate, login, flight, bounds, started, history,
                 behind>>

\* update_model; a model the account has no row of is not found.
WriteModel(x) ==
  /\ At(x, "loaded") /\ proc[x].op = "model"
  /\ IF proc[x].model \in DOMAIN row.models
     THEN /\ row' = WriteOverride(row, proc[x].model, proc[x].enabled, proc[x].price)
          /\ Move(x, "publish")
          /\ UNCHANGED <<gate, login>>
     ELSE End(x, "failed") /\ UNCHANGED row
  /\ UNCHANGED <<known, runtime, cache, fetches, flight, bounds, started, history, behind>>

Publish(x) ==
  /\ At(x, "publish")
  /\ route' = IF route = NoRoute THEN route
              ELSE IF proc[x].op = "model"
              THEN IF row.enabled THEN [route EXCEPT !.models = row.models] ELSE route
              ELSE IF proc[x].current.visibility # proc[x].patch.visibility
              THEN [route EXCEPT !.visibility = row.visibility] ELSE route
  /\ End(x, "completed")
  /\ UNCHANGED <<row, known, object, broken, cache, fetches, flight, bounds, started, history,
                 behind>>

\* delete_account: the row and the quota, then the runtime.
DeleteRow(x) ==
  /\ At(x, "loaded") /\ proc[x].op = "delete"
  /\ row' = NoRow /\ cache' = NoEntry
  /\ Move(x, "remove")
  /\ UNCHANGED <<known, runtime, fetches, gate, login, flight, bounds, started, history, behind>>

Remove(x) ==
  /\ At(x, "remove")
  /\ object' = NoObject /\ route' = NoRoute /\ broken' = FALSE /\ flight' = Replaced
  /\ behind' = FALSE
  /\ End(x, "completed")
  /\ UNCHANGED <<row, known, cache, fetches, bounds, started, history>>

-----------------------------------------------------------------------------
(***************************************************************************)
(* The quota of the account.                                               *)
(***************************************************************************)
\* The view an operation answers with.
Viewed(x, view) ==
  outdated' = (outdated \/ /\ proc[x].mode = "force"
                           /\ ~view.error /\ view.fetch # 0
                           /\ view.fetch <= proc[x].fetches)

\* fetch_quota_view with the gate held, up to the fetch.
EnterQuota(x) ==
  LET cached == CachedEntry(cache, row.revision, Seen)
      asked == proc[x]
  IN /\ Gated(x) /\ asked.op = "quota" /\ row.present
     /\ cache' = cached
     /\ Filed(IF cached = NoEntry THEN cached ELSE cache, Seen, row.identity)
     /\ IF AnswersFromCache(cached, asked.mode, row.revision # asked.revision, asked.attempt,
                            asked.now)
        THEN Viewed(x, QuotaCacheView(cached, asked.now)) /\ End(x, "completed")
        ELSE /\ gate' = x
             /\ proc' = [proc EXCEPT ![x] =
                  [@ EXCEPT !.pc = "fetch", !.current = row, !.cached = cached,
                            !.base = Baseline(cached, row.revision, Seen)]]
             /\ UNCHANGED <<login, outdated>>
     /\ UNCHANGED <<row, known, runtime, fetches, flight, bounds, started, identityOf, behind>>

\* fetch_account_quota of an enabled account asks the object in the runtime.
FetchLive(current) ==
  IF current.enabled /\ object # NoObject
  THEN {[revision |-> object.revision, identity |-> object.identity]} ELSE {}

\* fetch_detached_quota of a disabled one builds an object from the row, which
\* may refresh the credential.
FetchDetached(current) ==
  IF current.enabled THEN {}
  ELSE {[revision |-> r, identity |-> current.identity] :
          r \in {current.revision} \cup
            (IF Commits(row, current.revision) /\ current.revision < menu.revision
             THEN {current.revision + 1} ELSE {})}

Fetch(x) ==
  LET current == proc[x].current
  IN /\ At(x, "fetch")
     /\ \E result \in {NoObject} \cup FetchLive(current) \cup FetchDetached(current) :
          /\ proc' = [proc EXCEPT ![x] = [@ EXCEPT !.pc = "store", !.result = result]]
          /\ row' = IF ~current.enabled /\ result.revision > current.revision
                    THEN Swapped(row) ELSE row
     /\ identityOf' = IF row.present THEN Revision(row') ELSE identityOf
     /\ UNCHANGED <<known, runtime, cache, fetches, gate, login, flight, bounds, started, misfiled,
                    outdated, behind>>

\* The result is cached unless the credential it was fetched with is not the
\* account's any more.
Store(x) ==
  LET asked == proc[x]
      result == asked.result
      entry == FailedEntry(asked.cached, row.revision, asked.now, Attempt(asked.cached) + 1)
      stored == IF result = NoObject THEN entry
                ELSE FetchedEntry(fetches + 1, result.revision, result.identity, asked.base, Seen,
                                  asked.now, Attempt(asked.cached) + 1)
  IN /\ At(x, "store")
     /\ IF result # NoObject /\ result.revision # row.revision
        THEN UNCHANGED <<cache, fetches, misfiled, outdated>>
        ELSE /\ cache' = stored
             /\ fetches' = IF result = NoObject THEN fetches ELSE fetches + 1
             /\ misfiled' = (misfiled \/ /\ result # NoObject
                                         /\ {result.identity, stored.snapshot.merged} #
                                              {asked.current.identity})
             /\ Viewed(x, QuotaCacheView(stored, asked.now))
     /\ End(x, "completed")
     /\ UNCHANGED <<row, known, runtime, flight, bounds, started, identityOf, behind>>

-----------------------------------------------------------------------------
(***************************************************************************)
(* The account object's own doing, the client that goes away, the restart. *)
(***************************************************************************)
\* publish_observation.
Observe ==
  /\ object # NoObject /\ object.seen.generation < menu.seen
  /\ object' = [object EXCEPT !.seen =
       [revision |-> object.revision, generation |-> @.generation + 1,
        identity |-> object.identity]]
  /\ UNCHANGED <<row, known, route, broken, cache, fetches, proc, gate, login, flight, bounds,
                 started, history, behind>>

\* refresh of a credential, by the object a request holds.
StartRefresh ==
  /\ object # NoObject /\ flight = NoFlight /\ object.revision < menu.revision
  /\ flight' = [revision |-> object.revision, current |-> TRUE]
  /\ UNCHANGED <<row, known, runtime, cache, fetches, proc, gate, login, bounds, started, history,
                 behind>>

\* It succeeds, finds another credential in the row, or is refused; only the
\* object that made it learns the new one.
EndRefresh ==
  /\ flight # NoFlight
  /\ flight' = NoFlight
  /\ \/ /\ Commits(row, flight.revision)
        /\ row' = Swapped(row)
        /\ object' = IF flight.current
                     THEN [object EXCEPT !.revision = @ + 1, !.seen = [@ EXCEPT !.revision = -1]] ELSE object
     \/ Commits(row, flight.revision) /\ row' = Marked(row) /\ UNCHANGED object
     \/ ~Commits(row, flight.revision) /\ UNCHANGED <<row, object>>
  /\ identityOf' = IF row.present THEN Revision(row') ELSE identityOf
  /\ UNCHANGED <<known, route, broken, cache, fetches, proc, gate, login, bounds, started,
                 misfiled, outdated, behind>>

\* The client of a handler hangs up: the handler is dropped at its await.
Drop(h) ==
  /\ h \in Handlers /\ ~At(h, "idle")
  /\ behind' = (behind \/ proc[h].pc \in {"install", "publish", "remove"})
  /\ End(h, "failed")
  /\ UNCHANGED <<row, known, runtime, cache, fetches, flight, bounds, started, history>>

\* The process restarts: install_account of every enabled row that can be built.
Restart ==
  /\ restarts < menu.restarts /\ restarts' = restarts + 1
  /\ LET installs == row.present /\ row.enabled
     IN \E built \in IF installs THEN BOOLEAN ELSE {FALSE} :
          /\ object' = IF built THEN ObjectOf(row) ELSE NoObject
          /\ route' = IF built THEN RouteOf(row) ELSE NoRoute
          /\ broken' = (installs /\ ~built)
  /\ cache' = NoEntry /\ login' = NoLogin /\ flight' = NoFlight
  /\ proc' = [x \in Processes |-> Idle] /\ gate' = Free
  /\ behind' = FALSE
  /\ UNCHANGED <<row, known, fetches, now, menu, started, history>>

Tick ==
  /\ now < menu.time /\ now' = now + 1
  /\ UNCHANGED <<row, known, runtime, cache, fetches, proc, gate, login, flight, menu, started,
                 restarts, history, behind>>

-----------------------------------------------------------------------------
(***************************************************************************)
(* The login session: at most one, for a new account or for this one.      *)
(***************************************************************************)
OnlyLogin ==
  UNCHANGED <<row, known, runtime, cache, fetches, gate, flight, bounds, started, history, behind>>

StartLogin ==
  \E kind \in Kinds, target \in {"create", "reauth"}, listens \in BOOLEAN :
    /\ login = NoLogin /\ At(Login, "idle") /\ "login" \in menu.operations
    /\ started < menu.starts
    /\ IF target = "create" THEN ~known /\ \A x \in Processes : At(x, "idle") ELSE row.present
    /\ listens => kind = "antigravity"
    /\ login' = [status |-> "pending", target |-> target, flow |-> StartFlow(kind, listens),
                 dead |-> FALSE, effects |-> 0]
    /\ started' = started + 1
    /\ UNCHANGED <<row, known, runtime, cache, fetches, proc, gate, flight, bounds, history, behind>>

\* The task is alive and not yet done with complete.
Running == login # NoLogin /\ ~login.dead /\ At(Login, "idle")

\* A step of complete.
Authorize ==
  /\ Running
  /\ \E flow \in FlowSteps(login.flow) : login' = [login EXCEPT !.flow = flow]
  /\ UNCHANGED proc /\ OnlyLogin

Expire ==
  /\ Running /\ ~login.flow.late
  /\ login' = [login EXCEPT !.flow = [@ EXCEPT !.late = TRUE]]
  /\ UNCHANGED proc /\ OnlyLogin

\* submit_oauth_callback, or the request the browser makes of the listener.
Callback ==
  /\ Running /\ Accepts(login.flow)
  /\ login.status = "pending" \/ (login.flow.listens /\ login.flow.stage = "callback")
  /\ login' = [login EXCEPT !.flow = Submitted(login.flow)]
  /\ UNCHANGED proc /\ OnlyLogin

\* Mutant of Cancel: a session that is provisioning is cancelled too.
CancelOpen ==
  /\ login # NoLogin /\ login.status \in {"pending", "provisioning"}
  /\ login' = [login EXCEPT !.status = "cancelled", !.dead = login.flow.stage \notin FlowEnds]
  /\ UNCHANGED proc /\ OnlyLogin

\* cancel_pending_oauth. The abort takes effect at an await, which the task has
\* behind it once complete has returned.
Cancel ==
  /\ login # NoLogin /\ login.status = "pending"
  /\ login' = [login EXCEPT !.status = "cancelled", !.dead = login.flow.stage \notin FlowEnds]
  /\ UNCHANGED proc /\ OnlyLogin

\* begin_oauth_provisioning, and what the task does with the credential.
BeginProvisioning ==
  /\ Running /\ login.flow.stage = "granted"
  /\ login' = [login EXCEPT !.dead = TRUE,
                            !.status = IF @ = "pending" THEN "provisioning" ELSE @]
  /\ proc' = IF login.status # "pending" THEN proc
             ELSE [proc EXCEPT ![Login] =
                     IF login.target = "create"
                     THEN [pc |-> "prepared", op |-> "create", patch |-> FirstPatch]
                     ELSE [pc |-> "gate", op |-> "replace", patch |-> FirstPatch, current |-> NoRow]]
  /\ OnlyLogin

LoginRefused ==
  /\ Running /\ login.flow.stage = "refused"
  /\ login' = [Finished(login, "failed") EXCEPT !.dead = TRUE]
  /\ UNCHANGED proc /\ OnlyLogin

-----------------------------------------------------------------------------
\* What a process does once it has started.
Step(x) ==
  \/ Enter(x) \/ EnterQuota(x) \/ NotFound(x)
  \/ Commit(x) \/ GiveUp(x) \/ CommitCreate(x) \/ Install(x)
  \/ WriteRow(x) \/ WriteModel(x) \/ Publish(x) \/ DeleteRow(x) \/ Remove(x)
  \/ Fetch(x) \/ Store(x) \/ ListQuota(x)

LoginStep == Authorize \/ BeginProvisioning \/ LoginRefused

Next ==
  \/ \E h \in Handlers :
       \/ StartUpdate(h) \/ StartEdit(h) \/ StartUpdateModel(h) \/ StartCreate(h)
       \/ StartQuota(h) \/ StartList(h) \/ Drop(h)
  \/ StartSweep
  \/ \E x \in Processes : Step(x)
  \/ StartLogin \/ LoginStep \/ Expire \/ Callback \/ Cancel
  \/ Observe \/ StartRefresh \/ EndRefresh \/ Restart \/ Tick

\* Spawned tasks and handlers are polled until they return, deadlines pass, and
\* an HTTP call of a login ends.
Fairness ==
  /\ \A x \in Processes : WF_vars(Step(x))
  /\ WF_vars(LoginStep) /\ WF_vars(Expire)

Spec == Init /\ [][Next]_vars /\ Fairness

-----------------------------------------------------------------------------
\* Whenever no operation is between its commit and its installation, the runtime
\* serves exactly an enabled account, with the visibility, priority, configuration
\* and models of its rows, whatever edits, sweeps, logins, refreshes and deletions
\* overlapped. Left out are an account that could not be built at startup and the
\* ways the code does leave the runtime behind: a handler dropped between commit
\* and installation, and a creation overtaken by another operation of its account.
RuntimeFollowsRow ==
  (~behind /\ ~broken /\ \A x \in Processes : proc[x].pc \notin {"install", "publish", "remove"})
    => Serves(row, object, route)

\* Quota data is only ever kept for the login it was fetched with: the cached
\* snapshot and what was merged into it belong to the identity of the cached
\* revision, and so does every observation that was persisted.
QuotaOfItsCredential ==
  /\ ~misfiled
  /\ (cache # NoEntry /\ cache.snapshot # NoSnapshot) =>
       {cache.snapshot.identity, cache.snapshot.merged} = {identityOf[cache.revision]}

\* A forced quota request is never answered, without an error, from a fetch that
\* ended before the request was made.
ForcedQuotaIsNew == ~outdated

\* What the quota page shows is of the login it is shown for and, on demand, new.
QuotaIsCurrent == QuotaOfItsCredential /\ ForcedQuotaIsNew

\* A login session takes effect once if it completed and not at all if it failed
\* or was cancelled.
LoginLeavesOneEffect ==
  login # NoLogin =>
    /\ login.status = "completed" => login.effects = 1
    /\ login.status \in {"pending", "failed", "cancelled"} => login.effects = 0

\* Every login session comes to an end.
LoginEnds ==
  login.status \in {"pending", "provisioning"} ~>
    login.status \notin {"pending", "provisioning"}
===============================================================================
