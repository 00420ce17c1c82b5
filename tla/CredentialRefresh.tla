------------------------- MODULE CredentialRefresh --------------------------
(***************************************************************************)
(* The credential of one OAuth account: the account objects a runtime has  *)
(* built for it, the refreshes its requests and the scheduler start, the   *)
(* credential row with its revision, and the manager that edits the        *)
(* account, commits a snapshot and installs a new object in place of the   *)
(* old one.                                                                *)
(*                                                                         *)
(* A credential is a number; parent says which credential it was exchanged *)
(* for. Time is left out: a schedule may expire, a response arrive and a   *)
(* client go away at any moment.                                           *)
(***************************************************************************)
EXTENDS Naturals, Sequences, FiniteSets

CONSTANTS
  Requests,        \* requests (and quota fetches) of the account
  Workers,         \* slots of the scheduler's JoinSet
  RefreshLimit,    \* DEFAULT_REFRESH_CONCURRENCY
  MaxObjects,      \* bound: account objects built
  MaxCredentials,  \* bound: credentials ever issued
  MaxCommands,     \* bound: scheduler commands waiting
  MaxFaults        \* bound: dropped calls, failed exchanges and failed writes

ASSUME RefreshAssumption ==
  /\ Requests \cap Workers = {}
  /\ RefreshLimit \in Nat \ {0}
  /\ MaxObjects \in Nat \ {0}
  /\ MaxCredentials \in Nat \ {0}
  /\ MaxCommands \in Nat \ {0}
  /\ MaxFaults \in Nat

VARIABLES
  row,        \* the account and credential rows
  object,     \* the account objects, by number
  built,      \* how many were built
  installed,  \* the object in the runtime's map, 0 for none
  parent,     \* parent[c]: the credential c was exchanged for, 0 for a login
  task,       \* what each request and each spawned refresh is doing
  scheduled,  \* does the delay queue hold the account?
  commands,   \* the scheduler's channel
  manager,    \* the management operation that holds the account's gate
  presented,  \* history: how often an object presented a credential, up to 2
  lost,       \* history: credentials whose exchange came to nothing
  behind,     \* history: the row went on without the installed object
  cut,        \* history: a replaced object's failure took the schedule away
  faults      \* how many of the MaxFaults happened

durable == <<row, parent>>
runtime == <<object, built, installed>>
history == <<presented, lost, behind, cut, faults>>
vars == <<row, object, built, installed, parent, task, scheduled, commands, manager,
          presented, lost, behind, cut, faults>>

Tasks == Requests \cup Workers
Objects == 1 .. MaxObjects
Credentials == 1 .. MaxCredentials
Results == {"ok", "reauth", "failed"}

\* A CredentialUpdate, as far as it matters here; pending_update is NoUpdate for None.
NoUpdate == [expected |-> 0, credential |-> 0]

\* CodexState. due stands for next_refresh_at.is_some(); observation is the
\* credential the published quota observation was made with.
State(credential, revision, auth) ==
  [credential |-> credential, revision |-> revision, generation |-> 0, auth |-> auth,
   due |-> auth = "active", pending |-> NoUpdate, observation |-> 0]

Unbuilt == [State(0, 0, "reauth") EXCEPT !.auth = "unbuilt"]

\* snap is the state the task copied before an await, refused the credential its
\* request was sent with, update what it writes.
NoSnap == [credential |-> 0, revision |-> 0, generation |-> 0]
Idle == [step |-> "idle", object |-> 0, seen |-> 0, snap |-> NoSnap,
         refused |-> 0, update |-> NoUpdate, again |-> FALSE, outcome |-> "none"]

NoOperation == [step |-> "idle", object |-> 0, expected |-> 0, enabled |-> FALSE,
                raced |-> FALSE]

SnapOf(o) == [credential |-> object[o].credential, revision |-> object[o].revision,
              generation |-> object[o].generation]

Init ==
  /\ row = [revision |-> 0, credential |-> 1, auth |-> "active", enabled |-> TRUE]
  /\ parent = <<0>>
  /\ object = [o \in Objects |-> IF o = 1 THEN State(1, 0, "active") ELSE Unbuilt]
  /\ built = 1 /\ installed = 1
  /\ task = [t \in Tasks |-> Idle]
  /\ scheduled = FALSE /\ commands = <<[kind |-> "reschedule", object |-> 1]>>
  /\ manager = NoOperation
  /\ presented = [oc \in Objects \X Credentials |-> 0]
  /\ lost = {} /\ behind = FALSE /\ cut = FALSE /\ faults = 0

-----------------------------------------------------------------------------
(***************************************************************************)
(* Requests.                                                               *)
(***************************************************************************)
Fault == faults < MaxFaults /\ faults' = faults + 1

At(t, step) == task[t].step = step
Move(t, step) == task' = [task EXCEPT ![t].step = step]

\* request_account: the entry is looked up, then capacity is awaited.
StartRequest(r) ==
  /\ At(r, "idle")
  /\ installed # 0 /\ object[installed].auth = "active"
  /\ task' = [task EXCEPT ![r] = [Idle EXCEPT !.step = "entered", !.object = installed]]
  /\ UNCHANGED <<durable, runtime, scheduled, commands, manager, history>>

\* execute_entry reads the generation before it sends the request.
ReadGeneration(r) ==
  /\ At(r, "entered")
  /\ task' = [task EXCEPT ![r].step = "read",
                          ![r].seen = object[task[r].object].generation]
  /\ UNCHANGED <<durable, runtime, scheduled, commands, manager, history>>

\* CodexAccount::execute_stream copies the state and sends.
Send(r) ==
  /\ At(r, "read")
  /\ task' = [task EXCEPT ![r].step = "serving", ![r].snap = SnapOf(task[r].object)]
  /\ UNCHANGED <<durable, runtime, scheduled, commands, manager, history>>

\* publish_observation, with the state that was copied before the request.
Publish(o, snap) ==
  IF object[o].revision = snap.revision /\ object[o].generation = snap.generation
  THEN [object EXCEPT ![o].observation = snap.credential] ELSE object

\* The upstream answers, with or without quota headers. Whatever it answers,
\* other than a first 401, ends the request here.
Respond(r) ==
  /\ At(r, "serving")
  /\ object' \in {object, Publish(task[r].object, task[r].snap)}
  /\ \/ task' = [task EXCEPT ![r] = Idle]
     \/ /\ ~task[r].again
        /\ task' = [task EXCEPT ![r].step = "gate", ![r].snap = NoSnap,
                                   ![r].refused = task[r].snap.credential]
  /\ UNCHANGED <<durable, built, installed, scheduled, commands, manager, history>>

-----------------------------------------------------------------------------
(***************************************************************************)
(* refresh_entry and CodexAccount::refresh_credentials, for a request or   *)
(* for a task of the scheduler.                                            *)
(***************************************************************************)
HoldsPermit(t) == task[t].step \in {"exchange", "mark", "marked", "swap", "swapped"}
HoldsGate(t) == At(t, "limit") \/ HoldsPermit(t)

Report(result) ==
  CASE result = "ok" -> "reschedule" [] result = "reauth" -> "remove" [] OTHER -> "backoff"

\* A request reports the result to the scheduler and, after a success, sends
\* again; a spawned refresh leaves its result for join_next.
Finish(t, result) ==
  IF t \in Workers
  THEN /\ task' = [task EXCEPT ![t] = [Idle EXCEPT !.step = "finished", !.outcome = result,
                                                   !.object = task[t].object]]
       /\ UNCHANGED commands
  ELSE /\ Len(commands) < MaxCommands
       /\ commands' = Append(commands, [kind |-> Report(result), object |-> task[t].object])
       /\ task' = [task EXCEPT ![t] = IF result # "ok" THEN Idle
                                      ELSE [Idle EXCEPT !.step = "read", !.again = TRUE,
                                                        !.object = task[t].object]]

\* A mutation: the generation is not compared again under the gate.
LockGateUnchecked(t) ==
  /\ At(t, "gate")
  /\ \A u \in Tasks : task[u].object = task[t].object => ~HoldsGate(u)
  /\ Move(t, "limit")
  /\ UNCHANGED <<durable, runtime, scheduled, commands, manager, history>>

\* The gate is taken; another refresh may have advanced the generation.
LockGate(t) ==
  /\ At(t, "gate")
  /\ \A u \in Tasks : task[u].object = task[t].object => ~HoldsGate(u)
  /\ \/ /\ object[task[t].object].generation # task[t].seen
        /\ Finish(t, "ok")
     \/ /\ object[task[t].object].generation = task[t].seen
        /\ Move(t, "limit") /\ UNCHANGED commands
  /\ UNCHANGED <<durable, runtime, scheduled, manager, history>>

\* A permit of refresh_limit. A pending update is only persisted; otherwise
\* the refresh token is presented to the upstream.
AcquireLimit(t) ==
  LET o == task[t].object
      oc == <<o, object[o].credential>>
  IN /\ At(t, "limit")
     /\ Cardinality({u \in Tasks : HoldsPermit(u)}) < RefreshLimit
     /\ \/ /\ object[o].pending # NoUpdate
           /\ task' = [task EXCEPT ![t].step = "swap", ![t].update = object[o].pending]
           /\ UNCHANGED <<commands, presented>>
        \/ /\ object[o].pending = NoUpdate /\ object[o].auth = "reauth"
           /\ Finish(t, "reauth")
           /\ UNCHANGED presented
        \/ /\ object[o].pending = NoUpdate /\ object[o].auth = "active"
           /\ task' = [task EXCEPT ![t].step = "exchange", ![t].snap = SnapOf(o)]
           /\ presented' = [presented EXCEPT ![oc] = IF @ < 2 THEN @ + 1 ELSE @]
           /\ UNCHANGED commands
  /\ UNCHANGED <<durable, runtime, scheduled, manager, lost, behind, cut, faults>>

\* What becomes of the exchange: HTTP 401 or one of the three refresh_token_* codes
\* rejects the credential; no answer, a cut off or oversized body, any other status
\* and a body that is no JSON are errors, and the rest is a TokenResponse.
Answers == {"unreachable", "unreadable", "unauthorized", "token_refused", "refused",
            "no_json", "no_tokens", "bad_claims", "other_account", "tokens"}
Rejections == {"unauthorized", "token_refused"}
TokenResponses == {"no_tokens", "bad_claims", "other_account", "tokens"}

RefreshClient(answer) ==
  CASE answer \in Rejections -> "reauth"
    [] answer \in TokenResponses -> "tokens"
    [] OTHER -> "failed"

\* The tokens replace the credential's own; without one, or with an id token that is
\* malformed or names another account, there is no credential to store.
RefreshedTokens(answer) ==
  CASE answer = "tokens" -> "credential"
    [] answer = "other_account" -> "reauth"
    [] OTHER -> "failed"

ExchangeResult(answer) ==
  IF RefreshClient(answer) = "tokens" THEN RefreshedTokens(answer) ELSE RefreshClient(answer)

\* The token endpoint answers: a new credential, a rejection or an error.
Exchange(t) ==
  LET c == task[t].snap.credential
  IN /\ At(t, "exchange")
     /\ \E result \in {ExchangeResult(answer) : answer \in Answers} :
          \/ /\ result = "credential" /\ Len(parent) < MaxCredentials
             /\ parent' = Append(parent, c)
             /\ task' = [task EXCEPT ![t].step = "swap",
                  ![t].update = [expected |-> task[t].snap.revision,
                                 credential |-> Len(parent) + 1]]
             /\ UNCHANGED <<commands, lost, faults>>
          \/ /\ result = "reauth" /\ Fault /\ Move(t, "mark")
             /\ lost' = lost \cup {c}
             /\ UNCHANGED <<parent, commands>>
          \/ /\ result = "failed" /\ Fault /\ Finish(t, "failed")
             /\ lost' = lost \cup {c}
             /\ UNCHANGED parent
     /\ UNCHANGED <<row, runtime, scheduled, manager, presented, behind, cut>>

\* mark_reauth_required: the row is updated whatever its revision is, or the
\* write fails and that is ignored.
Mark(t) ==
  /\ At(t, "mark")
  /\ row' \in {row, [row EXCEPT !.auth = "reauth"]}
  /\ Move(t, "marked")
  /\ UNCHANGED <<parent, runtime, scheduled, commands, manager, history>>

MarkReturn(t) ==
  /\ At(t, "marked")
  /\ object' = [object EXCEPT ![task[t].object].auth = "reauth",
                              ![task[t].object].due = FALSE,
                              ![task[t].object].observation = 0]
  /\ Finish(t, "reauth")
  /\ UNCHANGED <<durable, built, installed, scheduled, manager, history>>

Swapped(update) ==
  [row EXCEPT !.revision = update.expected + 1, !.credential = update.credential,
              !.auth = "active"]

\* compare_and_swap_credential: updated, a conflict, or an error, which COMMIT
\* may also report for what is durable.
Swap(t) ==
  LET u == task[t].update
      matches == row.revision = u.expected
  IN /\ At(t, "swap")
     /\ \/ /\ matches
           /\ row' = Swapped(u)
           /\ \E outcome \in {"updated", "error"} :
                /\ IF outcome = "error" THEN Fault ELSE UNCHANGED faults
                /\ task' = [task EXCEPT ![t].step = "swapped", ![t].outcome = outcome]
                /\ behind' = (behind \/ task[t].object # installed \/ outcome = "error")
           /\ manager' = [manager EXCEPT !.raced = (manager.step = "committed")]
        \/ /\ ~matches
           /\ task' = [task EXCEPT ![t].step = "swapped", ![t].outcome = "conflict"]
           /\ UNCHANGED <<row, behind, manager, faults>>
        \/ /\ Fault
           /\ task' = [task EXCEPT ![t].step = "swapped", ![t].outcome = "error"]
           /\ UNCHANGED <<row, behind, manager>>
     /\ UNCHANGED <<parent, runtime, scheduled, commands, presented, lost, cut>>

\* A mutation: an update that failed to persist is not kept.
RefreshedForgettingUpdate(o, u, outcome) ==
  [object EXCEPT ![o] =
    [@ EXCEPT !.credential = u.credential,
              !.revision = IF outcome = "updated" THEN u.expected + 1 ELSE @,
              !.generation = @ + 1, !.auth = "active", !.due = TRUE, !.observation = 0]]

\* What refresh_credentials and persist_pending leave in the object.
Refreshed(o, u, outcome) ==
  LET b == object[o]
      fresh == b.pending = NoUpdate
      updated == outcome = "updated"
  IN [object EXCEPT ![o] =
       [credential |-> u.credential,
        revision |-> IF updated THEN u.expected + 1 ELSE b.revision,
        generation |-> IF fresh THEN b.generation + 1 ELSE b.generation,
        auth |-> IF fresh THEN "active" ELSE b.auth,
        due |-> TRUE,
        pending |-> IF updated THEN NoUpdate ELSE u,
        observation |-> IF fresh \/ updated THEN 0 ELSE b.observation]]

SwapReturn(t) ==
  LET o == task[t].object
      c == task[t].snap.credential
  IN /\ At(t, "swapped")
     /\ \/ /\ task[t].outcome = "conflict"
           /\ Finish(t, "failed")
           /\ lost' = IF c = 0 THEN lost ELSE lost \cup {c}
           /\ UNCHANGED object
        \/ /\ task[t].outcome # "conflict"
           /\ object' = Refreshed(o, task[t].update, task[t].outcome)
           /\ Finish(t, "ok")
           /\ UNCHANGED lost
     /\ UNCHANGED <<durable, built, installed, scheduled, manager, presented, behind, cut,
                    faults>>

\* The client goes away: the request's future is dropped at whatever it awaits,
\* and with it the gate and the permit.
Drop(r) ==
  LET c == task[r].snap.credential
  IN /\ ~At(r, "idle") /\ Fault
     /\ task' = [task EXCEPT ![r] = Idle]
     /\ lost' = IF HoldsPermit(r) /\ c # 0 THEN lost \cup {c} ELSE lost
     /\ behind' = (behind \/ (At(r, "swapped") /\ task[r].outcome = "updated"))
     /\ UNCHANGED <<durable, runtime, scheduled, commands, manager, presented, cut>>

-----------------------------------------------------------------------------
(***************************************************************************)
(* run_scheduler.                                                          *)
(***************************************************************************)
\* schedule_account.
ScheduleAccount == installed # 0 /\ object[installed].due

Obey ==
  LET command == Head(commands)
  IN /\ commands # <<>>
     /\ commands' = Tail(commands)
     /\ scheduled' = CASE command.kind = "reschedule" -> ScheduleAccount
                       [] command.kind = "backoff" -> TRUE
                       [] OTHER -> FALSE
     /\ cut' = (command.kind = "remove" /\ (cut \/ command.object # installed))
     /\ UNCHANGED <<durable, runtime, task, manager, presented, lost, behind, faults>>

\* The delay queue yields the account.
Expire ==
  /\ scheduled /\ scheduled' = FALSE
  /\ \/ installed = 0 /\ UNCHANGED task
     \/ /\ installed # 0
        /\ \E w \in Workers :
             /\ At(w, "idle")
             /\ task' = [task EXCEPT ![w] =
                  [Idle EXCEPT !.step = "gate", !.object = installed,
                               !.seen = object[installed].generation]]
  /\ UNCHANGED <<durable, runtime, commands, manager, history>>

\* A mutation: a transient failure is not scheduled again.
JoinOnce(w) ==
  /\ At(w, "finished")
  /\ scheduled' = CASE task[w].outcome = "ok" -> ScheduleAccount [] OTHER -> FALSE
  /\ cut' = (task[w].outcome = "reauth" /\ (cut \/ task[w].object # installed))
  /\ task' = [task EXCEPT ![w] = Idle]
  /\ UNCHANGED <<durable, runtime, commands, manager, presented, lost, behind, faults>>

Join(w) ==
  /\ At(w, "finished")
  /\ scheduled' = CASE task[w].outcome = "ok" -> ScheduleAccount
                    [] task[w].outcome = "reauth" -> FALSE
                    [] OTHER -> TRUE
  /\ cut' = (task[w].outcome = "reauth" /\ (cut \/ task[w].object # installed))
  /\ task' = [task EXCEPT ![w] = Idle]
  /\ UNCHANGED <<durable, runtime, commands, manager, presented, lost, behind, faults>>

-----------------------------------------------------------------------------
\* The account is loaded and the candidate built. A login brings a credential
\* of its own and the next revision; an edit keeps both.
Load ==
  /\ manager.step = "idle" /\ built < MaxObjects
  /\ \E enabled \in BOOLEAN :
       manager' = [step |-> "discovering", object |-> built + 1, expected |-> row.revision,
                   enabled |-> enabled, raced |-> FALSE]
  /\ built' = built + 1
  /\ \/ /\ object' = [object EXCEPT ![built + 1] =
                        State(row.credential, row.revision, row.auth)]
        /\ UNCHANGED parent
     \/ /\ Len(parent) < MaxCredentials
        /\ parent' = Append(parent, 0)
        /\ object' = [object EXCEPT ![built + 1] =
                        State(Len(parent) + 1, row.revision + 1, "active")]
        /\ manager'.enabled = row.enabled
  /\ UNCHANGED <<row, installed, task, scheduled, commands, history>>

\* The operation ends without its candidate.
Discard ==
  /\ manager' = NoOperation
  /\ object' = [object EXCEPT ![built] = Unbuilt]
  /\ built' = built - 1

Advances == object[manager.object].revision > manager.expected

Snapshot ==
  LET candidate == object[manager.object]
  IN [revision |-> candidate.revision, credential |-> candidate.credential,
      auth |-> IF Advances THEN candidate.auth ELSE row.auth,
      enabled |-> manager.enabled]

\* A mutation: the snapshot writes the authentication state it was built with.
CommitOverAuth ==
  /\ manager.step = "discovering"
  /\ row.revision = manager.expected
  /\ row' = [Snapshot EXCEPT !.auth = object[manager.object].auth]
  /\ manager' = [manager EXCEPT !.step = "committed"]
  /\ UNCHANGED <<parent, runtime, task, scheduled, commands, history>>

\* commit_provider_snapshot, after model discovery: committed, a conflict, or
\* an error, also for what is durable.
Commit ==
  LET matches == row.revision = manager.expected
  IN /\ manager.step = "discovering"
     /\ \/ /\ matches
           /\ row' = Snapshot
           /\ manager' = [manager EXCEPT !.step = "committed"]
           /\ UNCHANGED <<object, built, behind, faults>>
        \/ Fault /\ matches /\ row' = Snapshot /\ behind' = (behind \/ Advances) /\ Discard
        \/ ~matches /\ UNCHANGED <<row, behind, faults>> /\ Discard
        \/ Fault /\ UNCHANGED <<row, behind>> /\ Discard
     /\ UNCHANGED <<parent, installed, task, scheduled, commands, presented, lost, cut>>

\* ProviderRuntime::replace (a new object, a new gate) or remove.
Install ==
  /\ manager.step = "committed"
  /\ manager' = NoOperation
  /\ installed' = IF manager.enabled THEN manager.object ELSE 0
  /\ \/ /\ manager.enabled /\ Len(commands) < MaxCommands
        /\ commands' = Append(commands, [kind |-> "reschedule", object |-> manager.object])
     \/ /\ ~manager.enabled /\ installed # 0 /\ Len(commands) < MaxCommands
        /\ commands' = Append(commands, [kind |-> "remove", object |-> 0])
     \/ /\ ~manager.enabled /\ installed = 0
        /\ UNCHANGED commands
  /\ behind' = manager.raced
  /\ UNCHANGED <<durable, object, built, task, scheduled, presented, lost, cut, faults>>

\* The client of the management call goes away.
Abandon ==
  /\ manager.step # "idle" /\ Fault
  /\ behind' = (behind \/ (manager.step = "committed" /\ Advances))
  /\ Discard
  /\ UNCHANGED <<durable, installed, task, scheduled, commands, presented, lost, cut>>

-----------------------------------------------------------------------------
RequestNext ==
  \E r \in Requests : StartRequest(r) \/ ReadGeneration(r) \/ Send(r) \/ Respond(r) \/ Drop(r)
RefreshNext ==
  \E t \in Tasks : LockGate(t) \/ AcquireLimit(t) \/ Exchange(t) \/ Mark(t) \/ MarkReturn(t)
                     \/ Swap(t) \/ SwapReturn(t)
SchedulerNext == Obey \/ Expire \/ \E w \in Workers : Join(w)
ManagerNext == Load \/ Commit \/ Install \/ Abandon
Next == RequestNext \/ RefreshNext \/ SchedulerNext \/ ManagerNext
Spec == Init /\ [][Next]_vars

-----------------------------------------------------------------------------
\* A committed credential is replaced only by one that was exchanged for it or
\* that an operator brought, and each replacement advances the revision by one.
\* Refreshes of replaced objects, late persists of pending updates and edits
\* that were loaded before a refresh cannot undo it.
CredentialSucceeds ==
  row' # row =>
    \/ row'.revision = row.revision /\ row'.credential = row.credential
    \/ /\ row'.revision = row.revision + 1
       /\ parent[row'.credential] \in {0, row.credential}

\* A revision names one credential: an object at the row's revision, with
\* nothing left to persist, has the row's credential. (The candidate of a login
\* has a revision of its own until it is committed.)
RevisionNamesCredential ==
  \A o \in 1 .. built :
    object[o].pending = NoUpdate /\ object[o].revision = row.revision =>
      \/ object[o].credential = row.credential
      \/ o = manager.object /\ manager.step = "discovering"

\* The installed object is at the row's revision, unless its own refresh is just
\* returning, or one of the known ways to part happened: an older object of the
\* account committed a refresh, a request was dropped between its commit and its
\* return, a commit was reported as failed, or a management call was dropped
\* between its commit and its install.
BehindOnlyWithCause ==
  installed # 0 /\ ~behind =>
    \/ object[installed].revision = row.revision
    \/ manager.step = "committed"
    \/ \E t \in Tasks : /\ task[t].object = installed /\ At(t, "swapped")
                        /\ task[t].outcome = "updated"

\* An object does not present a refresh token again that it has exchanged, unless
\* that exchange came to nothing: it failed, was rejected, lost a conflict, or its
\* request was dropped. The gate and the generation checked under it see to that,
\* for requests and scheduler alike.
PresentedOnce ==
  \A o \in Objects, c \in Credentials \ lost : presented[<<o, c>>] <= 1

\* A request exchanges only the credential it was refused with: when another
\* refresh was faster, the generation it read before it sent is out of date, and
\* it does not spend the new credential.
RefusedIsExchanged ==
  \A r \in Requests : At(r, "exchange") => task[r].snap.credential = task[r].refused

\* The quota observation of an object was made with the credential it has.
ObservationIsCurrent ==
  \A o \in Objects : object[o].observation \in {0, object[o].credential}

\* An installed account that is to be refreshed is in the delay queue, about to
\* be put there, or being refreshed by the scheduler, unless the rejection of a
\* replaced object has just taken the schedule away.
ScheduleKept ==
  installed # 0 /\ object[installed].due /\ ~cut =>
    \/ scheduled
    \/ \E i \in DOMAIN commands : commands[i].kind = "reschedule"
    \/ \E w \in Workers : ~At(w, "idle")

\* Only advancing the revision makes an account active again that requires
\* authorization: an edit loaded before the rejection does not.
ReauthClearedByRevision ==
  row.auth = "reauth" /\ row'.auth = "active" => row'.revision > row.revision

\* The installed object, its revision, its credential and its quota observation follow
\* the row, whoever wrote it.
ObjectsFollowRow ==
  RevisionNamesCredential /\ BehindOnlyWithCause /\ ObservationIsCurrent

\* Requests and scheduler exchange a refresh token once, and the one that was refused.
ExchangedOnce == PresentedOnce /\ RefusedIsExchanged

\* No writer undoes what another one committed: a credential is only replaced by its
\* successor, and a rejection only lifted by a new credential.
CommitsKept == [][CredentialSucceeds /\ ReauthClearedByRevision]_vars
=============================================================================
