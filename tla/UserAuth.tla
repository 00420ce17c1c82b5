------------------------------ MODULE UserAuth ------------------------------
(***************************************************************************)
(* Users, sessions, invitations and API keys: AuthService and              *)
(* ApiKeyAuthenticator (crates/provider-auth/src/service.rs), the          *)
(* transactions of crates/provider-storage/src/sqlite/auth.rs and the      *)
(* handlers of crates/provider-server/src/auth_http.rs.                    *)
(*                                                                         *)
(* A handler is a request that stops at every await. The database commits  *)
(* one transaction at a time; API keys are also held in memory (active),   *)
(* changed under the mutation lock. A client that hangs up drops its       *)
(* handler at any await.                                                   *)
(***************************************************************************)
EXTENDS Sequences, FiniteSetsExt

CONSTANTS MaxUsers,     \* users ever created; a user's id is its rank
          Names,        \* usernames
          MaxInvites,   \* invitations ever issued
          Keys,         \* API key secrets
          Groups,       \* group labels
          Requests,     \* handlers that may run at once
          MaxCalls,     \* calls and restarts in a behaviour
          MaxFaults     \* database errors in a behaviour

VARIABLES users,        \* table users: id -> record
          born,         \* users created so far
          initial,      \* auth_setup.initial_user_id
          owners,       \* owners of provider accounts; NoUser for unowned ones
          invites,      \* every invitation issued; open while its row exists
          registered,   \* pairs of an invitation and the user it made
          sessions,     \* every session granted; live while its row exists unrevoked
          rows,         \* table api_keys: secret -> record
          active,       \* ApiKeyAuthenticator.active: secret -> what requests are told
          lock,         \* holder of ApiKeyAuthenticator.mutation
          taken,        \* what the holder took out of active, to put it back
          req,          \* the handlers
          lost,         \* keys whose cache entry went with a dropped handler or a restart
          blind,        \* keys put back although their revocation was committed
          late,         \* keys written for an owner who was disabled meanwhile
          calls, faults

dbVars == <<users, born, initial, owners, invites, registered, sessions, rows>>
ghosts == <<lost, blind, late>>
cache == <<active, lock, taken>>
vars == <<dbVars, cache, req, ghosts, calls, faults>>

NoUser == 0
NoRequest == "none"
Idle == [pc |-> "idle"]

ASSUME AuthAssumption == NoRequest \notin Requests

\* A table as a function: with a row put in, with the rows of another, without some.
Put(f, x, v) == [y \in DOMAIN f \union {x} |-> IF y = x THEN v ELSE f[y]]
Merged(f, g) == [y \in DOMAIN f \union DOMAIN g |-> IF y \in DOMAIN f THEN f[y] ELSE g[y]]
Without(f, S) == [y \in DOMAIN f \ S |-> f[y]]

Init ==
  /\ users = <<>> /\ born = 0 /\ initial = NoUser
  /\ owners \in {{}, {NoUser}}
  /\ invites = <<>> /\ registered = {} /\ sessions = <<>>
  /\ rows = <<>> /\ active = <<>> /\ lock = NoRequest /\ taken = <<>>
  /\ req = [r \in Requests |-> Idle]
  /\ lost = {} /\ blind = {} /\ late = {}
  /\ calls = 0 /\ faults = 0

-----------------------------------------------------------------------------
(* Tables. A user's epoch counts the changes that revoke the user's sessions. *)

NewUser(name, role) == [name |-> name, role |-> role, enabled |-> TRUE, epoch |-> 0]

NameFree(name) == \A u \in DOMAIN users : users[u].name # name

NewSession(u, epoch) ==
  [user |-> u, epoch |-> epoch, live |-> TRUE, late |-> epoch # users'[u].epoch]

Revoked(u) ==
  [i \in DOMAIN sessions |-> IF sessions[i].user = u THEN [sessions[i] EXCEPT !.live = FALSE]
                             ELSE sessions[i]]

EnabledAdmin(u) == users[u].role = "super_admin" /\ users[u].enabled

\* The guard of the statements that demote, disable or delete a user.
AdminRemainsWithout(u) ==
  EnabledAdmin(u) => \E other \in DOMAIN users \ {u} : EnabledAdmin(other)

Call == calls < MaxCalls /\ calls' = calls + 1
Fault == faults < MaxFaults /\ faults' = faults + 1

-----------------------------------------------------------------------------
(* Entering: setup, login, registration and the session guard. *)

\* create_initial_user: the user, the claim, the unowned accounts and a session
\* in one transaction; it changes nothing unless the claim succeeds.
Setup(name) ==
  /\ Call /\ born < MaxUsers
  /\ initial = NoUser /\ NameFree(name)
  /\ users' = Put(users, born + 1, NewUser(name, "super_admin"))
  /\ born' = born + 1
  /\ initial' = born + 1
  /\ owners' = {IF o = NoUser THEN born + 1 ELSE o : o \in owners}
  /\ sessions' = Append(sessions, NewSession(born + 1, 0))
  /\ UNCHANGED <<invites, registered, rows, cache, req, ghosts, faults>>

\* login reads the user and checks the password; the session comes later.
LoginCheck(r, u) ==
  /\ Call /\ req[r] = Idle
  /\ u \in DOMAIN users /\ users[u].enabled
  /\ req' = [req EXCEPT ![r] = [pc |-> "login", user |-> u, epoch |-> users[u].epoch]]
  /\ UNCHANGED <<dbVars, cache, ghosts, faults>>

LoginGrant(r) ==
  /\ req[r].pc = "login"
  /\ UNCHANGED <<users, born, initial, owners, invites, registered, rows>>
  /\ sessions' = IF req[r].user \in DOMAIN users
                 THEN Append(sessions, NewSession(req[r].user, req[r].epoch)) ELSE sessions
  /\ req' = [req EXCEPT ![r] = Idle]
  /\ UNCHANGED <<cache, ghosts, calls, faults>>

RegisterCheck(r, t) ==
  /\ Call /\ req[r] = Idle
  /\ t \in DOMAIN invites /\ invites[t].open
  /\ req' = [req EXCEPT ![r] = [pc |-> "register", token |-> t, role |-> invites[t].role]]
  /\ UNCHANGED <<dbVars, cache, ghosts, faults>>

\* Mutant of Register: two registrations that read the invitation both use it.
RegisterUnconsumed(r, name) ==
  /\ req[r].pc = "register" /\ born < MaxUsers
  /\ NameFree(name)
  /\ invites' = [invites EXCEPT ![req[r].token].open = FALSE]
  /\ registered' = registered \union {<<req[r].token, born + 1>>}
  /\ users' = Put(users, born + 1, NewUser(name, req[r].role))
  /\ born' = born + 1
  /\ sessions' = Append(sessions, NewSession(born + 1, 0))
  /\ req' = [req EXCEPT ![r] = Idle]
  /\ UNCHANGED <<initial, owners, rows, cache, ghosts, calls, faults>>

\* register_user consumes the invitation, or nothing at all: it is gone or
\* expired, or the name is taken.
Register(r, name) ==
  /\ req[r].pc = "register" /\ born < MaxUsers
  /\ LET t == req[r].token
     IN /\ invites[t].open /\ invites[t].role = req[r].role /\ NameFree(name)
        /\ invites' = [invites EXCEPT ![t].open = FALSE]
        /\ registered' = registered \union {<<t, born + 1>>}
        /\ users' = Put(users, born + 1, NewUser(name, req[r].role))
  /\ born' = born + 1
  /\ sessions' = Append(sessions, NewSession(born + 1, 0))
  /\ req' = [req EXCEPT ![r] = Idle]
  /\ UNCHANGED <<initial, owners, rows, cache, ghosts, calls, faults>>

RegisterRejected(r) ==
  /\ req[r].pc = "register"
  /\ req' = [req EXCEPT ![r] = Idle]
  /\ UNCHANGED <<dbVars, cache, ghosts, calls, faults>>

\* require_session: the handler keeps the user as read here.
Authenticate(r, i) ==
  /\ Call /\ req[r] = Idle
  /\ i \in DOMAIN sessions /\ sessions[i].live
  /\ LET u == sessions[i].user
     IN /\ users[u].enabled
        /\ req' = [req EXCEPT ![r] = [pc |-> "handler", session |-> i, actor |-> u,
                                      admin |-> users[u].role = "super_admin"]]
  /\ UNCHANGED <<dbVars, cache, ghosts, faults>>

-----------------------------------------------------------------------------
(* Handlers that are one transaction. *)

Done(r) == req' = [req EXCEPT ![r] = Idle]

Logout(r) ==
  /\ req[r].pc = "handler"
  /\ sessions' = [sessions EXCEPT ![req[r].session].live = FALSE]
  /\ Done(r)
  /\ UNCHANGED <<users, born, initial, owners, invites, registered, rows, cache, ghosts,
                 calls, faults>>

CreateInvitation(r, role) ==
  /\ req[r].pc = "handler" /\ req[r].admin
  /\ Len(invites) < MaxInvites
  /\ invites' = Append(invites, [role |-> role, open |-> TRUE])
  /\ Done(r)
  /\ UNCHANGED <<users, born, initial, owners, registered, sessions, rows, cache, ghosts,
                 calls, faults>>

\* Mutant of SetUserRole: the guard looks only at the actor.
SetUserRoleUnguarded(r, u, role) ==
  /\ req[r].pc = "handler" /\ req[r].admin /\ u # req[r].actor
  /\ u \in DOMAIN users /\ users[u].role # role
  /\ users' = [users EXCEPT ![u].role = role, ![u].epoch = @ + 1]
  /\ sessions' = Revoked(u)
  /\ Done(r)
  /\ UNCHANGED <<born, initial, owners, invites, registered, rows, cache, ghosts,
                 calls, faults>>

SetUserRole(r, u, role) ==
  /\ req[r].pc = "handler" /\ req[r].admin /\ u # req[r].actor
  /\ u \in DOMAIN users /\ users[u].role # role
  /\ role = "super_admin" \/ AdminRemainsWithout(u)
  /\ users' = [users EXCEPT ![u].role = role, ![u].epoch = @ + 1]
  /\ sessions' = Revoked(u)
  /\ Done(r)
  /\ UNCHANGED <<born, initial, owners, invites, registered, rows, cache, ghosts,
                 calls, faults>>

ResetUserPassword(r, u) ==
  /\ req[r].pc = "handler" /\ req[r].admin
  /\ u \in DOMAIN users
  /\ users' = [users EXCEPT ![u].epoch = @ + 1]
  /\ sessions' = Revoked(u)
  /\ Done(r)
  /\ UNCHANGED <<born, initial, owners, invites, registered, rows, cache, ghosts,
                 calls, faults>>

\* A provider account created for the session's user, by provider management.
GainAccount(r) ==
  /\ req[r].pc = "handler" /\ req[r].actor \in DOMAIN users
  /\ owners' = owners \union {req[r].actor}
  /\ Done(r)
  /\ UNCHANGED <<users, born, initial, invites, registered, sessions, rows, cache, ghosts,
                 calls, faults>>

-----------------------------------------------------------------------------
(* Handlers under the mutation lock. What they take out of active they put   *)
(* back if the database refuses.                                             *)

ActiveOf(row) == [owner |-> row.owner, group |-> row.group]

CachedOf(u) == {k \in DOMAIN active : active[k].owner = u}

Take(r, keys, next) ==
  /\ req[r].pc = "handler" /\ lock = NoRequest
  /\ lock' = r
  /\ active' = Without(active, keys)
  /\ taken' = [k \in keys \intersect DOMAIN active |-> active[k]]
  /\ req' = [req EXCEPT ![r] = next]

Release(r) == Done(r) /\ lock' = NoRequest /\ taken' = <<>>

\* restore_active, restore_many_active
Restore(r) == Release(r) /\ active' = Merged(taken, active)

\* The row is inserted unless the secret is taken or the owner gone; no handler
\* writes a key whose group shows no account to the owner.
CreateKeyStart(r, k, g) ==
  /\ Take(r, {}, [pc |-> "create", key |-> k,
                  row |-> [owner |-> req[r].actor, enabled |-> TRUE, group |-> g]])
  /\ k \notin DOMAIN rows
  /\ UNCHANGED <<dbVars, ghosts, calls, faults>>

\* Only the owner's key; the patch may leave enabled and the group as they are.
UpdateKeyStart(r, k, e, g) ==
  /\ req[r].pc = "handler" /\ k \in DOMAIN rows /\ rows[k].owner = req[r].actor
  /\ Take(r, {k}, [pc |-> "update", key |-> k,
                   row |-> [owner |-> rows[k].owner, enabled |-> e, group |-> g]])
  /\ UNCHANGED <<dbVars, ghosts, calls, faults>>

WriteKeyRow(r) ==
  /\ req[r].pc \in {"create", "update"}
  /\ req[r].row.owner \in DOMAIN users
  /\ rows' = Put(rows, req[r].key, req[r].row)
  /\ late' = IF users[req[r].row.owner].enabled \/ ~req[r].row.enabled THEN late \ {req[r].key}
             ELSE late \union {req[r].key}
  /\ req' = [req EXCEPT ![r] = [pc |-> "written", key |-> req[r].key, row |-> req[r].row]]
  /\ UNCHANGED <<users, born, initial, owners, invites, registered, sessions, cache, lost,
                 blind, calls, faults>>

CacheKey(r) ==
  /\ req[r].pc = "written"
  /\ active' = IF req[r].row.enabled
               THEN Put(active, req[r].key, ActiveOf(req[r].row)) ELSE active
  /\ lost' = lost \ {req[r].key} /\ blind' = blind \ {req[r].key}
  /\ Release(r)
  /\ UNCHANGED <<dbVars, late, calls, faults>>

DeleteKeyStart(r, k) ==
  /\ req[r].pc = "handler" /\ k \in DOMAIN rows /\ rows[k].owner = req[r].actor
  /\ Take(r, {k}, [pc |-> "delete", key |-> k])
  /\ UNCHANGED <<dbVars, ghosts, calls, faults>>

DeleteKeyRow(r) ==
  /\ req[r].pc = "delete"
  /\ rows' = Without(rows, {req[r].key})
  /\ lost' = lost \ {req[r].key} /\ blind' = blind \ {req[r].key} /\ late' = late \ {req[r].key}
  /\ Release(r)
  /\ UNCHANGED <<users, born, initial, owners, invites, registered, sessions, active, calls,
                 faults>>

\* set_user_enabled and delete_user take the keys out before anything is checked.
SetUserEnabledStart(r, u, e) ==
  /\ Take(r, IF e THEN {} ELSE CachedOf(u),
          [pc |-> "enable", actor |-> req[r].actor, admin |-> req[r].admin, target |-> u, to |-> e])
  /\ UNCHANGED <<dbVars, ghosts, calls, faults>>

DeleteUserStart(r, u) ==
  /\ Take(r, CachedOf(u),
          [pc |-> "remove", actor |-> req[r].actor, admin |-> req[r].admin, target |-> u])
  /\ UNCHANGED <<dbVars, ghosts, calls, faults>>

\* Nobody disables or deletes the session's own user.
Permitted(r) ==
  req[r].admin /\ (req[r].target = req[r].actor => req[r].pc = "enable" /\ req[r].to)

\* Mutant of SetUserEnabledRow: the sessions of the user stay.
SetUserEnabledRowKeepsSessions(r) ==
  /\ req[r].pc = "enable" /\ Permitted(r)
  /\ LET u == req[r].target
     IN /\ u \in DOMAIN users
        /\ req[r].to \/ AdminRemainsWithout(u)
        /\ users' = [users EXCEPT ![u].enabled = req[r].to,
                                  ![u].epoch = IF req[r].to THEN @ ELSE @ + 1]
        /\ rows' = [k \in DOMAIN rows |->
                      IF ~req[r].to /\ rows[k].owner = u THEN [rows[k] EXCEPT !.enabled = FALSE]
                      ELSE rows[k]]
  /\ req' = [req EXCEPT ![r] = [pc |-> "enabled"]]
  /\ UNCHANGED <<born, initial, owners, invites, registered, sessions, cache, ghosts,
                 calls, faults>>

SetUserEnabledRow(r) ==
  /\ req[r].pc = "enable" /\ Permitted(r)
  /\ LET u == req[r].target
     IN /\ u \in DOMAIN users
        /\ req[r].to \/ AdminRemainsWithout(u)
        /\ users' = [users EXCEPT ![u].enabled = req[r].to,
                                  ![u].epoch = IF req[r].to THEN @ ELSE @ + 1]
        /\ sessions' = IF req[r].to THEN sessions ELSE Revoked(u)
        /\ rows' = [k \in DOMAIN rows |->
                      IF ~req[r].to /\ rows[k].owner = u THEN [rows[k] EXCEPT !.enabled = FALSE]
                      ELSE rows[k]]
  /\ req' = [req EXCEPT ![r] = [pc |-> "enabled"]]
  /\ UNCHANGED <<born, initial, owners, invites, registered, cache, ghosts, calls, faults>>

\* The user is read back; if that fails the keys are put back.
SetUserEnabledEnd(r) ==
  /\ req[r].pc = "enabled"
  /\ Release(r)
  /\ UNCHANGED <<dbVars, active, ghosts, calls, faults>>

SetUserEnabledUnread(r) ==
  /\ req[r].pc = "enabled" /\ Fault
  /\ Restore(r)
  /\ blind' = blind \union DOMAIN taken
  /\ UNCHANGED <<dbVars, lost, late, calls>>

\* Sessions and keys go with the user; the setup claim passes to the oldest other.
DeleteUserRow(r) ==
  /\ req[r].pc = "remove" /\ Permitted(r)
  /\ LET u == req[r].target
         others == DOMAIN users \ {u}
         gone == {k \in DOMAIN rows : rows[k].owner = u}
     IN /\ u \in DOMAIN users /\ u \notin owners /\ AdminRemainsWithout(u)
        /\ users' = Without(users, {u})
        /\ initial' = IF initial = u THEN Min(others) ELSE initial
        /\ sessions' = Revoked(u)
        /\ rows' = Without(rows, gone)
        /\ lost' = lost \ gone /\ blind' = blind \ gone /\ late' = late \ gone
  /\ Release(r)
  /\ UNCHANGED <<born, owners, invites, registered, active, calls, faults>>

\* Everything the database refuses: the wrong actor, no such user, the last
\* enabled super_admin, a user with provider accounts, an owner who is gone.
Refused(r) ==
  \/ req[r].pc \in {"enable", "remove"} /\ ~Permitted(r)
  \/ /\ req[r].pc \in {"enable", "remove"}
     /\ req[r].target \notin DOMAIN users
  \/ /\ req[r].pc = "enable" /\ ~req[r].to /\ req[r].target \in DOMAIN users
     /\ ~AdminRemainsWithout(req[r].target)
  \/ /\ req[r].pc = "remove" /\ req[r].target \in DOMAIN users
     /\ req[r].target \in owners \/ ~AdminRemainsWithout(req[r].target)
  \/ req[r].pc = "create" /\ req[r].row.owner \notin DOMAIN users

\* Mutant of Reject: a refused change forgets to put the keys back.
RejectForgets(r) ==
  /\ Refused(r)
  /\ Release(r)
  /\ UNCHANGED <<dbVars, active, ghosts, calls, faults>>

Reject(r) ==
  /\ Refused(r)
  /\ Restore(r)
  /\ UNCHANGED <<dbVars, ghosts, calls, faults>>

DatabaseError(r) ==
  /\ req[r].pc \in {"create", "update", "delete", "enable", "remove"}
  /\ Fault
  /\ Restore(r)
  /\ UNCHANGED <<dbVars, ghosts, calls>>

\* The client hangs up: the handler is dropped at an await, an open transaction is
\* rolled back, and what it had taken out of active is gone.
Disconnect(r) ==
  /\ \/ req[r].pc \in {"login", "register", "create", "update", "written", "delete", "enabled"}
     \/ req[r].pc \in {"enable", "remove"} /\ Permitted(r)
  /\ lost' = lost \union (IF lock # r THEN {}
                          ELSE DOMAIN taken
                                 \union IF req[r].pc = "written" THEN {req[r].key} ELSE {})
  /\ lock' = IF lock = r THEN NoRequest ELSE lock
  /\ taken' = IF lock = r THEN <<>> ELSE taken
  /\ Done(r)
  /\ UNCHANGED <<dbVars, active, blind, late, calls, faults>>

\* ApiKeyAuthenticator::load: enabled keys of enabled users.
Restart ==
  /\ Call
  /\ active' = [k \in {k \in DOMAIN rows : rows[k].enabled /\ users[rows[k].owner].enabled}
                  |-> ActiveOf(rows[k])]
  /\ lost' = {k \in DOMAIN rows : ~users[rows[k].owner].enabled}
  /\ blind' = {}
  /\ lock' = NoRequest /\ taken' = <<>>
  /\ req' = [r \in Requests |-> Idle]
  /\ UNCHANGED <<dbVars, late, faults>>

-----------------------------------------------------------------------------
UserStep(r) ==
  \/ \E u \in 1..born : LoginCheck(r, u)
  \/ \E t \in DOMAIN invites : RegisterCheck(r, t)
  \/ \E i \in DOMAIN sessions : Authenticate(r, i)
  \/ LoginGrant(r)
  \/ \E name \in Names : Register(r, name)
  \/ RegisterRejected(r)
  \/ Logout(r)
  \/ \E role \in {"super_admin", "user"} : CreateInvitation(r, role)
  \/ \E u \in 1..born, role \in {"super_admin", "user"} : SetUserRole(r, u, role)
  \/ \E u \in 1..born : ResetUserPassword(r, u)
  \/ GainAccount(r)

KeyStep(r) ==
  \/ \E k \in Keys, g \in Groups : CreateKeyStart(r, k, g)
  \/ \E k \in Keys, e \in BOOLEAN, g \in Groups : UpdateKeyStart(r, k, e, g)
  \/ WriteKeyRow(r)
  \/ CacheKey(r)
  \/ \E k \in Keys : DeleteKeyStart(r, k)
  \/ DeleteKeyRow(r)
  \/ \E u \in 1..born, e \in BOOLEAN : SetUserEnabledStart(r, u, e)
  \/ \E u \in 1..born : DeleteUserStart(r, u)
  \/ SetUserEnabledRow(r)
  \/ SetUserEnabledEnd(r)
  \/ SetUserEnabledUnread(r)
  \/ DeleteUserRow(r)
  \/ Reject(r)
  \/ DatabaseError(r)
  \/ Disconnect(r)

Next ==
  \/ \E name \in Names : Setup(name)
  \/ \E r \in Requests : UserStep(r) \/ KeyStep(r)
  \/ Restart

Spec == Init /\ [][Next]_vars

-----------------------------------------------------------------------------
\* Once set up there is always an enabled super_admin, whatever admins do to each
\* other at the same time, and no provider account loses its owner.
AdminRemains ==
  initial # NoUser => /\ \E u \in DOMAIN users : EnabledAdmin(u)
                      /\ owners \subseteq DOMAIN users

\* An invitation is consumed by exactly the registration that makes a user of it.
InvitationMakesOneUser ==
  \A t \in DOMAIN invites :
    Cardinality({p \in registered : p[1] = t}) = IF invites[t].open THEN 0 ELSE 1

\* A session that is not revoked was granted since its user last had a password reset,
\* a role change or was disabled, unless one of these overtook the login granting it.
SessionsAreCurrent ==
  \A i \in DOMAIN sessions :
    sessions[i].live => sessions[i].user \in DOMAIN users
                        /\ (sessions[i].late \/ sessions[i].epoch = users[sessions[i].user].epoch)

\* A key in memory has an enabled row that says the same, of an enabled user: unless
\* a read failed after the user was disabled, or its owner wrote it while being disabled.
AdmittedKeysAreEnabled ==
  \A k \in DOMAIN active \ blind :
    /\ k \in DOMAIN rows /\ rows[k].enabled /\ active[k] = ActiveOf(rows[k])
    /\ users[rows[k].owner].enabled \/ k \in late

\* While no change is under way an enabled key of an enabled user is in memory, unless
\* the handler that held its entry was dropped or the process restarted meanwhile.
EnabledKeysAreAdmitted ==
  lock = NoRequest =>
    \A k \in DOMAIN rows : rows[k].enabled /\ users[rows[k].owner].enabled =>
                             k \in DOMAIN active \/ k \in lost

\* The keys admitted from memory follow the rows of the database, both ways, however
\* changes of keys and of their owners overlap.
KeysFollowRows == AdmittedKeysAreEnabled /\ EnabledKeysAreAdmitted
=============================================================================
