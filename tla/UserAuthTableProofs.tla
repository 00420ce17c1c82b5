------------------------ MODULE UserAuthTableProofs -------------------------
(***************************************************************************)
(* The inductive invariant of UserAuth, and the proof that each step keeps *)
(* its part about the tables and the lock: the types, the admins, the      *)
(* invitations, the sessions and who holds the lock.                       *)
(***************************************************************************)
EXTENDS UserAuth, FiniteSetTheorems, TLAPS

-----------------------------------------------------------------------------
(* The inductive invariant. *)

Roles == {"super_admin", "user"}
User == [name : Names, role : Roles, enabled : BOOLEAN, epoch : Nat]
Session == [user : Nat, epoch : Nat, live : BOOLEAN, late : BOOLEAN]
Invite == [role : Roles, open : BOOLEAN]
Row == [owner : Nat, enabled : BOOLEAN, group : Groups]
Entry == [owner : Nat, group : Groups]
Request ==
  [pc : {"idle", "enabled"}]
    \union [pc : {"login"}, user : Nat, epoch : Nat]
    \union [pc : {"register"}, token : Nat, role : Roles]
    \union [pc : {"handler"}, session : Nat, actor : Nat, admin : BOOLEAN]
    \union [pc : {"create", "update", "written"}, key : Keys, row : Row]
    \union [pc : {"delete"}, key : Keys]
    \union [pc : {"enable"}, actor : Nat, admin : BOOLEAN, target : Nat, to : BOOLEAN]
    \union [pc : {"remove"}, actor : Nat, admin : BOOLEAN, target : Nat]

\* The tables, the cache and the handlers hold what their columns and fields say.
TablesOK ==
  /\ born \in Nat /\ initial \in Nat
  /\ users \in [DOMAIN users -> User] /\ DOMAIN users \subseteq 1..born
  /\ invites \in Seq(Invite)
  /\ sessions \in Seq(Session)
  /\ rows \in [DOMAIN rows -> Row] /\ DOMAIN rows \subseteq Keys
CacheOK ==
  /\ active \in [DOMAIN active -> Entry]
  /\ taken \in [DOMAIN taken -> Entry]
TypeOK ==
  /\ TablesOK /\ CacheOK
  /\ req \in [Requests -> Request]

\* Nothing happens before the setup; a user stays who is an enabled super_admin.
AdminInv ==
  /\ initial = NoUser =>
       /\ DOMAIN users = {} /\ owners \subseteq {NoUser}
       /\ invites = <<>> /\ sessions = <<>>
       /\ \A r \in Requests : req[r] = Idle
  /\ AdminRemains

\* An open invitation made nobody, a closed one exactly one user.
MadeBy(t, u) == <<t, u>> \in registered /\ \A p \in registered : p[1] = t => p = <<t, u>>
InviteInv ==
  /\ \A p \in registered : p[1] \in DOMAIN invites
  /\ \A t \in DOMAIN invites :
       IF invites[t].open THEN \A p \in registered : p[1] # t ELSE \E u \in 1..born : MadeBy(t, u)
  /\ \A r \in Requests : req[r].pc = "register" => req[r].token \in DOMAIN invites

\* The lock's holder is the one handler past taking it.
Locked == {"create", "update", "written", "delete", "enable", "enabled", "remove"}
LockInv ==
  /\ lock \in Requests \union {NoRequest}
  /\ \A r \in Requests : req[r].pc \in Locked <=> lock = r
  /\ lock = NoRequest => DOMAIN taken = {}

\* An entry of a key is the key owner's; it is backed when the row says the same.
Owned(k, entry) == k \in DOMAIN rows /\ entry.owner = rows[k].owner
Backed(k, entry) ==
  /\ Owned(k, entry)
  /\ k \notin blind => /\ rows[k].enabled /\ entry = ActiveOf(rows[k])
                       /\ users[rows[k].owner].enabled \/ k \in late

\* What the holder knows of its key or its user, and of what it took.
HolderInv(h) ==
  /\ h.pc = "create" => h.key \notin DOMAIN rows /\ DOMAIN taken = {}
  /\ h.pc = "update" => h.key \in DOMAIN rows /\ h.row.owner = rows[h.key].owner
  /\ h.pc = "written" =>
       /\ h.key \in DOMAIN rows /\ rows[h.key] = h.row
       /\ users[h.row.owner].enabled \/ ~h.row.enabled \/ h.key \in late
  /\ h.pc \in {"update", "written", "delete"} =>
       h.key \notin DOMAIN active /\ DOMAIN taken \subseteq {h.key}
  /\ h.pc = "enable" /\ h.to => DOMAIN taken = {}
  /\ h.pc = "remove" \/ (h.pc = "enable" /\ ~h.to) =>
       /\ \A k \in DOMAIN active : active[k].owner # h.target
       /\ \A k \in DOMAIN taken : taken[k].owner = h.target
  /\ h.pc = "enabled" => \A k \in DOMAIN taken : Owned(k, taken[k]) /\ ~rows[k].enabled
  /\ h.pc \in {"update", "delete", "enable", "remove"} =>
       \A k \in DOMAIN taken : Backed(k, taken[k])

\* An enabled key is in memory, on its way there, or its entry was dropped.
Accounted(k) ==
  \/ k \in DOMAIN active \/ k \in DOMAIN taken \/ k \in lost
  \/ lock # NoRequest /\ req[lock].pc = "written" /\ req[lock].key = k

KeyInv ==
  /\ \A k \in DOMAIN rows : rows[k].owner \in DOMAIN users
  /\ \A k \in DOMAIN active : Backed(k, active[k])
  /\ \A k \in DOMAIN rows : rows[k].enabled => Accounted(k)
  /\ lock # NoRequest => HolderInv(req[lock])

IInv == TypeOK /\ AdminInv /\ InviteInv /\ SessionsAreCurrent /\ LockInv /\ KeyInv

-----------------------------------------------------------------------------
(* Lemmas about handlers and tables. *)

\* What a handler remembers depends on its step.
LEMMA RequestFields ==
  ASSUME NEW x \in Request
  PROVE  /\ x.pc = "login" => x.user \in Nat /\ x.epoch \in Nat
         /\ x.pc = "register" => x.token \in Nat /\ x.role \in Roles
         /\ x.pc = "handler" => x.session \in Nat /\ x.actor \in Nat /\ x.admin \in BOOLEAN
         /\ x.pc \in {"create", "update", "written"} => x.key \in Keys /\ x.row \in Row
         /\ x.pc = "delete" => x.key \in Keys
         /\ x.pc \in {"enable", "remove"} =>
              x.actor \in Nat /\ x.admin \in BOOLEAN /\ x.target \in Nat
         /\ x.pc = "enable" => x.to \in BOOLEAN
  BY Zenon DEF Request

LEMMA RequestMade ==
  /\ Idle \in Request /\ [pc |-> "enabled"] \in Request
  /\ \A u, e \in Nat : [pc |-> "login", user |-> u, epoch |-> e] \in Request
  /\ \A t \in Nat, role \in Roles : [pc |-> "register", token |-> t, role |-> role] \in Request
  /\ \A i, u \in Nat, b \in BOOLEAN :
       [pc |-> "handler", session |-> i, actor |-> u, admin |-> b] \in Request
  /\ \A k \in Keys, row \in Row :
       /\ [pc |-> "create", key |-> k, row |-> row] \in Request
       /\ [pc |-> "update", key |-> k, row |-> row] \in Request
       /\ [pc |-> "written", key |-> k, row |-> row] \in Request
  /\ \A k \in Keys : [pc |-> "delete", key |-> k] \in Request
  /\ \A u, v \in Nat, a, b \in BOOLEAN :
       /\ [pc |-> "enable", actor |-> u, admin |-> a, target |-> v, to |-> b] \in Request
       /\ [pc |-> "remove", actor |-> u, admin |-> a, target |-> v] \in Request
  BY Zenon DEF Request, Idle

\* A step of one handler leaves the others where they are.
LEMMA RequestMoves ==
  ASSUME TypeOK, NEW r \in Requests, NEW x \in Request, req' = [req EXCEPT ![r] = x]
  PROVE  /\ req' \in [Requests -> Request]
         /\ req'[r] = x
         /\ \A q \in Requests : q # r => req'[q] = req[q]
  BY Zenon DEF TypeOK

\* The user table with a new user, and the users it already had.
LEMMA UserAdded ==
  ASSUME TablesOK, NEW name \in Names, NEW role \in Roles,
         users' = Put(users, born + 1, NewUser(name, role))
  PROVE  /\ users' \in [DOMAIN users' -> User]
         /\ DOMAIN users' = DOMAIN users \union {born + 1} /\ born + 1 \notin DOMAIN users
         /\ DOMAIN users' \subseteq 1..born + 1
         /\ users'[born + 1] = NewUser(name, role)
         /\ \A u \in DOMAIN users : users'[u] = users[u]
<1>1. NewUser(name, role) \in User
  BY Zenon DEF NewUser, User
<1>2. born + 1 \notin DOMAIN users /\ 1..born \subseteq 1..born + 1 /\ born + 1 \in 1..born + 1
  BY DEF TablesOK
<1>3. QED
  BY <1>1, <1>2, Zenon DEF TablesOK, Put

\* Revoking a user's sessions.
LEMMA RevokedSessions ==
  ASSUME TablesOK, NEW u
  PROVE  /\ Revoked(u) \in Seq(Session)
         /\ DOMAIN Revoked(u) = DOMAIN sessions
         /\ \A i \in DOMAIN sessions :
              /\ Revoked(u)[i].user = sessions[i].user
              /\ Revoked(u)[i].live => sessions[i].user # u /\ Revoked(u)[i] = sessions[i]
<1>1. sessions \in Seq(Session) /\ DOMAIN sessions = 1..Len(sessions) /\ Len(sessions) \in Nat
  BY DEF TablesOK
<1>2. \A i \in DOMAIN sessions : sessions[i] \in Session
  BY <1>1
<1>3. \A s \in Session : [s EXCEPT !.live = FALSE] \in Session
                         /\ [s EXCEPT !.live = FALSE].live = FALSE
                         /\ [s EXCEPT !.live = FALSE].user = s.user
  BY Zenon DEF Session
<1>4. Revoked(u) \in [1..Len(sessions) -> Session]
  BY <1>1, <1>2, <1>3, Zenon DEF Revoked
<1>5. Revoked(u) \in Seq(Session)
  BY <1>1, <1>4
<1>6. QED
  BY <1>1, <1>2, <1>3, <1>5, Zenon DEF Revoked

\* Granting a session.
LEMMA SessionAdded ==
  ASSUME TablesOK, NEW s \in Session
  PROVE  /\ Append(sessions, s) \in Seq(Session)
         /\ DOMAIN Append(sessions, s) = DOMAIN sessions \union {Len(sessions) + 1}
         /\ Append(sessions, s)[Len(sessions) + 1] = s
         /\ \A i \in DOMAIN sessions : Append(sessions, s)[i] = sessions[i]
  BY DEF TablesOK

\* Closing an invitation.
LEMMA InviteClosed ==
  ASSUME NEW t, NEW s \in Seq(Invite)
  PROVE  /\ [s EXCEPT ![t].open = FALSE] \in Seq(Invite)
         /\ DOMAIN [s EXCEPT ![t].open = FALSE] = DOMAIN s
         /\ t \in DOMAIN s => [s EXCEPT ![t].open = FALSE][t].open = FALSE
         /\ \A i \in DOMAIN s : i # t => [s EXCEPT ![t].open = FALSE][i] = s[i]
<1> DEFINE f == [s EXCEPT ![t].open = FALSE]
<1>1. DOMAIN s = 1..Len(s) /\ Len(s) \in Nat /\ \A i \in DOMAIN s : s[i] \in Invite
  OBVIOUS
<1>2. DOMAIN f = DOMAIN s
  BY Zenon
<1>3. t \in DOMAIN s => f[t] = [s[t] EXCEPT !.open = FALSE]
  BY Zenon
<1>4. \A i \in DOMAIN s : i # t => f[i] = s[i]
  BY Zenon
<1>5. \A x \in Invite : [x EXCEPT !.open = FALSE] \in Invite /\ [x EXCEPT !.open = FALSE].open = FALSE
  BY Zenon DEF Invite
<1>6. \A i \in DOMAIN s : f[i] \in Invite
  BY <1>1, <1>3, <1>4, <1>5, Zenon
<1>7. f \in [1..Len(s) -> Invite]
  BY <1>1, <1>2, <1>6, Zenon
<1>8. f \in Seq(Invite)
  BY <1>1, <1>7
<1>9. QED
  BY <1>1, <1>2, <1>3, <1>4, <1>5, <1>8, Zenon

\* Ending a session.
LEMMA SessionEnded ==
  ASSUME NEW j, NEW s \in Seq(Session)
  PROVE  /\ [s EXCEPT ![j].live = FALSE] \in Seq(Session)
         /\ DOMAIN [s EXCEPT ![j].live = FALSE] = DOMAIN s
         /\ \A i \in DOMAIN s : [s EXCEPT ![j].live = FALSE][i].live =>
                                  [s EXCEPT ![j].live = FALSE][i] = s[i]
<1> DEFINE f == [s EXCEPT ![j].live = FALSE]
<1>1. DOMAIN s = 1..Len(s) /\ Len(s) \in Nat /\ \A i \in DOMAIN s : s[i] \in Session
  OBVIOUS
<1>2. DOMAIN f = DOMAIN s
  BY Zenon
<1>3. j \in DOMAIN s => f[j] = [s[j] EXCEPT !.live = FALSE]
  BY Zenon
<1>4. \A i \in DOMAIN s : i # j => f[i] = s[i]
  BY Zenon
<1>5. \A x \in Session : [x EXCEPT !.live = FALSE] \in Session /\ [x EXCEPT !.live = FALSE].live = FALSE
  BY Zenon DEF Session
<1>6. \A i \in DOMAIN s : f[i] \in Session
  BY <1>1, <1>3, <1>4, <1>5, Zenon
<1>7. f \in [1..Len(s) -> Session]
  BY <1>1, <1>2, <1>6, Zenon
<1>8. f \in Seq(Session)
  BY <1>1, <1>7
<1>9. QED
  BY <1>1, <1>2, <1>3, <1>4, <1>5, <1>8, Zenon

\* Changing a user: the row has the new columns and a new epoch.
LEMMA RoleChanged ==
  ASSUME TablesOK, NEW u \in DOMAIN users, NEW role \in Roles,
         users' = [users EXCEPT ![u].role = role, ![u].epoch = @ + 1]
  PROVE  /\ users' \in [DOMAIN users -> User] /\ DOMAIN users' = DOMAIN users
         /\ users'[u].role = role /\ users'[u].enabled = users[u].enabled
         /\ \A v \in DOMAIN users : v # u => users'[v] = users[v]
<1>1. users[u] \in User
  BY Zenon DEF TablesOK
<1>2. DOMAIN users' = DOMAIN users /\ \A v \in DOMAIN users : v # u => users'[v] = users[v]
  BY Zenon
<1>3. users'[u] = [users[u] EXCEPT !.role = role, !.epoch = @ + 1]
  BY Zenon
<1>4. users'[u] \in User /\ users'[u].role = role /\ users'[u].enabled = users[u].enabled
  BY <1>1, <1>3 DEF User
<1>5. QED
  BY <1>2, <1>4, Zenon DEF TablesOK

LEMMA PasswordReset ==
  ASSUME TablesOK, NEW u \in DOMAIN users, users' = [users EXCEPT ![u].epoch = @ + 1]
  PROVE  /\ users' \in [DOMAIN users -> User] /\ DOMAIN users' = DOMAIN users
         /\ users'[u].role = users[u].role /\ users'[u].enabled = users[u].enabled
         /\ \A v \in DOMAIN users : v # u => users'[v] = users[v]
<1>1. users[u] \in User
  BY Zenon DEF TablesOK
<1>2. DOMAIN users' = DOMAIN users /\ \A v \in DOMAIN users : v # u => users'[v] = users[v]
  BY Zenon
<1>3. users'[u] = [users[u] EXCEPT !.epoch = @ + 1]
  BY Zenon
<1>4. /\ users'[u] \in User
      /\ users'[u].role = users[u].role /\ users'[u].enabled = users[u].enabled
  BY <1>1, <1>3 DEF User
<1>5. QED
  BY <1>2, <1>4, Zenon DEF TablesOK

LEMMA UserSwitched ==
  ASSUME TablesOK, NEW u \in DOMAIN users, NEW to \in BOOLEAN,
         users' = [users EXCEPT ![u].enabled = to, ![u].epoch = IF to THEN @ ELSE @ + 1]
  PROVE  /\ users' \in [DOMAIN users -> User] /\ DOMAIN users' = DOMAIN users
         /\ users'[u].role = users[u].role /\ users'[u].enabled = to
         /\ to => users'[u].epoch = users[u].epoch
         /\ \A v \in DOMAIN users : v # u => users'[v] = users[v]
<1>1. users[u] \in User
  BY Zenon DEF TablesOK
<1>2. DOMAIN users' = DOMAIN users /\ \A v \in DOMAIN users : v # u => users'[v] = users[v]
  BY Zenon
<1>3. users'[u] = [users[u] EXCEPT !.enabled = to, !.epoch = IF to THEN @ ELSE @ + 1]
  BY Zenon
<1>4. /\ users'[u] \in User
      /\ users'[u].role = users[u].role /\ users'[u].enabled = to
      /\ to => users'[u].epoch = users[u].epoch
  BY <1>1, <1>3 DEF User
<1>5. QED
  BY <1>2, <1>4, Zenon DEF TablesOK

-----------------------------------------------------------------------------
(* Types. *)

LEMMA StillTyped ==
  ASSUME TypeOK, UNCHANGED <<users, born, initial, invites, sessions, rows>>, CacheOK',
         req' \in [Requests -> Request]
  PROVE  TypeOK'
  BY Zenon DEF TypeOK, TablesOK

LEMMA SameCacheTyped ==
  ASSUME TypeOK, UNCHANGED cache
  PROVE  CacheOK'
  BY Zenon DEF TypeOK, CacheOK, cache

LEMMA DoneTyped ==
  ASSUME TypeOK, NEW r \in Requests, Done(r)
  PROVE  req' \in [Requests -> Request] /\ req'[r] = Idle
         /\ \A q \in Requests : q # r => req'[q] = req[q]
  BY RequestMoves, RequestMade, Zenon DEF Done

LEMMA SetupKeepsTypes ==
  ASSUME TypeOK, NEW name \in Names, Setup(name)
  PROVE  TypeOK'
<1>1. TablesOK /\ born + 1 \in Nat /\ "super_admin" \in Roles
  BY DEF TypeOK, TablesOK, Roles
<1>2. users' \in [DOMAIN users' -> User] /\ DOMAIN users' \subseteq 1..born + 1
  BY <1>1, UserAdded, Zenon DEF Setup
<1>3. NewSession(born + 1, 0) \in Session
  BY <1>1, Zenon DEF NewSession, Session
<1>4. sessions' \in Seq(Session)
  BY <1>1, <1>3, SessionAdded, Zenon DEF Setup
<1>5. TablesOK'
  BY <1>1, <1>2, <1>4, Zenon DEF Setup, TablesOK
<1>6. QED
  BY <1>5, SameCacheTyped, Zenon DEF TypeOK, Setup

LEMMA UserStepKeepsTypes ==
  ASSUME TypeOK, NEW r \in Requests, UserStep(r)
  PROVE  TypeOK'
<1>1. TablesOK /\ req[r] \in Request /\ \A u \in DOMAIN users : u \in Nat /\ users[u] \in User
  BY DEF TypeOK, TablesOK
<1>2. /\ \A t \in DOMAIN invites : t \in Nat /\ invites[t] \in Invite
      /\ \A i \in DOMAIN sessions : i \in Nat /\ sessions[i] \in Session
  BY <1>1 DEF TablesOK
<1>3. ASSUME NEW u, LoginCheck(r, u) PROVE TypeOK'
  <2>1. u \in Nat /\ users[u].epoch \in Nat
    BY <1>1, <1>3, Zenon DEF LoginCheck, User
  <2>2. [pc |-> "login", user |-> u, epoch |-> users[u].epoch] \in Request
    BY <2>1, RequestMade, Zenon
  <2>3. req' \in [Requests -> Request]
    BY <1>3, <2>2, RequestMoves, Zenon DEF LoginCheck
  <2>4. QED
    BY <1>3, <2>3, StillTyped, SameCacheTyped, Zenon DEF LoginCheck, dbVars
<1>4. ASSUME NEW t, RegisterCheck(r, t) PROVE TypeOK'
  <2>1. t \in Nat /\ invites[t].role \in Roles
    BY <1>2, <1>4, Zenon DEF RegisterCheck, Invite
  <2>2. [pc |-> "register", token |-> t, role |-> invites[t].role] \in Request
    BY <2>1, RequestMade, Zenon
  <2>3. req' \in [Requests -> Request]
    BY <1>4, <2>2, RequestMoves, Zenon DEF RegisterCheck
  <2>4. QED
    BY <1>4, <2>3, StillTyped, SameCacheTyped, Zenon DEF RegisterCheck, dbVars
<1>5. ASSUME NEW i, Authenticate(r, i) PROVE TypeOK'
  <2>1. i \in Nat /\ sessions[i].user \in Nat
    BY <1>2, <1>5, Zenon DEF Authenticate, Session
  <2>2. PICK b \in BOOLEAN : b = (users[sessions[i].user].role = "super_admin")
    BY Zenon
  <2>3. [pc |-> "handler", session |-> i, actor |-> sessions[i].user, admin |-> b] \in Request
    BY <2>1, RequestMade, Zenon
  <2>4. req' \in [Requests -> Request]
    BY <1>5, <2>2, <2>3, RequestMoves, Zenon DEF Authenticate
  <2>5. QED
    BY <1>5, <2>4, StillTyped, SameCacheTyped, Zenon DEF Authenticate, dbVars
<1>6. CASE LoginGrant(r)
  <2>1. NewSession(req[r].user, req[r].epoch) \in Session
    BY <1>1, <1>6, RequestFields, Zenon DEF LoginGrant, NewSession, Session
  <2>2. sessions' \in Seq(Session)
    BY <1>1, <1>6, <2>1, SessionAdded, Zenon DEF LoginGrant, TablesOK
  <2>3. req' \in [Requests -> Request]
    BY <1>6, DoneTyped, Zenon DEF LoginGrant, Done
  <2>4. TablesOK'
    BY <1>1, <1>6, <2>2, Zenon DEF LoginGrant, TablesOK
  <2>5. QED
    BY <1>6, <2>3, <2>4, SameCacheTyped, Zenon DEF TypeOK, LoginGrant, cache
<1>7. ASSUME NEW name \in Names, Register(r, name) PROVE TypeOK'
  <2>1. req[r].role \in Roles /\ req[r].token \in Nat /\ born + 1 \in Nat
    BY <1>1, <1>7, RequestFields DEF Register, TablesOK
  <2>2. users' \in [DOMAIN users' -> User] /\ DOMAIN users' \subseteq 1..born + 1
    BY <1>1, <1>7, <2>1, UserAdded, Zenon DEF Register
  <2>3. NewSession(born + 1, 0) \in Session
    BY <2>1, Zenon DEF NewSession, Session
  <2>4. sessions' \in Seq(Session)
    BY <1>1, <1>7, <2>3, SessionAdded, Zenon DEF Register
  <2>5. invites' \in Seq(Invite)
    BY <1>1, <1>7, InviteClosed, Zenon DEF Register, TablesOK
  <2>6. TablesOK'
    BY <1>1, <1>7, <2>1, <2>2, <2>4, <2>5, Zenon DEF Register, TablesOK
  <2>7. req' \in [Requests -> Request]
    BY <1>7, DoneTyped, Zenon DEF Register, Done
  <2>8. QED
    BY <1>7, <2>6, <2>7, SameCacheTyped, Zenon DEF TypeOK, Register, cache
<1>8. CASE RegisterRejected(r)
  BY <1>8, DoneTyped, StillTyped, SameCacheTyped, Zenon DEF RegisterRejected, Done, dbVars
<1>9. CASE Logout(r)
  <2>1. sessions' \in Seq(Session)
    BY <1>1, <1>9, SessionEnded, Zenon DEF Logout, TablesOK
  <2>2. TablesOK'
    BY <1>1, <1>9, <2>1, Zenon DEF Logout, TablesOK
  <2>3. QED
    BY <1>9, <2>2, DoneTyped, SameCacheTyped, Zenon DEF TypeOK, Logout
<1>10. ASSUME NEW role \in Roles, CreateInvitation(r, role) PROVE TypeOK'
  <2>1. invites' \in Seq(Invite)
    BY <1>1, <1>10 DEF CreateInvitation, TablesOK, Invite
  <2>2. TablesOK'
    BY <1>1, <1>10, <2>1, Zenon DEF CreateInvitation, TablesOK
  <2>3. QED
    BY <1>10, <2>2, DoneTyped, SameCacheTyped, Zenon DEF TypeOK, CreateInvitation
<1>11. ASSUME NEW u, NEW role \in Roles, SetUserRole(r, u, role) PROVE TypeOK'
  <2>1. users' \in [DOMAIN users' -> User] /\ DOMAIN users' = DOMAIN users
    BY <1>1, <1>11, RoleChanged, Zenon DEF SetUserRole
  <2>2. TablesOK'
    BY <1>1, <1>11, <2>1, RevokedSessions, Zenon DEF SetUserRole, TablesOK
  <2>3. QED
    BY <1>11, <2>2, DoneTyped, SameCacheTyped, Zenon DEF TypeOK, SetUserRole
<1>12. ASSUME NEW u, ResetUserPassword(r, u) PROVE TypeOK'
  <2>1. users' \in [DOMAIN users' -> User] /\ DOMAIN users' = DOMAIN users
    BY <1>1, <1>12, PasswordReset, Zenon DEF ResetUserPassword
  <2>2. TablesOK'
    BY <1>1, <1>12, <2>1, RevokedSessions, Zenon DEF ResetUserPassword, TablesOK
  <2>3. QED
    BY <1>12, <2>2, DoneTyped, SameCacheTyped, Zenon DEF TypeOK, ResetUserPassword
<1>13. CASE GainAccount(r)
  BY <1>13, DoneTyped, StillTyped, SameCacheTyped, Zenon DEF GainAccount
<1>14. QED
  BY <1>3, <1>4, <1>5, <1>6, <1>7, <1>8, <1>9, <1>10, <1>11, <1>12, <1>13, Zenon
     DEF UserStep, Roles

\* Taking entries out of the cache, forgetting them and putting them back.
LEMMA NoEntries ==
  DOMAIN <<>> = {} /\ <<>> \in [DOMAIN <<>> -> Entry]
  OBVIOUS

LEMMA Taking ==
  ASSUME TypeOK, NEW r \in Requests, NEW keys, NEW next \in Request, Take(r, keys, next)
  PROVE  /\ CacheOK'
         /\ req' \in [Requests -> Request] /\ req'[r] = next
         /\ \A q \in Requests : q # r => req'[q] = req[q]
         /\ DOMAIN active' = DOMAIN active \ keys /\ DOMAIN taken' = keys \intersect DOMAIN active
         /\ \A k \in DOMAIN active' : active'[k] = active[k]
         /\ \A k \in DOMAIN taken' : taken'[k] = active[k]
<1>1. req' \in [Requests -> Request] /\ req'[r] = next /\ \A q \in Requests : q # r => req'[q] = req[q]
  BY RequestMoves, Zenon DEF Take
<1>2. \A k \in DOMAIN active : active[k] \in Entry
  BY Zenon DEF TypeOK, CacheOK
<1>3. /\ DOMAIN active' = DOMAIN active \ keys /\ \A k \in DOMAIN active' : active'[k] = active[k]
      /\ active' \in [DOMAIN active' -> Entry]
  BY <1>2, Zenon DEF Take, Without
<1>4. /\ DOMAIN taken' = keys \intersect DOMAIN active /\ \A k \in DOMAIN taken' : taken'[k] = active[k]
      /\ taken' \in [DOMAIN taken' -> Entry]
  BY <1>2, Zenon DEF Take
<1>5. QED
  BY <1>1, <1>3, <1>4, Zenon DEF CacheOK

LEMMA Restoring ==
  ASSUME TypeOK, active' = Merged(taken, active), taken' = <<>>
  PROVE  /\ CacheOK'
         /\ DOMAIN active' = DOMAIN taken \union DOMAIN active
         /\ \A k \in DOMAIN taken : active'[k] = taken[k]
         /\ \A k \in DOMAIN active : k \notin DOMAIN taken => active'[k] = active[k]
<1>1. /\ \A k \in DOMAIN active : active[k] \in Entry
      /\ \A k \in DOMAIN taken : taken[k] \in Entry
  BY Zenon DEF TypeOK, CacheOK
<1>2. active' \in [DOMAIN active' -> Entry]
  BY <1>1, Zenon DEF Merged
<1>3. CacheOK'
  BY <1>2, NoEntries, Zenon DEF CacheOK
<1>4. QED
  BY <1>3, Zenon DEF Merged

LEMMA Releasing ==
  ASSUME TypeOK, active' = active, taken' = <<>>
  PROVE  CacheOK'
  BY NoEntries, Zenon DEF TypeOK, CacheOK

\* There is an oldest of any users, and after the setup an enabled super_admin other than
\* the one who is deleted.
LEMMA Oldest ==
  ASSUME NEW S \in SUBSET Nat, S # {}
  PROVE  Min(S) \in S
<1>1. PICK x \in S : \A y \in S : ~(<<y, x>> \in OpToRel(<, Nat))
  BY NatLessThanWellFounded, WFMin, Zenon
<1>2. OpToRel(<, Nat) = {ss \in Nat \X Nat : ss[1] < ss[2]}
  BY Zenon DEF OpToRel
<1>3. \A y \in S : <<y, x>> \notin {ss \in Nat \X Nat : ss[1] < ss[2]}
  BY <1>1, <1>2, Zenon
<1>4. ASSUME NEW y \in S PROVE x =< y
  <2>1. x \in Nat /\ y \in Nat /\ <<y, x>> \in Nat \X Nat
    BY Zenon
  <2>2. ~(<<y, x>>[1] < <<y, x>>[2])
    BY <1>3, <2>1, Zenon
  <2>3. QED
    BY <2>1, <2>2
<1>5. QED
  BY <1>4, Zenon DEF Min

LEMMA SomeoneStays ==
  ASSUME TypeOK, AdminInv, NEW r \in Requests, DeleteUserRow(r)
  PROVE  /\ initial # NoUser /\ initial' \in Nat /\ initial' # NoUser
         /\ \E v \in DOMAIN users \ {req[r].target} : EnabledAdmin(v)
<1> DEFINE u == req[r].target
<1>1. initial # NoUser
  BY Zenon DEF DeleteUserRow, AdminInv, Idle
<1>2. PICK v \in DOMAIN users \ {u} : EnabledAdmin(v)
  BY <1>1, Zenon DEF AdminInv, AdminRemains, DeleteUserRow, AdminRemainsWithout
<1>3. DOMAIN users \ {u} \in SUBSET (Nat \ {0}) /\ DOMAIN users \ {u} \in SUBSET Nat
  BY DEF TypeOK, TablesOK
<1>4. Min(DOMAIN users \ {u}) \in Nat \ {0}
  BY <1>2, <1>3, Oldest, Zenon
<1>5. initial' = IF initial = u THEN Min(DOMAIN users \ {u}) ELSE initial
  BY Zenon DEF DeleteUserRow
<1>6. initial' \in Nat /\ initial' # NoUser
  BY <1>1, <1>4, <1>5, Zenon DEF TypeOK, TablesOK, NoUser
<1>7. QED
  BY <1>1, <1>2, <1>6, Zenon

LEMMA KeyStepKeepsTypes ==
  ASSUME TypeOK, AdminInv, NEW r \in Requests, KeyStep(r)
  PROVE  TypeOK'
<1>1. TablesOK /\ req[r] \in Request /\ \A u \in DOMAIN users : u \in Nat
  BY DEF TypeOK, TablesOK
<1>2. \A k \in DOMAIN rows : k \in Keys /\ rows[k] \in Row
  BY <1>1, Zenon DEF TablesOK
<1>3. \A u \in 1..born : u \in Nat
  BY <1>1 DEF TablesOK
<1>4. ASSUME NEW k \in Keys, NEW g \in Groups, CreateKeyStart(r, k, g) PROVE TypeOK'
  <2>1. [owner |-> req[r].actor, enabled |-> TRUE, group |-> g] \in Row
    BY <1>1, <1>4, RequestFields, Zenon DEF CreateKeyStart, Take, Row
  <2>2. [pc |-> "create", key |-> k,
         row |-> [owner |-> req[r].actor, enabled |-> TRUE, group |-> g]] \in Request
    BY <2>1, RequestMade, Zenon
  <2>3. CacheOK' /\ req' \in [Requests -> Request]
    BY <1>4, <2>2, Taking, Zenon DEF CreateKeyStart
  <2>4. QED
    BY <1>4, <2>3, StillTyped, Zenon DEF CreateKeyStart, dbVars
<1>5. ASSUME NEW k \in Keys, NEW e \in BOOLEAN, NEW g \in Groups, UpdateKeyStart(r, k, e, g)
      PROVE  TypeOK'
  <2>1. [owner |-> rows[k].owner, enabled |-> e, group |-> g] \in Row
    BY <1>2, <1>5, Zenon DEF UpdateKeyStart, Row
  <2>2. [pc |-> "update", key |-> k,
         row |-> [owner |-> rows[k].owner, enabled |-> e, group |-> g]] \in Request
    BY <2>1, RequestMade, Zenon
  <2>3. CacheOK' /\ req' \in [Requests -> Request]
    BY <1>5, <2>2, Taking, Zenon DEF UpdateKeyStart
  <2>4. QED
    BY <1>5, <2>3, StillTyped, Zenon DEF UpdateKeyStart, dbVars
<1>6. CASE WriteKeyRow(r)
  <2>1. req[r].key \in Keys /\ req[r].row \in Row
    BY <1>1, <1>6, RequestFields, Zenon DEF WriteKeyRow
  <2>2. [pc |-> "written", key |-> req[r].key, row |-> req[r].row] \in Request
    BY <2>1, RequestMade, Zenon
  <2>3. req' \in [Requests -> Request]
    BY <1>6, <2>2, RequestMoves, Zenon DEF WriteKeyRow
  <2>4. rows' \in [DOMAIN rows' -> Row] /\ DOMAIN rows' \subseteq Keys
    BY <1>2, <1>6, <2>1, Zenon DEF WriteKeyRow, Put
  <2>5. TablesOK'
    BY <1>1, <1>6, <2>4, Zenon DEF WriteKeyRow, TablesOK
  <2>6. QED
    BY <1>6, <2>3, <2>5, SameCacheTyped, Zenon DEF TypeOK, WriteKeyRow
<1>7. CASE CacheKey(r)
  <2>1. req[r].row \in Row
    BY <1>1, <1>7, RequestFields, Zenon DEF CacheKey
  <2>2. ActiveOf(req[r].row) \in Entry /\ \A k \in DOMAIN active : active[k] \in Entry
    BY <2>1, Zenon DEF ActiveOf, Row, Entry, TypeOK, CacheOK
  <2>3. active' \in [DOMAIN active' -> Entry]
    BY <1>7, <2>2, Zenon DEF CacheKey, Put, TypeOK, CacheOK
  <2>4. CacheOK'
    BY <1>7, <2>3, NoEntries, Zenon DEF CacheKey, Release, CacheOK
  <2>5. QED
    BY <1>7, <2>4, DoneTyped, StillTyped, Zenon DEF CacheKey, Release, dbVars
<1>8. ASSUME NEW k \in Keys, DeleteKeyStart(r, k) PROVE TypeOK'
  <2>1. [pc |-> "delete", key |-> k] \in Request
    BY RequestMade, Zenon
  <2>2. CacheOK' /\ req' \in [Requests -> Request]
    BY <1>8, <2>1, Taking, Zenon DEF DeleteKeyStart
  <2>3. QED
    BY <1>8, <2>2, StillTyped, Zenon DEF DeleteKeyStart, dbVars
<1>9. CASE DeleteKeyRow(r)
  <2>1. rows' \in [DOMAIN rows' -> Row] /\ DOMAIN rows' \subseteq Keys
    BY <1>2, <1>9, Zenon DEF DeleteKeyRow, Without
  <2>2. TablesOK'
    BY <1>1, <1>9, <2>1, Zenon DEF DeleteKeyRow, TablesOK
  <2>3. QED
    BY <1>9, <2>2, DoneTyped, Releasing, Zenon DEF TypeOK, DeleteKeyRow, Release
<1>10. ASSUME NEW u \in 1..born, NEW e \in BOOLEAN, SetUserEnabledStart(r, u, e) PROVE TypeOK'
  <2>1. req[r].actor \in Nat /\ req[r].admin \in BOOLEAN
    BY <1>1, <1>10, RequestFields, Zenon DEF SetUserEnabledStart, Take
  <2>2. [pc |-> "enable", actor |-> req[r].actor, admin |-> req[r].admin, target |-> u, to |-> e]
          \in Request
    BY <1>3, <2>1, RequestMade, Zenon
  <2>3. CacheOK' /\ req' \in [Requests -> Request]
    BY <1>10, <2>2, Taking, Zenon DEF SetUserEnabledStart
  <2>4. QED
    BY <1>10, <2>3, StillTyped, Zenon DEF SetUserEnabledStart, dbVars
<1>11. ASSUME NEW u \in 1..born, DeleteUserStart(r, u) PROVE TypeOK'
  <2>1. req[r].actor \in Nat /\ req[r].admin \in BOOLEAN
    BY <1>1, <1>11, RequestFields, Zenon DEF DeleteUserStart, Take
  <2>2. [pc |-> "remove", actor |-> req[r].actor, admin |-> req[r].admin, target |-> u] \in Request
    BY <1>3, <2>1, RequestMade, Zenon
  <2>3. CacheOK' /\ req' \in [Requests -> Request]
    BY <1>11, <2>2, Taking, Zenon DEF DeleteUserStart
  <2>4. QED
    BY <1>11, <2>3, StillTyped, Zenon DEF DeleteUserStart, dbVars
<1>12. CASE SetUserEnabledRow(r)
  <2>1. req[r].to \in BOOLEAN /\ req[r].target \in DOMAIN users
    BY <1>1, <1>12, RequestFields, Zenon DEF SetUserEnabledRow
  <2>2. users' \in [DOMAIN users' -> User] /\ DOMAIN users' = DOMAIN users
    BY <1>1, <1>12, <2>1, UserSwitched, Zenon DEF SetUserEnabledRow
  <2>3. sessions' \in Seq(Session)
    BY <1>1, <1>12, RevokedSessions, Zenon DEF SetUserEnabledRow, TablesOK
  <2>4. \A x \in Row : [x EXCEPT !.enabled = FALSE] \in Row
    BY Zenon DEF Row
  <2>5. rows' \in [DOMAIN rows' -> Row] /\ DOMAIN rows' = DOMAIN rows
    BY <1>2, <1>12, <2>4, Zenon DEF SetUserEnabledRow
  <2>6. TablesOK'
    BY <1>1, <1>12, <2>2, <2>3, <2>5, Zenon DEF SetUserEnabledRow, TablesOK
  <2>7. req' \in [Requests -> Request]
    BY <1>12, RequestMade, RequestMoves, Zenon DEF SetUserEnabledRow
  <2>8. QED
    BY <1>12, <2>6, <2>7, SameCacheTyped, Zenon DEF TypeOK, SetUserEnabledRow
<1>13. CASE SetUserEnabledEnd(r)
  BY <1>13, DoneTyped, Releasing, StillTyped, Zenon DEF SetUserEnabledEnd, Release, dbVars
<1>14. CASE SetUserEnabledUnread(r) \/ Reject(r) \/ DatabaseError(r)
  BY <1>14, DoneTyped, Restoring, StillTyped, Zenon
     DEF SetUserEnabledUnread, Reject, DatabaseError, Restore, Release, dbVars
<1>15. CASE DeleteUserRow(r)
  <2>1. /\ users' \in [DOMAIN users' -> User] /\ DOMAIN users' \subseteq DOMAIN users
        /\ rows' \in [DOMAIN rows' -> Row] /\ DOMAIN rows' \subseteq Keys
        /\ sessions' \in Seq(Session)
    BY <1>1, <1>2, <1>15, RevokedSessions, Zenon DEF DeleteUserRow, Without, TablesOK
  <2>2. initial' \in Nat
    BY <1>15, SomeoneStays, Zenon
  <2>3. TablesOK'
    BY <1>1, <1>15, <2>1, <2>2, Zenon DEF DeleteUserRow, TablesOK
  <2>4. QED
    BY <1>15, <2>3, DoneTyped, Releasing, Zenon DEF TypeOK, DeleteUserRow, Release
<1>16. CASE Disconnect(r)
  <2>1. CacheOK'
    BY <1>16, NoEntries, Zenon DEF Disconnect, TypeOK, CacheOK
  <2>2. QED
    BY <1>16, <2>1, DoneTyped, StillTyped, Zenon DEF Disconnect, dbVars
<1>17. QED
  BY <1>4, <1>5, <1>6, <1>7, <1>8, <1>9, <1>10, <1>11, <1>12, <1>13, <1>14, <1>15, <1>16, Zenon
     DEF KeyStep

LEMMA NextKeepsTypes ==
  ASSUME TypeOK, AdminInv, [Next]_vars
  PROVE  TypeOK'
<1>1. CASE Restart
  <2>1. \A k \in DOMAIN rows : ActiveOf(rows[k]) \in Entry
    BY Zenon DEF TypeOK, TablesOK, ActiveOf, Row, Entry
  <2>2. active' \in [DOMAIN active' -> Entry]
    BY <1>1, <2>1, Zenon DEF Restart
  <2>3. CacheOK'
    BY <1>1, <2>2, NoEntries, Zenon DEF Restart, CacheOK
  <2>4. req' \in [Requests -> Request]
    BY <1>1, RequestMade, Zenon DEF Restart
  <2>5. QED
    BY <1>1, <2>3, <2>4, StillTyped, Zenon DEF Restart, dbVars
<1>2. CASE UNCHANGED vars
  BY <1>2, StillTyped, SameCacheTyped, Zenon DEF vars, dbVars, TypeOK
<1>3. QED
  BY <1>1, <1>2, SetupKeepsTypes, UserStepKeepsTypes, KeyStepKeepsTypes, Zenon DEF Next

-----------------------------------------------------------------------------
(* An enabled super_admin remains. *)

\* Before the setup no handler gets anywhere.
LEMMA NothingBefore ==
  ASSUME TypeOK, AdminInv, NEW r \in Requests, UserStep(r) \/ KeyStep(r)
  PROVE  initial # NoUser
<1>1. SUFFICES ASSUME initial = NoUser PROVE FALSE
  BY Zenon
<1>2. DOMAIN users = {} /\ DOMAIN invites = {} /\ DOMAIN sessions = {} /\ req[r].pc = "idle"
  BY <1>1 DEF AdminInv, Idle
<1>3. CASE UserStep(r)
  BY <1>2, <1>3, Zenon DEF UserStep, LoginCheck, RegisterCheck, Authenticate, LoginGrant, Register,
     RegisterRejected, Logout, CreateInvitation, SetUserRole, ResetUserPassword, GainAccount
<1>4. CASE KeyStep(r)
  BY <1>2, <1>4, Zenon DEF KeyStep, CreateKeyStart, UpdateKeyStart, WriteKeyRow, CacheKey,
     DeleteKeyStart, DeleteKeyRow, SetUserEnabledStart, DeleteUserStart, SetUserEnabledRow,
     SetUserEnabledEnd, SetUserEnabledUnread, DeleteUserRow, Reject, Refused, DatabaseError,
     Disconnect, Take
<1>5. QED
  BY <1>3, <1>4, Zenon

\* An enabled super_admin the step leaves alone is enough.
LEMMA AdminStays ==
  ASSUME initial' # NoUser, owners' \subseteq DOMAIN users',
         \E v \in DOMAIN users' : users'[v].role = "super_admin" /\ users'[v].enabled
  PROVE  AdminInv'
  BY Zenon DEF AdminInv, AdminRemains, EnabledAdmin

LEMMA SameAdmins ==
  ASSUME AdminInv, initial # NoUser, UNCHANGED <<users, initial, owners>>
  PROVE  AdminInv'
  BY AdminStays, Zenon DEF AdminInv, AdminRemains, EnabledAdmin

LEMMA SetupKeepsAdmin ==
  ASSUME TypeOK, AdminInv, NEW name \in Names, Setup(name)
  PROVE  AdminInv'
<1>1. TablesOK /\ born + 1 # NoUser /\ "super_admin" \in Roles
  BY DEF TypeOK, TablesOK, Roles, NoUser
<1>2. /\ DOMAIN users' = DOMAIN users \union {born + 1}
      /\ users'[born + 1] = NewUser(name, "super_admin")
  BY <1>1, UserAdded, Zenon DEF Setup
<1>3. users'[born + 1].role = "super_admin" /\ users'[born + 1].enabled
  BY <1>2 DEF NewUser
<1>4. owners' \subseteq {born + 1}
  BY Zenon DEF Setup, AdminInv
<1>5. initial' # NoUser
  BY <1>1, Zenon DEF Setup
<1>6. QED
  BY <1>2, <1>3, <1>4, <1>5, AdminStays, Zenon

LEMMA UserStepKeepsAdmin ==
  ASSUME TypeOK, AdminInv, NEW r \in Requests, UserStep(r)
  PROVE  AdminInv'
<1>1. TablesOK /\ initial # NoUser /\ owners \subseteq DOMAIN users /\ req[r] \in Request
  BY NothingBefore, Zenon DEF TypeOK, AdminInv, AdminRemains
<1>2. PICK v \in DOMAIN users : users[v].role = "super_admin" /\ users[v].enabled
  BY <1>1, Zenon DEF AdminInv, AdminRemains, EnabledAdmin
<1>3. ASSUME NEW name \in Names, Register(r, name) PROVE AdminInv'
  <2>1. req[r].role \in Roles
    BY <1>1, <1>3, RequestFields, Zenon DEF Register
  <2>2. DOMAIN users' = DOMAIN users \union {born + 1} /\ \A u \in DOMAIN users : users'[u] = users[u]
    BY <1>1, <1>3, <2>1, UserAdded, Zenon DEF Register
  <2>3. UNCHANGED <<initial, owners>>
    BY <1>3, Zenon DEF Register
  <2>4. QED
    BY <1>1, <1>2, <2>2, <2>3, AdminStays, Zenon
<1>4. ASSUME NEW u, NEW role \in Roles, SetUserRole(r, u, role) PROVE AdminInv'
  <2>1. /\ DOMAIN users' = DOMAIN users /\ u \in DOMAIN users
        /\ users'[u].role = role /\ users'[u].enabled = users[u].enabled
        /\ \A w \in DOMAIN users : w # u => users'[w] = users[w]
    BY <1>1, <1>4, RoleChanged, Zenon DEF SetUserRole
  <2>2. UNCHANGED <<initial, owners>>
    BY <1>4, Zenon DEF SetUserRole
  <2>3. PICK w \in DOMAIN users : /\ users[w].role = "super_admin" /\ users[w].enabled
                                  /\ w = u => role = "super_admin"
    BY <1>2, <1>4, Zenon DEF SetUserRole, AdminRemainsWithout, EnabledAdmin
  <2>4. users'[w].role = "super_admin" /\ users'[w].enabled
    BY <2>1, <2>3, Zenon
  <2>5. QED
    BY <1>1, <2>1, <2>2, <2>4, AdminStays, Zenon
<1>5. ASSUME NEW u, ResetUserPassword(r, u) PROVE AdminInv'
  <2>1. /\ DOMAIN users' = DOMAIN users /\ u \in DOMAIN users
        /\ users'[u].role = users[u].role /\ users'[u].enabled = users[u].enabled
        /\ \A w \in DOMAIN users : w # u => users'[w] = users[w]
    BY <1>1, <1>5, PasswordReset, Zenon DEF ResetUserPassword
  <2>2. UNCHANGED <<initial, owners>>
    BY <1>5, Zenon DEF ResetUserPassword
  <2>3. users'[v].role = "super_admin" /\ users'[v].enabled
    BY <1>2, <2>1, Zenon
  <2>4. QED
    BY <1>1, <2>1, <2>2, <2>3, AdminStays, Zenon
<1>6. CASE GainAccount(r)
  <2>1. UNCHANGED <<initial, users>> /\ owners' \subseteq DOMAIN users
    BY <1>1, <1>6, Zenon DEF GainAccount
  <2>2. QED
    BY <1>1, <1>2, <2>1, AdminStays, Zenon
<1>7. CASE \/ \E u \in 1..born : LoginCheck(r, u)
           \/ \E t \in DOMAIN invites : RegisterCheck(r, t)
           \/ \E i \in DOMAIN sessions : Authenticate(r, i)
           \/ LoginGrant(r) \/ RegisterRejected(r) \/ Logout(r)
           \/ \E role \in Roles : CreateInvitation(r, role)
  <2>1. UNCHANGED <<users, initial, owners>>
    BY <1>7, Zenon DEF LoginCheck, RegisterCheck, Authenticate, LoginGrant, RegisterRejected, Logout,
       CreateInvitation, dbVars
  <2>2. QED
    BY <1>1, <2>1, SameAdmins, Zenon
<1>8. QED
  BY <1>3, <1>4, <1>5, <1>6, <1>7, Zenon DEF UserStep, Roles

LEMMA KeyStepKeepsAdmin ==
  ASSUME TypeOK, AdminInv, NEW r \in Requests, KeyStep(r)
  PROVE  AdminInv'
<1>1. TablesOK /\ initial # NoUser /\ owners \subseteq DOMAIN users /\ req[r] \in Request
  BY NothingBefore, Zenon DEF TypeOK, AdminInv, AdminRemains
<1>2. PICK v \in DOMAIN users : users[v].role = "super_admin" /\ users[v].enabled
  BY <1>1, Zenon DEF AdminInv, AdminRemains, EnabledAdmin
<1>3. CASE SetUserEnabledRow(r)
  <2> DEFINE u == req[r].target
  <2>1. u \in DOMAIN users /\ req[r].to \in BOOLEAN
    BY <1>1, <1>3, RequestFields, Zenon DEF SetUserEnabledRow
  <2>2. /\ DOMAIN users' = DOMAIN users
        /\ users'[u].role = users[u].role /\ users'[u].enabled = req[r].to
        /\ \A w \in DOMAIN users : w # u => users'[w] = users[w]
    BY <1>1, <1>3, <2>1, UserSwitched, Zenon DEF SetUserEnabledRow
  <2>3. UNCHANGED <<initial, owners>>
    BY <1>3, Zenon DEF SetUserEnabledRow
  <2>4. PICK w \in DOMAIN users : /\ users[w].role = "super_admin" /\ users[w].enabled
                                  /\ w = u => req[r].to
    BY <1>2, <1>3, Zenon DEF SetUserEnabledRow, AdminRemainsWithout, EnabledAdmin
  <2>5. users'[w].role = "super_admin" /\ users'[w].enabled
    BY <2>2, <2>4, Zenon
  <2>6. QED
    BY <1>1, <2>2, <2>3, <2>5, AdminStays, Zenon
<1>4. CASE DeleteUserRow(r)
  <2> DEFINE u == req[r].target
  <2>1. PICK w \in DOMAIN users \ {u} : EnabledAdmin(w)
    BY <1>4, SomeoneStays, Zenon
  <2>2. initial' # NoUser
    BY <1>4, SomeoneStays, Zenon
  <2>3. DOMAIN users' = DOMAIN users \ {u} /\ users'[w] = users[w]
    BY <1>4, Zenon DEF DeleteUserRow, Without
  <2>4. owners' \subseteq DOMAIN users'
    BY <1>1, <1>4, <2>3, Zenon DEF DeleteUserRow
  <2>5. QED
    BY <2>1, <2>2, <2>3, <2>4, AdminStays, Zenon DEF EnabledAdmin
<1>5. CASE ~SetUserEnabledRow(r) /\ ~DeleteUserRow(r)
  <2>1. UNCHANGED <<users, initial, owners>>
    BY <1>5, Zenon DEF KeyStep, CreateKeyStart, UpdateKeyStart, WriteKeyRow, CacheKey, DeleteKeyStart,
       DeleteKeyRow, SetUserEnabledStart, DeleteUserStart, SetUserEnabledEnd,
       SetUserEnabledUnread, Reject, DatabaseError, Disconnect, dbVars
  <2>2. QED
    BY <1>1, <2>1, SameAdmins, Zenon
<1>6. QED
  BY <1>3, <1>4, <1>5, Zenon

LEMMA NextKeepsAdmin ==
  ASSUME TypeOK, AdminInv, [Next]_vars
  PROVE  AdminInv'
<1>1. CASE Restart
  <2>1. UNCHANGED <<users, initial, owners, invites, sessions>>
    BY <1>1, Zenon DEF Restart, dbVars
  <2>2. \A r \in Requests : req'[r] = Idle
    BY <1>1, Zenon DEF Restart
  <2>3. QED
    BY <2>1, <2>2, Zenon DEF AdminInv, AdminRemains, EnabledAdmin
<1>2. CASE UNCHANGED vars
  BY <1>2, Zenon DEF vars, dbVars, AdminInv, AdminRemains, EnabledAdmin
<1>3. QED
  BY <1>1, <1>2, SetupKeepsAdmin, UserStepKeepsAdmin, KeyStepKeepsAdmin, Zenon DEF Next

-----------------------------------------------------------------------------
(* An invitation makes one user. *)

\* Invitations and registrations stay, and no handler starts to register.
LEMMA SameInvites ==
  ASSUME TypeOK, InviteInv, UNCHANGED <<invites, registered, born>>,
         NEW r \in Requests, \A q \in Requests : q # r => req'[q] = req[q],
         req'[r].pc # "register" \/ req'[r].token \in DOMAIN invites
  PROVE  InviteInv'
<1>1. \A q \in Requests : req'[q].pc = "register" => req'[q].token \in DOMAIN invites'
  BY Zenon DEF InviteInv
<1>2. QED
  BY <1>1, Zenon DEF InviteInv, MadeBy

LEMMA DoneInvites ==
  ASSUME TypeOK, InviteInv, UNCHANGED <<invites, registered, born>>, NEW r \in Requests, Done(r)
  PROVE  InviteInv'
  BY SameInvites, DoneTyped DEF Idle

\* Another user leaves the invitations as they are.
LEMMA BornInvites ==
  ASSUME TypeOK, InviteInv, UNCHANGED <<invites, registered, req>>, born' = born + 1
  PROVE  InviteInv'
<1>1. 1..born \subseteq 1..born'
  BY DEF TypeOK, TablesOK
<1>2. QED
  BY <1>1, Zenon DEF InviteInv, MadeBy

LEMMA RegisterKeepsInvites ==
  ASSUME TypeOK, InviteInv, NEW r \in Requests, NEW name, Register(r, name)
  PROVE  InviteInv'
<1>1. PICK t, n : t = req[r].token /\ n = born + 1
  BY Zenon
<1>2. /\ invites \in Seq(Invite) /\ invites[t].open /\ t \in DOMAIN invites
      /\ born \in Nat /\ n = born + 1 /\ born' = n
      /\ invites' = [invites EXCEPT ![t].open = FALSE]
      /\ registered' = registered \union {<<t, n>>}
  BY <1>1, Zenon DEF TypeOK, TablesOK, Register, InviteInv
<1>3. /\ DOMAIN invites' = DOMAIN invites /\ invites'[t].open = FALSE
      /\ \A i \in DOMAIN invites : i # t => invites'[i] = invites[i]
  BY <1>2, InviteClosed, Zenon
<1>4. 1..born \subseteq 1..born' /\ n \in 1..born'
  BY <1>2
<1>5. /\ req'[r].pc = "idle"
      /\ \A q \in Requests : q # r => req'[q] = req[q]
  BY DoneTyped, Zenon DEF Register, Done, Idle
<1>6. \A q \in Requests : req'[q].pc = "register" => req'[q].token \in DOMAIN invites'
  BY <1>3, <1>5, Zenon DEF InviteInv
<1>7. \A p \in registered' : p[1] \in DOMAIN invites'
  BY <1>2, <1>3 DEF InviteInv
<1>8. MadeBy(t, n)'
  <2>1. \A p \in registered : p[1] # t
    BY <1>2, Zenon DEF InviteInv
  <2>2. QED
    BY <1>2, <2>1, Zenon DEF MadeBy
<1>9. ASSUME NEW i \in DOMAIN invites, i # t
      PROVE  IF invites[i].open THEN \A p \in registered' : p[1] # i
             ELSE \E u \in 1..born' : MadeBy(i, u)'
  <2>1. CASE invites[i].open
    BY <1>2, <1>9, <2>1 DEF InviteInv
  <2>2. CASE ~invites[i].open
    <3>1. PICK u \in 1..born : MadeBy(i, u)
      BY <2>2, Zenon DEF InviteInv
    <3>2. MadeBy(i, u)'
      BY <1>2, <1>9, <3>1 DEF MadeBy
    <3>3. QED
      BY <1>4, <2>2, <3>2, Zenon
  <2>3. QED
    BY <2>1, <2>2, Zenon
<1>10. \A i \in DOMAIN invites' : IF invites'[i].open THEN \A p \in registered' : p[1] # i
                                 ELSE \E u \in 1..born' : MadeBy(i, u)'
  <2>1. ASSUME NEW i \in DOMAIN invites
        PROVE  IF invites'[i].open THEN \A p \in registered' : p[1] # i
               ELSE \E u \in 1..born' : MadeBy(i, u)'
    <3>1. CASE i = t
      BY <1>3, <1>4, <1>8, <3>1, Zenon
    <3>2. CASE i # t
      BY <1>3, <1>9, <3>2, Zenon
    <3>3. QED
      BY <3>1, <3>2, Zenon
  <2>2. QED
    BY <1>3, <2>1, Zenon
<1>11. QED
  BY <1>6, <1>7, <1>10, Zenon DEF InviteInv

LEMMA NextKeepsInvites ==
  ASSUME TypeOK, InviteInv, [Next]_vars
  PROVE  InviteInv'
<1>1. ASSUME NEW name \in Names, Setup(name) PROVE InviteInv'
  BY <1>1, BornInvites, Zenon DEF Setup
<1>2. ASSUME NEW r \in Requests, NEW t, RegisterCheck(r, t) PROVE InviteInv'
  <2>1. PICK x : x = [pc |-> "register", token |-> t, role |-> invites[t].role]
    BY Zenon
  <2>2. /\ req'[r] = x /\ x.token = t /\ t \in DOMAIN invites
        /\ \A q \in Requests : q # r => req'[q] = req[q]
    BY <1>2, <2>1, Zenon DEF TypeOK, RegisterCheck
  <2>3. QED
    BY <1>2, <2>2, SameInvites, Zenon DEF RegisterCheck, dbVars
<1>3. ASSUME NEW r \in Requests, NEW role, CreateInvitation(r, role) PROVE InviteInv'
  <2>1. PICK x : x = [role |-> role, open |-> TRUE]
    BY Zenon
  <2>2. invites \in Seq(Invite) /\ invites' = Append(invites, x) /\ x.open
    BY <1>3, <2>1, Zenon DEF CreateInvitation, TypeOK, TablesOK
  <2>3. /\ DOMAIN invites' = DOMAIN invites \union {Len(invites) + 1}
        /\ Len(invites) + 1 \notin DOMAIN invites
        /\ invites'[Len(invites) + 1] = x
        /\ \A i \in DOMAIN invites : invites'[i] = invites[i]
    BY <2>2
  <2>4. /\ registered' = registered /\ born' = born /\ req'[r].pc = "idle"
        /\ \A q \in Requests : q # r => req'[q] = req[q]
    BY <1>3, DoneTyped DEF CreateInvitation, Idle
  <2>5. /\ \A q \in Requests : req'[q].pc = "register" => req'[q].token \in DOMAIN invites'
        /\ \A p \in registered' : p[1] \in DOMAIN invites' /\ p[1] # Len(invites) + 1
    BY <2>3, <2>4, Zenon DEF InviteInv
  <2>6. ASSUME NEW i \in DOMAIN invites'
        PROVE  IF invites'[i].open THEN \A p \in registered' : p[1] # i
               ELSE \E u \in 1..born' : MadeBy(i, u)'
    <3>1. CASE i = Len(invites) + 1
      BY <2>2, <2>3, <2>5, <3>1, Zenon
    <3>2. CASE i \in DOMAIN invites
      BY <2>3, <2>4, <3>2, Zenon DEF InviteInv, MadeBy
    <3>3. QED
      BY <2>3, <3>1, <3>2, Zenon
  <2>7. QED
    BY <2>5, <2>6, Zenon DEF InviteInv
<1>4. ASSUME NEW r \in Requests, \E u : LoginCheck(r, u) \/ \E i : Authenticate(r, i)
      PROVE  InviteInv'
  <2>1. /\ UNCHANGED <<invites, registered, born>>
        /\ \A q \in Requests : q # r => req'[q] = req[q]
    BY <1>4, Zenon DEF LoginCheck, Authenticate, dbVars, TypeOK
  <2>2. req'[r].pc # "register"
    BY <1>4 DEF LoginCheck, Authenticate, TypeOK
  <2>3. QED
    BY <2>1, <2>2, SameInvites, Zenon
<1>5. ASSUME NEW r \in Requests,
             \/ LoginGrant(r) \/ RegisterRejected(r) \/ Logout(r) \/ GainAccount(r)
             \/ \E u : ResetUserPassword(r, u) \/ \E role : SetUserRole(r, u, role)
      PROVE  InviteInv'
  <2>1. UNCHANGED <<invites, registered, born>> /\ Done(r)
    BY <1>5, Zenon DEF LoginGrant, RegisterRejected, Logout, GainAccount, ResetUserPassword,
       SetUserRole, Done, dbVars
  <2>2. QED
    BY <2>1, DoneInvites, Zenon
<1>6. ASSUME NEW r \in Requests, KeyStep(r) PROVE InviteInv'
  <2>1. UNCHANGED <<invites, registered, born>>
    BY <1>6, Zenon DEF KeyStep, CreateKeyStart, UpdateKeyStart, WriteKeyRow, CacheKey, DeleteKeyStart,
       DeleteKeyRow, SetUserEnabledStart, DeleteUserStart, SetUserEnabledEnd, SetUserEnabledRow,
       DeleteUserRow, SetUserEnabledUnread, Reject, DatabaseError, Disconnect, dbVars
  <2>2. req'[r].pc # "register" /\ \A q \in Requests : q # r => req'[q] = req[q]
    <3>1. CASE Done(r)
      BY <3>1, DoneTyped DEF Idle
    <3>2. CASE WriteKeyRow(r) \/ SetUserEnabledRow(r)
      BY <3>2 DEF WriteKeyRow, SetUserEnabledRow, TypeOK
    <3>3. ASSUME NEW k, NEW g, CreateKeyStart(r, k, g)
          PROVE  req'[r].pc # "register" /\ \A q \in Requests : q # r => req'[q] = req[q]
      BY <3>3, Zenon DEF CreateKeyStart, Take, TypeOK
    <3>4. ASSUME NEW k, NEW e, NEW g, UpdateKeyStart(r, k, e, g)
          PROVE  req'[r].pc # "register" /\ \A q \in Requests : q # r => req'[q] = req[q]
      BY <3>4, Zenon DEF UpdateKeyStart, Take, TypeOK
    <3>5. ASSUME NEW k, DeleteKeyStart(r, k)
          PROVE  req'[r].pc # "register" /\ \A q \in Requests : q # r => req'[q] = req[q]
      BY <3>5, Zenon DEF DeleteKeyStart, Take, TypeOK
    <3>6. ASSUME NEW u, NEW e, SetUserEnabledStart(r, u, e)
          PROVE  req'[r].pc # "register" /\ \A q \in Requests : q # r => req'[q] = req[q]
      BY <3>6, Zenon DEF SetUserEnabledStart, Take, TypeOK
    <3>7. ASSUME NEW u, DeleteUserStart(r, u)
          PROVE  req'[r].pc # "register" /\ \A q \in Requests : q # r => req'[q] = req[q]
      BY <3>7, Zenon DEF DeleteUserStart, Take, TypeOK
    <3>8. QED
      BY <1>6, <3>1, <3>2, <3>3, <3>4, <3>5, <3>6, <3>7, Zenon
         DEF KeyStep, CacheKey, DeleteKeyRow, SetUserEnabledEnd, DeleteUserRow,
             SetUserEnabledUnread, Reject, DatabaseError, Disconnect, Release, Restore
  <2>3. QED
    BY <2>1, <2>2, SameInvites, Zenon
<1>7. CASE Restart
  <2>1. UNCHANGED <<invites, registered, born>> /\ \A q \in Requests : req'[q].pc # "register"
    BY <1>7, Zenon DEF Restart, dbVars, Idle
  <2>2. QED
    BY <2>1, Zenon DEF InviteInv, MadeBy
<1>8. CASE UNCHANGED vars
  BY <1>8, Zenon DEF vars, dbVars, InviteInv, MadeBy
<1>9. QED
  BY <1>1, <1>2, <1>3, <1>4, <1>5, <1>6, <1>7, <1>8, RegisterKeepsInvites, Zenon DEF Next, UserStep

-----------------------------------------------------------------------------
(* Live sessions are current. *)

LEMMA SameSessions ==
  ASSUME SessionsAreCurrent, UNCHANGED <<users, sessions>>
  PROVE  SessionsAreCurrent'
  BY Zenon DEF SessionsAreCurrent

\* A session granted late says so.
LEMMA GrantKeepsSessions ==
  ASSUME TablesOK, SessionsAreCurrent, NEW u \in DOMAIN users', NEW e,
         \A v \in DOMAIN users : v \in DOMAIN users' /\ users'[v] = users[v],
         NewSession(u, e) \in Session, sessions' = Append(sessions, NewSession(u, e))
  PROVE  SessionsAreCurrent'
<1>1. PICK s \in Session : s = NewSession(u, e)
  BY Zenon
<1>2. s.user = u /\ (s.late \/ s.epoch = users'[u].epoch)
  BY <1>1, Zenon DEF NewSession
<1>3. /\ DOMAIN sessions' = DOMAIN sessions \union {Len(sessions) + 1}
      /\ sessions'[Len(sessions) + 1] = s
      /\ \A i \in DOMAIN sessions : sessions'[i] = sessions[i]
  BY <1>1, SessionAdded, Zenon
<1>4. ASSUME NEW i \in DOMAIN sessions', sessions'[i].live
      PROVE  /\ sessions'[i].user \in DOMAIN users'
             /\ sessions'[i].late \/ sessions'[i].epoch = users'[sessions'[i].user].epoch
  <2>1. CASE i \in DOMAIN sessions
    <3>1. sessions'[i] = sessions[i]
      BY <1>3, <2>1, Zenon
    <3>2. QED
      BY <1>4, <2>1, <3>1, SMTT(60) DEF SessionsAreCurrent
  <2>2. CASE i = Len(sessions) + 1
    BY <1>2, <1>3, <2>2, Zenon
  <2>3. QED
    BY <1>3, <2>1, <2>2, Zenon
<1>5. QED
  BY <1>4, Zenon DEF SessionsAreCurrent

\* A change of a user revokes the user's sessions.
LEMMA RevokeKeepsSessions ==
  ASSUME TablesOK, SessionsAreCurrent, NEW u, sessions' = Revoked(u),
         \A v \in DOMAIN users : v # u => v \in DOMAIN users' /\ users'[v] = users[v]
  PROVE  SessionsAreCurrent'
<1>1. /\ DOMAIN sessions' = DOMAIN sessions
      /\ \A i \in DOMAIN sessions : sessions'[i].live => /\ sessions[i].user # u
                                                         /\ sessions'[i] = sessions[i]
  BY RevokedSessions, Zenon
<1>2. ASSUME NEW i \in DOMAIN sessions, sessions'[i].live
      PROVE  /\ sessions'[i].user \in DOMAIN users'
             /\ sessions'[i].late \/ sessions'[i].epoch = users'[sessions'[i].user].epoch
  <2>1. sessions'[i] = sessions[i] /\ sessions[i].user # u
    BY <1>1, <1>2, Zenon
  <2>2. QED
    BY <1>2, <2>1, SMTT(60) DEF SessionsAreCurrent
<1>3. QED
  BY <1>1, <1>2, Zenon DEF SessionsAreCurrent

LEMMA NextKeepsSessions ==
  ASSUME TypeOK, SessionsAreCurrent, [Next]_vars
  PROVE  SessionsAreCurrent'
<1>1. TablesOK /\ born + 1 \in Nat /\ "super_admin" \in Roles
      /\ \A r \in Requests : req[r] \in Request
  BY DEF TypeOK, TablesOK, Roles
<1>2. NewSession(born + 1, 0) \in Session
  BY <1>1, Zenon DEF NewSession, Session
<1>3. ASSUME NEW name \in Names, NEW role \in Roles,
             users' = Put(users, born + 1, NewUser(name, role)),
             sessions' = Append(sessions, NewSession(born + 1, 0))
      PROVE  SessionsAreCurrent'
  <2>1. /\ born + 1 \in DOMAIN users'
        /\ \A v \in DOMAIN users : v \in DOMAIN users' /\ users'[v] = users[v]
    BY <1>1, <1>3, UserAdded, Zenon
  <2>2. QED
    BY <1>1, <1>2, <1>3, <2>1, GrantKeepsSessions, Zenon
<1>4. ASSUME NEW name \in Names, Setup(name) PROVE SessionsAreCurrent'
  BY <1>1, <1>3, <1>4, Zenon DEF Setup
<1>5. ASSUME NEW r \in Requests, NEW name \in Names, Register(r, name) PROVE SessionsAreCurrent'
  <2>1. req[r].role \in Roles
    BY <1>1, <1>5, RequestFields, Zenon DEF Register
  <2>2. QED
    BY <1>3, <1>5, <2>1, Zenon DEF Register
<1>6. ASSUME NEW r \in Requests, LoginGrant(r) PROVE SessionsAreCurrent'
  <2>1. CASE req[r].user \in DOMAIN users
    <3>1. NewSession(req[r].user, req[r].epoch) \in Session
      BY <1>1, <1>6, RequestFields, Zenon DEF LoginGrant, NewSession, Session
    <3>2. users' = users /\ sessions' = Append(sessions, NewSession(req[r].user, req[r].epoch))
      BY <1>6, <2>1, Zenon DEF LoginGrant
    <3>3. QED
      BY <1>1, <2>1, <3>1, <3>2, GrantKeepsSessions, Zenon
  <2>2. CASE req[r].user \notin DOMAIN users
    BY <1>6, <2>2, SameSessions, Zenon DEF LoginGrant
  <2>3. QED
    BY <2>1, <2>2, Zenon
<1>7. ASSUME NEW r \in Requests, Logout(r) PROVE SessionsAreCurrent'
  <2>1. /\ users' = users /\ DOMAIN sessions' = DOMAIN sessions
        /\ \A i \in DOMAIN sessions : sessions'[i].live => sessions'[i] = sessions[i]
    BY <1>1, <1>7, SessionEnded, Zenon DEF Logout, TablesOK
  <2>2. QED
    BY <2>1, Zenon DEF SessionsAreCurrent
<1>8. ASSUME NEW r \in Requests, NEW u, NEW role \in Roles, SetUserRole(r, u, role)
      PROVE  SessionsAreCurrent'
  <2>1. /\ DOMAIN users' = DOMAIN users /\ sessions' = Revoked(u)
        /\ \A v \in DOMAIN users : v # u => users'[v] = users[v]
    BY <1>1, <1>8, RoleChanged, Zenon DEF SetUserRole
  <2>2. QED
    BY <1>1, <2>1, RevokeKeepsSessions, Zenon
<1>9. ASSUME NEW r \in Requests, NEW u, ResetUserPassword(r, u) PROVE SessionsAreCurrent'
  <2>1. /\ DOMAIN users' = DOMAIN users /\ sessions' = Revoked(u)
        /\ \A v \in DOMAIN users : v # u => users'[v] = users[v]
    BY <1>1, <1>9, PasswordReset, Zenon DEF ResetUserPassword
  <2>2. QED
    BY <1>1, <2>1, RevokeKeepsSessions, Zenon
<1>10. ASSUME NEW r \in Requests, SetUserEnabledRow(r) PROVE SessionsAreCurrent'
  <2>1. PICK u : u = req[r].target
    BY Zenon
  <2>2. u \in DOMAIN users /\ req[r].to \in BOOLEAN
    BY <1>1, <1>10, <2>1, RequestFields, Zenon DEF SetUserEnabledRow
  <2>3. /\ DOMAIN users' = DOMAIN users
        /\ req[r].to => users'[u].epoch = users[u].epoch
        /\ \A v \in DOMAIN users : v # u => users'[v] = users[v]
    BY <1>1, <1>10, <2>1, <2>2, UserSwitched, Zenon DEF SetUserEnabledRow
  <2>4. CASE req[r].to
    <3>1. sessions' = sessions
      BY <1>10, <2>4, Zenon DEF SetUserEnabledRow
    <3>2. QED
      BY <2>3, <2>4, <3>1, Zenon DEF SessionsAreCurrent
  <2>5. CASE ~req[r].to
    <3>1. sessions' = Revoked(u)
      BY <1>10, <2>1, <2>5, Zenon DEF SetUserEnabledRow
    <3>2. QED
      BY <1>1, <2>3, <3>1, RevokeKeepsSessions, Zenon
  <2>6. QED
    BY <2>4, <2>5, Zenon
<1>11. ASSUME NEW r \in Requests, DeleteUserRow(r) PROVE SessionsAreCurrent'
  <2>1. PICK u : u = req[r].target
    BY Zenon
  <2>2. sessions' = Revoked(u) /\ users' = Without(users, {u})
    BY <1>11, <2>1, Zenon DEF DeleteUserRow
  <2>3. \A v \in DOMAIN users : v # u => v \in DOMAIN users' /\ users'[v] = users[v]
    BY <2>2, Zenon DEF Without
  <2>4. QED
    BY <1>1, <2>2, <2>3, RevokeKeepsSessions, Zenon
<1>12. ASSUME NEW r \in Requests,
              \/ \E u \in 1..born : LoginCheck(r, u)
              \/ \E t \in DOMAIN invites : RegisterCheck(r, t)
              \/ \E i \in DOMAIN sessions : Authenticate(r, i)
              \/ RegisterRejected(r) \/ GainAccount(r)
              \/ \E role \in Roles : CreateInvitation(r, role)
       PROVE  SessionsAreCurrent'
  <2>1. UNCHANGED <<users, sessions>>
    BY <1>12, Zenon DEF LoginCheck, RegisterCheck, Authenticate, RegisterRejected, GainAccount,
       CreateInvitation, dbVars
  <2>2. QED
    BY <2>1, SameSessions, Zenon
<1>13. ASSUME NEW r \in Requests, KeyStep(r), ~SetUserEnabledRow(r), ~DeleteUserRow(r)
       PROVE  SessionsAreCurrent'
  <2>1. UNCHANGED <<users, sessions>>
    BY <1>13, Zenon DEF KeyStep, CreateKeyStart, UpdateKeyStart, WriteKeyRow, CacheKey,
       DeleteKeyStart, DeleteKeyRow, SetUserEnabledStart, DeleteUserStart, SetUserEnabledEnd,
       SetUserEnabledUnread, Reject, DatabaseError, Disconnect, dbVars
  <2>2. QED
    BY <2>1, SameSessions, Zenon
<1>14. CASE Restart \/ UNCHANGED vars
  BY <1>14, SameSessions, Zenon DEF Restart, vars, dbVars
<1>15. ASSUME NEW r \in Requests, UserStep(r) PROVE SessionsAreCurrent'
  BY <1>5, <1>6, <1>7, <1>8, <1>9, <1>12, <1>15, Zenon DEF UserStep, Roles
<1>16. QED
  BY <1>4, <1>10, <1>11, <1>13, <1>14, <1>15, Zenon DEF Next

-----------------------------------------------------------------------------
(* The lock and its holder. *)

\* A handler moves without taking or releasing the lock.
LEMMA SameLock ==
  ASSUME LockInv, UNCHANGED <<lock, taken>>, NEW r \in Requests,
         req'[r].pc \in Locked <=> req[r].pc \in Locked,
         \A q \in Requests : q # r => req'[q] = req[q]
  PROVE  LockInv'
<1>1. \A q \in Requests : req'[q].pc \in Locked <=> lock = q
  BY Zenon DEF LockInv
<1>2. QED
  BY <1>1, Zenon DEF LockInv

LEMMA TakeLock ==
  ASSUME LockInv, NEW r \in Requests, lock = NoRequest, lock' = r, req'[r].pc \in Locked,
         \A q \in Requests : q # r => req'[q] = req[q]
  PROVE  LockInv'
<1>1. \A q \in Requests : req'[q].pc \in Locked <=> r = q
  BY AuthAssumption, Zenon DEF LockInv
<1>2. QED
  BY <1>1, AuthAssumption, Zenon DEF LockInv

LEMMA ReleaseLock ==
  ASSUME TypeOK, LockInv, NEW r \in Requests, req[r].pc \in Locked, Release(r)
  PROVE  LockInv' /\ lock = r
<1>1. lock = r
  BY Zenon DEF LockInv
<1>2. req'[r].pc \notin Locked /\ \A q \in Requests : q # r => req'[q] = req[q]
  BY DoneTyped DEF Release, Idle, Locked
<1>3. \A q \in Requests : req'[q].pc \notin Locked
  BY <1>1, <1>2, Zenon DEF LockInv
<1>4. lock' = NoRequest /\ DOMAIN taken' = {}
  BY NoEntries, Zenon DEF Release
<1>5. \A q \in Requests : NoRequest # q
  BY AuthAssumption, Zenon
<1>6. QED
  BY <1>1, <1>3, <1>4, <1>5, Zenon DEF LockInv

\* Outside the key handlers a step leaves keys, cache and lock alone.
LEMMA UserStepElsewhere ==
  ASSUME TypeOK, NEW r \in Requests, UserStep(r)
  PROVE  /\ UNCHANGED <<rows, cache, ghosts>>
         /\ req[r].pc \notin Locked /\ req'[r].pc \notin Locked
         /\ \A q \in Requests : q # r => req'[q] = req[q]
<1>1. UNCHANGED <<rows, cache, ghosts>>
  BY Zenon DEF UserStep, LoginCheck, RegisterCheck, Authenticate, LoginGrant, Register,
     RegisterRejected, Logout, CreateInvitation, SetUserRole, ResetUserPassword, GainAccount,
     dbVars
<1>2. req[r].pc \notin Locked
  <2>1. \/ req[r].pc = "idle" \/ req[r].pc = "login" \/ req[r].pc = "register"
        \/ req[r].pc = "handler"
    <3>1. Idle.pc = "idle"
      BY Zenon DEF Idle
    <3>2. QED
      BY <3>1, Zenon DEF UserStep, LoginCheck, RegisterCheck, Authenticate, LoginGrant,
         Register, RegisterRejected, Logout, CreateInvitation, SetUserRole, ResetUserPassword,
         GainAccount
  <2>2. QED
    BY <2>1, Zenon DEF Locked
<1>3. req'[r].pc \notin Locked /\ \A q \in Requests : q # r => req'[q] = req[q]
  <2> DEFINE Moved == req'[r].pc \notin Locked /\ \A q \in Requests : q # r => req'[q] = req[q]
  <2>1. CASE Done(r)
    BY <2>1, DoneTyped DEF Idle, Locked
  <2>2. ASSUME NEW u, LoginCheck(r, u) PROVE Moved
    BY <2>2, Zenon DEF LoginCheck, TypeOK, Locked
  <2>3. ASSUME NEW t, RegisterCheck(r, t) PROVE Moved
    BY <2>3, Zenon DEF RegisterCheck, TypeOK, Locked
  <2>4. ASSUME NEW i, Authenticate(r, i) PROVE Moved
    BY <2>4, Zenon DEF Authenticate, TypeOK, Locked
  <2>5. CASE \/ LoginGrant(r) \/ \E name \in Names : Register(r, name)
             \/ RegisterRejected(r) \/ Logout(r) \/ GainAccount(r)
             \/ \E role \in Roles : CreateInvitation(r, role)
             \/ \E u \in 1..born, role \in Roles : SetUserRole(r, u, role)
             \/ \E u \in 1..born : ResetUserPassword(r, u)
    <3>1. Done(r)
      BY <2>5, Zenon DEF LoginGrant, Register, RegisterRejected, Logout, CreateInvitation,
         SetUserRole, ResetUserPassword, GainAccount, Done
    <3>2. QED
      BY <2>1, <3>1, Zenon
  <2>6. QED
    BY <2>2, <2>3, <2>4, <2>5, Zenon DEF UserStep, Roles
<1>4. QED
  BY <1>1, <1>2, <1>3, Zenon

LEMMA NextKeepsLock ==
  ASSUME TypeOK, LockInv, [Next]_vars
  PROVE  LockInv'
<1>1. ASSUME NEW name \in Names, Setup(name) PROVE LockInv'
  BY <1>1, Zenon DEF Setup, LockInv, cache
<1>2. ASSUME NEW r \in Requests, UserStep(r) PROVE LockInv'
  BY <1>2, UserStepElsewhere, SameLock, Zenon DEF cache
<1>3. ASSUME NEW r \in Requests, WriteKeyRow(r) \/ SetUserEnabledRow(r) PROVE LockInv'
  <2>1. UNCHANGED <<lock, taken>> /\ req[r].pc \in Locked
    BY <1>3, Zenon DEF WriteKeyRow, SetUserEnabledRow, cache, Locked
  <2>2. req'[r].pc \in Locked /\ \A q \in Requests : q # r => req'[q] = req[q]
    BY <1>3 DEF WriteKeyRow, SetUserEnabledRow, TypeOK, Locked
  <2>3. QED
    BY <2>1, <2>2, SameLock, Zenon
<1>4. ASSUME NEW r \in Requests, NEW keys, NEW x, x.pc \in Locked, Take(r, keys, x) PROVE LockInv'
  <2>1. lock = NoRequest /\ lock' = r /\ req' = [req EXCEPT ![r] = x]
    BY <1>4, Zenon DEF Take
  <2>2. req'[r] = x /\ \A q \in Requests : q # r => req'[q] = req[q]
    BY <2>1, Zenon DEF TypeOK
  <2>3. QED
    BY <1>4, <2>1, <2>2, TakeLock, Zenon
<1>5. ASSUME NEW r \in Requests, NEW k, NEW g, CreateKeyStart(r, k, g) PROVE LockInv'
  BY <1>4, <1>5 DEF CreateKeyStart, Locked
<1>6. ASSUME NEW r \in Requests, NEW k, NEW e, NEW g, UpdateKeyStart(r, k, e, g) PROVE LockInv'
  BY <1>4, <1>6 DEF UpdateKeyStart, Locked
<1>7. ASSUME NEW r \in Requests, NEW k, DeleteKeyStart(r, k) PROVE LockInv'
  BY <1>4, <1>7 DEF DeleteKeyStart, Locked
<1>8. ASSUME NEW r \in Requests, NEW u, NEW e, SetUserEnabledStart(r, u, e) PROVE LockInv'
  BY <1>4, <1>8 DEF SetUserEnabledStart, Locked
<1>9. ASSUME NEW r \in Requests, NEW u, DeleteUserStart(r, u) PROVE LockInv'
  BY <1>4, <1>9 DEF DeleteUserStart, Locked
<1>10. ASSUME NEW r \in Requests,
              \/ CacheKey(r) \/ DeleteKeyRow(r) \/ SetUserEnabledEnd(r) \/ SetUserEnabledUnread(r)
              \/ DeleteUserRow(r) \/ Reject(r) \/ DatabaseError(r)
       PROVE  LockInv'
  <2>1. Release(r)
    BY <1>10, Zenon DEF CacheKey, DeleteKeyRow, SetUserEnabledEnd, SetUserEnabledUnread,
       DeleteUserRow, Reject, DatabaseError, Restore
  <2>2. req[r].pc \in Locked
    BY <1>10, Zenon DEF CacheKey, DeleteKeyRow, SetUserEnabledEnd, SetUserEnabledUnread,
       DeleteUserRow, Reject, Refused, DatabaseError, Locked
  <2>3. QED
    BY <2>1, <2>2, ReleaseLock, Zenon
<1>11. ASSUME NEW r \in Requests, Disconnect(r) PROVE LockInv'
  <2>1. CASE lock = r
    <3>1. Release(r) /\ req[r].pc \in Locked
      BY <1>11, <2>1, Zenon DEF Disconnect, Release, LockInv
    <3>2. QED
      BY <3>1, ReleaseLock, Zenon
  <2>2. CASE lock # r
    <3>1. UNCHANGED <<lock, taken>> /\ req[r].pc \notin Locked
      BY <1>11, <2>2, Zenon DEF Disconnect, LockInv
    <3>2. req'[r].pc \notin Locked /\ \A q \in Requests : q # r => req'[q] = req[q]
      BY <1>11, DoneTyped DEF Disconnect, Idle, Locked
    <3>3. QED
      BY <3>1, <3>2, SameLock, Zenon
  <2>3. QED
    BY <2>1, <2>2, Zenon
<1>12. CASE Restart
  <2>1. lock' = NoRequest /\ DOMAIN taken' = {} /\ \A q \in Requests : req'[q].pc \notin Locked
    BY <1>12 DEF Restart, Idle, Locked
  <2>2. QED
    BY <2>1, AuthAssumption, Zenon DEF LockInv
<1>13. CASE UNCHANGED vars
  BY <1>13, Zenon DEF vars, cache, LockInv
<1>14. ASSUME NEW r \in Requests, KeyStep(r) PROVE LockInv'
  BY <1>3, <1>5, <1>6, <1>7, <1>8, <1>9, <1>10, <1>11, <1>14, Zenon DEF KeyStep
<1>15. QED
  BY <1>1, <1>2, <1>12, <1>13, <1>14, Zenon DEF Next
=============================================================================
