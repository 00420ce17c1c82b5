--------------------------- MODULE UserAuthProofs ---------------------------
(***************************************************************************)
(* Theorems about UserAuth, for any number of users, names, invitations,   *)
(* keys, groups and handlers: every step keeps the part of the inductive   *)
(* invariant about the keys in memory, and the invariant implies what the  *)
(* module promises.                                                        *)
(***************************************************************************)
EXTENDS UserAuthTableProofs

-----------------------------------------------------------------------------
(* The keys in memory and the rows of the database. *)

\* A step that changes neither keys nor what backs them.
LEMMA SameKeys ==
  ASSUME TypeOK, LockInv, KeyInv, UNCHANGED <<rows, cache, ghosts>>,
         lock # NoRequest => req'[lock] = req[lock],
         \A u \in DOMAIN users : u \in DOMAIN users' /\ users'[u].enabled = users[u].enabled
  PROVE  KeyInv'
<1>1. \A k \in DOMAIN rows : /\ rows[k].owner \in DOMAIN users
                             /\ users'[rows[k].owner].enabled = users[rows[k].owner].enabled
  BY Zenon DEF KeyInv
<1>2. /\ rows' = rows /\ active' = active /\ taken' = taken /\ lock' = lock
      /\ lost' = lost /\ blind' = blind /\ late' = late
  BY Zenon DEF cache, ghosts
<1>3. ASSUME NEW k, NEW e, Backed(k, e) PROVE Backed(k, e)'
  BY <1>1, <1>2, <1>3, Zenon DEF Backed, Owned
<1>4. \A k \in DOMAIN rows' : rows'[k].owner \in DOMAIN users'
  BY <1>1, <1>2, Zenon DEF KeyInv
<1>5. ASSUME NEW k \in DOMAIN active PROVE Backed(k, active[k])'
  <2>1. PICK e : e = active[k]
    BY Zenon
  <2>2. Backed(k, e)'
    BY <1>3, <2>1, Zenon DEF KeyInv
  <2>3. QED
    BY <1>2, <2>1, <2>2, Zenon DEF Backed, Owned
<1>6. ASSUME NEW k \in DOMAIN rows, rows[k].enabled PROVE Accounted(k)'
  BY <1>2, <1>6, Zenon DEF KeyInv, Accounted
<1>7. ASSUME lock # NoRequest PROVE HolderInv(req[lock])'
  <2>1. PICK h : h = req[lock]
    BY Zenon
  <2>2. HolderInv(h) /\ req'[lock'] = h
    BY <1>2, <1>7, <2>1, Zenon DEF KeyInv
  <2>3. h.pc = "written" => h.row.owner \in DOMAIN users
    BY <1>1, <2>2, Zenon DEF HolderInv
  <2>4. ASSUME NEW k \in DOMAIN taken, Backed(k, taken[k]) PROVE Backed(k, taken[k])'
    <3>1. PICK e : e = taken[k]
      BY Zenon
    <3>2. Backed(k, e)'
      BY <1>3, <2>4, <3>1, Zenon
    <3>3. QED
      BY <1>2, <3>1, <3>2, Zenon DEF Backed, Owned
  <2>5. HolderInv(h)'
    BY <1>2, <2>2, <2>3, <2>4, Zenon DEF HolderInv, Owned
  <2>6. QED
    BY <2>2, <2>5, Zenon DEF HolderInv
<1>8. QED
  BY <1>2, <1>4, <1>5, <1>6, <1>7, Zenon DEF KeyInv

\* An entry stays backed when the row, the owner and the marks of its key stay.
LEMMA StillBacked ==
  ASSUME NEW k, NEW e, Backed(k, e),
         k \in DOMAIN rows' /\ rows'[k] = rows[k],
         k \in blind => k \in blind', k \in late => k \in late',
         users[rows[k].owner].enabled => users'[rows[k].owner].enabled
  PROVE  Backed(k, e)'
  BY Zenon DEF Backed, Owned

\* The next entry of a key is backed when it is an entry that is backed in the next state.
LEMMA BackedInMemory ==
  ASSUME NEW k, NEW e, Backed(k, e)', active'[k] = e
  PROVE  Backed(k, active[k])'
  BY Zenon DEF Backed, Owned

\* The lock is free after the step.
LEMMA FreeKeys ==
  ASSUME lock' = NoRequest,
         \A k \in DOMAIN rows' : rows'[k].owner \in DOMAIN users',
         \A k \in DOMAIN active' : Backed(k, active[k])',
         \A k \in DOMAIN rows' : rows'[k].enabled => k \in DOMAIN active' \/ k \in lost'
  PROVE  KeyInv'
  BY Zenon DEF KeyInv, Accounted

\* Taking entries: they stay backed, and every enabled key is still accounted for.
LEMMA TakingKeys ==
  ASSUME TypeOK, LockInv, KeyInv, NEW r \in Requests, NEW keys, NEW next \in Request,
         Take(r, keys, next), UNCHANGED <<dbVars, ghosts>>,
         (\A k \in DOMAIN taken' : Backed(k, taken[k])') => HolderInv(req[lock])'
  PROVE  KeyInv'
<1>1. /\ rows' = rows /\ users' = users /\ lost' = lost /\ blind' = blind /\ late' = late
      /\ lock = NoRequest /\ lock' = r
  BY Zenon DEF dbVars, ghosts, Take
<1>2. /\ DOMAIN active' = DOMAIN active \ keys /\ DOMAIN taken' = keys \intersect DOMAIN active
      /\ \A k \in DOMAIN active' : active'[k] = active[k]
      /\ \A k \in DOMAIN taken' : taken'[k] = active[k]
  BY Taking, Zenon
<1>3. ASSUME NEW k \in DOMAIN active PROVE /\ k \in DOMAIN active' => Backed(k, active[k])'
                                           /\ k \in DOMAIN taken' => Backed(k, taken[k])'
  <2>1. PICK e : e = active[k]
    BY Zenon
  <2>2. Backed(k, e)
    BY <2>1, Zenon DEF KeyInv
  <2>3. Backed(k, e)'
    BY <1>1, <2>2, Zenon DEF Backed, Owned
  <2>4. QED
    BY <1>2, <2>1, <2>3, Zenon DEF Backed, Owned
<1>4. \A k \in DOMAIN active' : Backed(k, active[k])'
  BY <1>2, <1>3, Zenon
<1>5. HolderInv(req[lock])'
  <2>1. \A k \in DOMAIN taken' : Backed(k, taken[k])'
    BY <1>2, <1>3, Zenon
  <2>2. QED
    BY <2>1, Zenon
<1>6. ASSUME NEW k \in DOMAIN rows, rows[k].enabled PROVE Accounted(k)'
  <2>1. k \in DOMAIN active \/ k \in lost
    BY <1>1, <1>6, Zenon DEF KeyInv, Accounted, LockInv
  <2>2. QED
    BY <1>1, <1>2, <2>1, Zenon DEF Accounted
<1>7. QED
  BY <1>1, <1>4, <1>5, <1>6, Zenon DEF KeyInv

\* The handlers that take the lock know their key or their user from then on.
LEMMA StartKeepsKeys ==
  ASSUME TypeOK, LockInv, KeyInv, NEW r \in Requests,
         \/ \E k \in Keys, g \in Groups : CreateKeyStart(r, k, g)
         \/ \E k \in Keys, e \in BOOLEAN, g \in Groups : UpdateKeyStart(r, k, e, g)
         \/ \E k \in Keys : DeleteKeyStart(r, k)
         \/ \E u \in 1..born, e \in BOOLEAN : SetUserEnabledStart(r, u, e)
         \/ \E u \in 1..born : DeleteUserStart(r, u)
  PROVE  KeyInv'
<1>1. /\ req[r] \in Request
      /\ \A u \in 1..born : u \in Nat
      /\ \A k \in DOMAIN rows : rows[k].owner \in Nat
  BY DEF TypeOK, TablesOK, Row
<1>2. ASSUME NEW keys, NEW next \in Request, Take(r, keys, next)
      PROVE  /\ req'[lock'] = next
             /\ DOMAIN active' = DOMAIN active \ keys
             /\ DOMAIN taken' = keys \intersect DOMAIN active
             /\ \A k \in DOMAIN active' : active'[k] = active[k]
             /\ \A k \in DOMAIN taken' : taken'[k] = active[k]
  BY <1>2, Taking, Zenon DEF Take
<1>3. ASSUME NEW k \in Keys, NEW g \in Groups, CreateKeyStart(r, k, g) PROVE KeyInv'
  <2>1. PICK x : x = [pc |-> "create", key |-> k,
                      row |-> [owner |-> req[r].actor, enabled |-> TRUE, group |-> g]]
    BY Zenon
  <2>2. [owner |-> req[r].actor, enabled |-> TRUE, group |-> g] \in Row
    BY <1>1, <1>3, RequestFields, Zenon DEF CreateKeyStart, Take, Row
  <2>3. x \in Request /\ Take(r, {}, x)
    BY <1>3, <2>1, <2>2, RequestMade, Zenon DEF CreateKeyStart
  <2>4. /\ UNCHANGED <<dbVars, ghosts>> /\ k \notin DOMAIN rows'
        /\ x.pc = "create" /\ x.key = k
    BY <1>3, <2>1, Zenon DEF CreateKeyStart, dbVars
  <2>5. req'[lock'] = x /\ DOMAIN taken' = {}
    <3>1. /\ req'[lock'] = x
          /\ DOMAIN active' = DOMAIN active \ {}
          /\ DOMAIN taken' = {} \intersect DOMAIN active
          /\ \A k1 \in DOMAIN active' : active'[k1] = active[k1]
          /\ \A k1 \in DOMAIN taken' : taken'[k1] = active[k1]
      BY <1>2, <2>3, Zenon
    <3>2. QED
      BY <3>1, Zenon
  <2>6. HolderInv(x)'
    BY <2>4, <2>5, Zenon DEF HolderInv
  <2>7. HolderInv(req[lock])'
    BY <2>5, <2>6, Zenon DEF HolderInv
  <2>8. QED
    BY <2>3, <2>4, <2>7, TakingKeys, Zenon
<1>4. ASSUME NEW k \in Keys, NEW e \in BOOLEAN, NEW g \in Groups, UpdateKeyStart(r, k, e, g)
      PROVE  KeyInv'
  <2>1. PICK x : x = [pc |-> "update", key |-> k,
                      row |-> [owner |-> rows[k].owner, enabled |-> e, group |-> g]]
    BY Zenon
  <2>2. [owner |-> rows[k].owner, enabled |-> e, group |-> g] \in Row
    BY <1>1, <1>4, Zenon DEF UpdateKeyStart, Row
  <2>3. x \in Request /\ Take(r, {k}, x)
    BY <1>4, <2>1, <2>2, RequestMade, Zenon DEF UpdateKeyStart
  <2>4. /\ UNCHANGED <<dbVars, ghosts>> /\ k \in DOMAIN rows' /\ rows' = rows
        /\ x.pc = "update" /\ x.key = k /\ x.row.owner = rows[k].owner
    BY <1>4, <2>1, Zenon DEF UpdateKeyStart, dbVars
  <2>5. req'[lock'] = x /\ k \notin DOMAIN active' /\ DOMAIN taken' \subseteq {k}
    <3>1. /\ req'[lock'] = x
          /\ DOMAIN active' = DOMAIN active \ {k}
          /\ DOMAIN taken' = {k} \intersect DOMAIN active
          /\ \A k1 \in DOMAIN active' : active'[k1] = active[k1]
          /\ \A k1 \in DOMAIN taken' : taken'[k1] = active[k1]
      BY <1>2, <2>3, Zenon
    <3>2. QED
      BY <3>1, Zenon
  <2>6. ASSUME \A q \in DOMAIN taken' : Backed(q, taken[q])' PROVE HolderInv(x)'
    BY <2>4, <2>5, <2>6, Zenon DEF HolderInv
  <2>7. (\A q \in DOMAIN taken' : Backed(q, taken[q])') => HolderInv(req[lock])'
    BY <2>5, <2>6, Zenon DEF HolderInv
  <2>8. QED
    BY <2>3, <2>4, <2>7, TakingKeys, Zenon
<1>5. ASSUME NEW k \in Keys, DeleteKeyStart(r, k) PROVE KeyInv'
  <2>1. PICK x : x = [pc |-> "delete", key |-> k]
    BY Zenon
  <2>2. x \in Request /\ Take(r, {k}, x)
    BY <1>5, <2>1, RequestMade, Zenon DEF DeleteKeyStart
  <2>3. UNCHANGED <<dbVars, ghosts>> /\ x.pc = "delete" /\ x.key = k
    BY <1>5, <2>1, Zenon DEF DeleteKeyStart
  <2>4. req'[lock'] = x /\ k \notin DOMAIN active' /\ DOMAIN taken' \subseteq {k}
    <3>1. /\ req'[lock'] = x
          /\ DOMAIN active' = DOMAIN active \ {k}
          /\ DOMAIN taken' = {k} \intersect DOMAIN active
          /\ \A k1 \in DOMAIN active' : active'[k1] = active[k1]
          /\ \A k1 \in DOMAIN taken' : taken'[k1] = active[k1]
      BY <1>2, <2>2, Zenon
    <3>2. QED
      BY <3>1, Zenon
  <2>5. ASSUME \A q \in DOMAIN taken' : Backed(q, taken[q])' PROVE HolderInv(x)'
    BY <2>3, <2>4, <2>5, Zenon DEF HolderInv
  <2>6. (\A q \in DOMAIN taken' : Backed(q, taken[q])') => HolderInv(req[lock])'
    BY <2>4, <2>5, Zenon DEF HolderInv
  <2>7. QED
    BY <2>2, <2>3, <2>6, TakingKeys, Zenon
<1>6. ASSUME NEW u \in 1..born, NEW e \in BOOLEAN, SetUserEnabledStart(r, u, e) PROVE KeyInv'
  <2>1. PICK x : x = [pc |-> "enable", actor |-> req[r].actor, admin |-> req[r].admin,
                      target |-> u, to |-> e]
    BY Zenon
  <2>2. PICK keys : keys = IF e THEN {} ELSE CachedOf(u)
    BY Zenon
  <2>3. req[r].actor \in Nat /\ req[r].admin \in BOOLEAN
    BY <1>1, <1>6, RequestFields, Zenon DEF SetUserEnabledStart, Take
  <2>4. x \in Request /\ Take(r, keys, x)
    BY <1>1, <1>6, <2>1, <2>2, <2>3, RequestMade, Zenon DEF SetUserEnabledStart
  <2>5. /\ UNCHANGED <<dbVars, ghosts>>
        /\ x.pc = "enable" /\ x.target = u /\ x.to = e
    BY <1>6, <2>1, Zenon DEF SetUserEnabledStart
  <2>6. /\ req'[lock'] = x
        /\ e => DOMAIN taken' = {}
        /\ ~e => /\ \A k \in DOMAIN active' : active'[k].owner # u
                 /\ \A k \in DOMAIN taken' : taken'[k].owner = u
    <3>1. /\ req'[lock'] = x
          /\ DOMAIN active' = DOMAIN active \ keys
          /\ DOMAIN taken' = keys \intersect DOMAIN active
          /\ \A k1 \in DOMAIN active' : active'[k1] = active[k1]
          /\ \A k1 \in DOMAIN taken' : taken'[k1] = active[k1]
      BY <1>2, <2>4, Zenon
    <3>2. QED
      BY <2>2, <3>1, Zenon DEF CachedOf
  <2>7. ASSUME \A q \in DOMAIN taken' : Backed(q, taken[q])' PROVE HolderInv(x)'
    BY <2>5, <2>6, <2>7, Zenon DEF HolderInv
  <2>8. (\A q \in DOMAIN taken' : Backed(q, taken[q])') => HolderInv(req[lock])'
    BY <2>6, <2>7, Zenon DEF HolderInv
  <2>9. QED
    BY <2>4, <2>5, <2>8, TakingKeys, Zenon
<1>7. ASSUME NEW u \in 1..born, DeleteUserStart(r, u) PROVE KeyInv'
  <2>1. PICK x : x = [pc |-> "remove", actor |-> req[r].actor, admin |-> req[r].admin,
                      target |-> u]
    BY Zenon
  <2>2. req[r].actor \in Nat /\ req[r].admin \in BOOLEAN
    BY <1>1, <1>7, RequestFields, Zenon DEF DeleteUserStart, Take
  <2>3. x \in Request /\ Take(r, CachedOf(u), x)
    BY <1>1, <1>7, <2>1, <2>2, RequestMade, Zenon DEF DeleteUserStart
  <2>4. UNCHANGED <<dbVars, ghosts>> /\ x.pc = "remove" /\ x.target = u
    BY <1>7, <2>1, Zenon DEF DeleteUserStart
  <2>5. /\ req'[lock'] = x
        /\ \A k \in DOMAIN active' : active'[k].owner # u
        /\ \A k \in DOMAIN taken' : taken'[k].owner = u
    <3>1. /\ req'[lock'] = x
          /\ DOMAIN active' = DOMAIN active \ CachedOf(u)
          /\ DOMAIN taken' = CachedOf(u) \intersect DOMAIN active
          /\ \A k1 \in DOMAIN active' : active'[k1] = active[k1]
          /\ \A k1 \in DOMAIN taken' : taken'[k1] = active[k1]
      BY <1>2, <2>3, Zenon
    <3>2. QED
      BY <3>1, Zenon DEF CachedOf
  <2>6. ASSUME \A q \in DOMAIN taken' : Backed(q, taken[q])' PROVE HolderInv(x)'
    BY <2>4, <2>5, <2>6, Zenon DEF HolderInv
  <2>7. (\A q \in DOMAIN taken' : Backed(q, taken[q])') => HolderInv(req[lock])'
    BY <2>5, <2>6, Zenon DEF HolderInv
  <2>8. QED
    BY <2>3, <2>4, <2>7, TakingKeys, Zenon
<1>8. QED
  BY <1>3, <1>4, <1>5, <1>6, <1>7, Zenon

\* The handler past taking the lock holds it.
LEMMA Holder ==
  ASSUME LockInv, KeyInv, NEW r \in Requests, req[r].pc \in Locked
  PROVE  lock = r /\ lock # NoRequest /\ HolderInv(req[r])
<1>1. lock = r
  BY Zenon DEF LockInv
<1>2. QED
  BY <1>1, AuthAssumption, Zenon DEF KeyInv

LEMMA WriteKeepsKeys ==
  ASSUME TypeOK, LockInv, KeyInv, NEW r \in Requests, WriteKeyRow(r)
  PROVE  KeyInv'
<1>1. PICK h, k, row : h = req[r] /\ k = req[r].key /\ row = req[r].row
  BY Zenon
<1>2. (h.pc = "create" \/ h.pc = "update") /\ h.pc \in Locked
  BY <1>1, Zenon DEF WriteKeyRow, Locked
<1>3. lock = r /\ lock # NoRequest /\ HolderInv(h)
  BY <1>1, <1>2, Holder, Zenon
<1>4. /\ row.owner \in DOMAIN users /\ users' = users
      /\ rows' = Put(rows, k, row)
      /\ late' = IF users[row.owner].enabled \/ ~row.enabled THEN late \ {k} ELSE late \union {k}
      /\ active' = active /\ taken' = taken /\ lock' = lock /\ lost' = lost /\ blind' = blind
      /\ req' = [req EXCEPT ![r] = [pc |-> "written", key |-> k, row |-> row]]
  BY <1>1, Zenon DEF WriteKeyRow, cache
<1>5. PICK x : x = [pc |-> "written", key |-> k, row |-> row]
  BY Zenon
<1>6. x.pc = "written" /\ x.key = k /\ x.row = row /\ req'[lock'] = x
  BY <1>3, <1>4, <1>5, Zenon DEF TypeOK
<1>7. /\ DOMAIN rows' = DOMAIN rows \union {k} /\ rows'[k] = row
      /\ \A q \in DOMAIN rows : q # k => rows'[q] = rows[q]
  BY <1>4, Zenon DEF Put
<1>8. k \notin DOMAIN active /\ DOMAIN taken \subseteq {k}
  <2>1. CASE h.pc = "create"
    BY <1>1, <1>3, <2>1, Zenon DEF HolderInv, KeyInv, Backed, Owned
  <2>2. CASE h.pc = "update"
    BY <1>1, <1>3, <2>2, Zenon DEF HolderInv
  <2>3. QED
    BY <1>2, <2>1, <2>2, Zenon
<1>9. \A q \in DOMAIN rows' : rows'[q].owner \in DOMAIN users'
  BY <1>4, <1>7, Zenon DEF KeyInv
<1>10. ASSUME NEW q \in DOMAIN active' PROVE Backed(q, active[q])'
  <2>1. PICK e : e = active[q]
    BY Zenon
  <2>2. Backed(q, e) /\ q # k /\ q \in DOMAIN rows
    BY <1>4, <1>8, <2>1, Zenon DEF KeyInv, Backed, Owned
  <2>3. q \in late => q \in late'
    BY <1>4, <2>2, Zenon
  <2>4. Backed(q, e)'
    BY <1>4, <1>7, <2>2, <2>3, StillBacked, Zenon
  <2>5. QED
    BY <1>4, <2>1, <2>4, BackedInMemory, Zenon
<1>11. ASSUME NEW q \in DOMAIN rows', rows'[q].enabled PROVE Accounted(q)'
  <2>1. CASE q = k
    BY <1>3, <1>4, <1>6, <2>1, Zenon DEF Accounted
  <2>2. CASE q # k
    <3>1. Accounted(q) /\ ~(req[lock].pc = "written")
      BY <1>1, <1>2, <1>3, <1>7, <1>11, <2>2, Zenon DEF KeyInv
    <3>2. QED
      BY <1>4, <3>1, Zenon DEF Accounted
  <2>3. QED
    BY <2>1, <2>2, Zenon
<1>12. HolderInv(x)'
  <2>1. users[row.owner].enabled \/ ~row.enabled \/ k \in late'
    BY <1>4, Zenon
  <2>2. QED
    BY <1>4, <1>6, <1>7, <1>8, <2>1, Zenon DEF HolderInv
<1>13. HolderInv(req[lock])'
  BY <1>6, <1>12, Zenon DEF HolderInv
<1>14. QED
  BY <1>9, <1>10, <1>11, <1>13, Zenon DEF KeyInv

LEMMA CacheKeepsKeys ==
  ASSUME TypeOK, LockInv, KeyInv, NEW r \in Requests, CacheKey(r)
  PROVE  KeyInv'
<1>1. PICK h, k, row : h = req[r] /\ k = h.key /\ row = h.row
  BY Zenon
<1>2. h.pc = "written" /\ h.pc \in Locked
  BY <1>1, Zenon DEF CacheKey, Locked
<1>3. lock = r /\ lock # NoRequest /\ HolderInv(h)
  BY <1>1, <1>2, Holder, Zenon
<1>4. /\ active' = IF row.enabled THEN Put(active, k, ActiveOf(row)) ELSE active
      /\ lost' = lost \ {k} /\ blind' = blind \ {k} /\ late' = late
      /\ lock' = NoRequest /\ users' = users /\ rows' = rows
  BY <1>1, Zenon DEF CacheKey, Release, dbVars
<1>5. /\ k \in DOMAIN rows /\ rows[k] = row
      /\ users[row.owner].enabled \/ ~row.enabled \/ k \in late
      /\ k \notin DOMAIN active /\ DOMAIN taken \subseteq {k}
  BY <1>1, <1>2, <1>3, Zenon DEF HolderInv
<1>6. /\ \A q \in DOMAIN active : q # k /\ q \in DOMAIN active' /\ active'[q] = active[q]
      /\ row.enabled => k \in DOMAIN active' /\ active'[k] = ActiveOf(row)
      /\ DOMAIN active' = IF row.enabled THEN DOMAIN active \union {k} ELSE DOMAIN active
  BY <1>4, <1>5, Zenon DEF Put
<1>7. ASSUME NEW q \in DOMAIN active' PROVE Backed(q, active[q])'
  <2>1. CASE q \in DOMAIN active
    <3>1. PICK e : e = active[q]
      BY Zenon
    <3>2. Backed(q, e) /\ q # k /\ q \in DOMAIN rows
      BY <1>6, <2>1, <3>1, Zenon DEF KeyInv, Backed, Owned
    <3>3. Backed(q, e)'
      BY <1>4, <3>2, StillBacked, Zenon
    <3>4. QED
      BY <1>6, <2>1, <3>1, <3>3, BackedInMemory, Zenon
  <2>2. CASE q \notin DOMAIN active
    <3>1. q = k /\ row.enabled /\ active'[k] = ActiveOf(row)
      BY <1>6, <2>2, Zenon
    <3>2. ActiveOf(row).owner = row.owner
      BY Zenon DEF ActiveOf
    <3>3. QED
      BY <1>4, <1>5, <3>1, <3>2, Zenon DEF Backed, Owned, ActiveOf
  <2>3. QED
    BY <2>1, <2>2, Zenon
<1>8. ASSUME NEW q \in DOMAIN rows', rows'[q].enabled PROVE q \in DOMAIN active' \/ q \in lost'
  <2>1. CASE q = k
    BY <1>4, <1>5, <1>6, <1>8, <2>1, Zenon
  <2>2. CASE q # k
    <3>1. Accounted(q)
      BY <1>4, <1>8, Zenon DEF KeyInv
    <3>2. q \in DOMAIN active \/ q \in lost
      BY <1>1, <1>3, <1>5, <2>2, <3>1, Zenon DEF Accounted
    <3>3. QED
      BY <1>4, <1>6, <2>2, <3>2, Zenon
  <2>3. QED
    BY <2>1, <2>2, Zenon
<1>9. \A q \in DOMAIN rows' : rows'[q].owner \in DOMAIN users'
  BY <1>4, Zenon DEF KeyInv
<1>10. QED
  BY <1>4, <1>7, <1>8, <1>9, FreeKeys, Zenon

LEMMA DeleteKeepsKeys ==
  ASSUME TypeOK, LockInv, KeyInv, NEW r \in Requests, DeleteKeyRow(r)
  PROVE  KeyInv'
<1>1. PICK h, k : h = req[r] /\ k = h.key
  BY Zenon
<1>2. h.pc = "delete" /\ h.pc \in Locked
  BY <1>1, Zenon DEF DeleteKeyRow, Locked
<1>3. lock = r /\ lock # NoRequest /\ HolderInv(h)
  BY <1>1, <1>2, Holder, Zenon
<1>4. /\ rows' = Without(rows, {k}) /\ active' = active /\ users' = users
      /\ lost' = lost \ {k} /\ blind' = blind \ {k} /\ late' = late \ {k}
      /\ lock' = NoRequest
  BY <1>1, Zenon DEF DeleteKeyRow, Release
<1>5. k \notin DOMAIN active /\ DOMAIN taken \subseteq {k}
  BY <1>1, <1>2, <1>3, Zenon DEF HolderInv
<1>6. DOMAIN rows' = DOMAIN rows \ {k} /\ \A q \in DOMAIN rows' : rows'[q] = rows[q]
  BY <1>4, Zenon DEF Without
<1>7. ASSUME NEW q \in DOMAIN active' PROVE Backed(q, active[q])'
  <2>1. PICK e : e = active[q]
    BY Zenon
  <2>2. Backed(q, e) /\ q # k /\ q \in DOMAIN rows
    BY <1>4, <1>5, <2>1, Zenon DEF KeyInv, Backed, Owned
  <2>3. Backed(q, e)'
    BY <1>4, <1>6, <2>2, StillBacked, Zenon
  <2>4. QED
    BY <1>4, <2>1, <2>3, BackedInMemory, Zenon
<1>8. ASSUME NEW q \in DOMAIN rows', rows'[q].enabled PROVE q \in DOMAIN active' \/ q \in lost'
  <2>1. Accounted(q) /\ q # k
    BY <1>6, <1>8, Zenon DEF KeyInv
  <2>2. ~(req[lock].pc = "written")
    BY <1>1, <1>2, <1>3, Zenon
  <2>3. QED
    BY <1>4, <1>5, <2>1, <2>2, Zenon DEF Accounted
<1>9. \A q \in DOMAIN rows' : rows'[q].owner \in DOMAIN users'
  BY <1>4, <1>6, Zenon DEF KeyInv
<1>10. QED
  BY <1>4, <1>7, <1>8, <1>9, FreeKeys, Zenon

LEMMA SwitchKeepsKeys ==
  ASSUME TypeOK, LockInv, KeyInv, NEW r \in Requests, SetUserEnabledRow(r)
  PROVE  KeyInv'
<1>1. PICK h, u, to : h = req[r] /\ u = h.target /\ to = h.to
  BY Zenon
<1>2. h.pc = "enable" /\ h.pc \in Locked /\ u \in DOMAIN users /\ to \in BOOLEAN
  <2>1. h.pc = "enable" /\ h \in Request
    BY <1>1, Zenon DEF SetUserEnabledRow, TypeOK
  <2>2. u \in DOMAIN users
    BY <1>1, Zenon DEF SetUserEnabledRow
  <2>3. QED
    BY <1>1, <2>1, <2>2, RequestFields, Zenon DEF Locked
<1>3. lock = r /\ lock # NoRequest /\ HolderInv(h)
  BY <1>1, <1>2, Holder, Zenon
<1>4. /\ users' = [users EXCEPT ![u].enabled = to, ![u].epoch = IF to THEN @ ELSE @ + 1]
      /\ rows' = [k \in DOMAIN rows |->
                    IF ~to /\ rows[k].owner = u THEN [rows[k] EXCEPT !.enabled = FALSE] ELSE rows[k]]
      /\ req' = [req EXCEPT ![r] = [pc |-> "enabled"]]
      /\ active' = active /\ taken' = taken /\ lock' = lock
      /\ lost' = lost /\ blind' = blind /\ late' = late
  BY <1>1, Zenon DEF SetUserEnabledRow, cache, ghosts
<1>5. /\ DOMAIN users' = DOMAIN users /\ users'[u].enabled = to
      /\ \A v \in DOMAIN users : v # u => users'[v] = users[v]
  <2>1. TablesOK
    BY Zenon DEF TypeOK
  <2>2. QED
    BY <1>2, <1>4, <2>1, UserSwitched, Zenon
<1>6. DOMAIN rows' = DOMAIN rows
  BY <1>4, Zenon
<1>7. ASSUME NEW k \in DOMAIN rows
      PROVE  /\ rows'[k].owner = rows[k].owner
             /\ rows'[k].enabled => rows[k].enabled
             /\ ~to /\ rows[k].owner = u => ~rows'[k].enabled
             /\ to \/ rows[k].owner # u => rows'[k] = rows[k]
  <2>1. rows[k] \in Row
    BY Zenon DEF TypeOK, TablesOK
  <2>2. [rows[k] EXCEPT !.enabled = FALSE].owner = rows[k].owner
        /\ [rows[k] EXCEPT !.enabled = FALSE].enabled = FALSE
    BY <2>1, Zenon DEF Row
  <2>3. QED
    BY <1>4, <2>2, Zenon
<1>8. PICK x : x = [pc |-> "enabled"]
  BY Zenon
<1>9. x.pc = "enabled" /\ req'[lock'] = x
  BY <1>3, <1>4, <1>8, Zenon DEF TypeOK
<1>10. ASSUME NEW k \in DOMAIN active' PROVE Backed(k, active[k])'
  <2>1. PICK e : e = active[k]
    BY Zenon
  <2>2. Backed(k, e) /\ k \in DOMAIN rows /\ e.owner = rows[k].owner
        /\ rows[k].owner \in DOMAIN users
    BY <1>4, <2>1, Zenon DEF KeyInv, Backed, Owned
  <2>3. to \/ rows[k].owner # u
    BY <1>1, <1>2, <1>3, <1>4, <2>1, <2>2, Zenon DEF HolderInv
  <2>4. users[rows[k].owner].enabled => users'[rows[k].owner].enabled
    BY <1>5, <2>2, <2>3, Zenon
  <2>5. Backed(k, e)'
    BY <1>4, <1>6, <1>7, <2>2, <2>3, <2>4, StillBacked, Zenon
  <2>6. QED
    BY <1>4, <2>1, <2>5, BackedInMemory, Zenon
<1>11. ASSUME NEW k \in DOMAIN rows', rows'[k].enabled PROVE Accounted(k)'
  <2>1. Accounted(k) /\ ~(req[lock].pc = "written")
    BY <1>1, <1>2, <1>3, <1>6, <1>7, <1>11, Zenon DEF KeyInv
  <2>2. QED
    BY <1>4, <2>1, Zenon DEF Accounted
<1>12. ASSUME NEW k \in DOMAIN taken' PROVE Owned(k, taken[k])' /\ ~rows'[k].enabled
  <2>1. ~to
    BY <1>1, <1>2, <1>3, <1>4, <1>12, Zenon DEF HolderInv
  <2>2. taken[k].owner = u /\ Backed(k, taken[k])
    BY <1>1, <1>2, <1>3, <1>4, <1>12, <2>1, Zenon DEF HolderInv
  <2>3. k \in DOMAIN rows /\ rows[k].owner = u
    BY <2>2, Zenon DEF Backed, Owned
  <2>4. QED
    BY <1>4, <1>6, <1>7, <2>1, <2>2, <2>3, Zenon DEF Owned
<1>13. HolderInv(x)'
  BY <1>9, <1>12, Zenon DEF HolderInv
<1>14. HolderInv(req[lock])'
  BY <1>9, <1>13, Zenon DEF HolderInv
<1>15. \A k \in DOMAIN rows' : rows'[k].owner \in DOMAIN users'
  BY <1>5, <1>6, <1>7, Zenon DEF KeyInv
<1>16. QED
  BY <1>10, <1>11, <1>14, <1>15, Zenon DEF KeyInv

LEMMA RemoveKeepsKeys ==
  ASSUME TypeOK, LockInv, KeyInv, NEW r \in Requests, DeleteUserRow(r)
  PROVE  KeyInv'
<1>1. PICK h, u : h = req[r] /\ u = h.target
  BY Zenon
<1>2. h.pc = "remove" /\ h.pc \in Locked
  BY <1>1, Zenon DEF DeleteUserRow, Locked
<1>3. lock = r /\ lock # NoRequest /\ HolderInv(h)
  BY <1>1, <1>2, Holder, Zenon
<1>4. PICK gone : gone = {k \in DOMAIN rows : rows[k].owner = u}
  BY Zenon
<1>5. /\ users' = Without(users, {u}) /\ rows' = Without(rows, gone)
      /\ lost' = lost \ gone /\ blind' = blind \ gone /\ late' = late \ gone
      /\ active' = active /\ lock' = NoRequest
  BY <1>1, <1>4, Zenon DEF DeleteUserRow, Release
<1>6. /\ \A k \in DOMAIN active : active[k].owner # u
      /\ \A k \in DOMAIN taken : taken[k].owner = u /\ Backed(k, taken[k])
  BY <1>1, <1>2, <1>3, Zenon DEF HolderInv
<1>7. /\ DOMAIN rows' = DOMAIN rows \ gone /\ \A k \in DOMAIN rows' : rows'[k] = rows[k]
      /\ DOMAIN users' = DOMAIN users \ {u} /\ \A v \in DOMAIN users' : users'[v] = users[v]
  BY <1>5, Zenon DEF Without
<1>8. ASSUME NEW k \in DOMAIN active' PROVE Backed(k, active[k])'
  <2>1. PICK e : e = active[k]
    BY Zenon
  <2>2. /\ Backed(k, e) /\ k \in DOMAIN rows /\ rows[k].owner # u
        /\ rows[k].owner \in DOMAIN users
    BY <1>5, <1>6, <2>1, Zenon DEF KeyInv, Backed, Owned
  <2>3. k \notin gone /\ users'[rows[k].owner] = users[rows[k].owner]
    BY <1>4, <1>7, <2>2, Zenon
  <2>4. Backed(k, e)'
    BY <1>5, <1>7, <2>2, <2>3, StillBacked, Zenon
  <2>5. QED
    BY <1>5, <2>1, <2>4, BackedInMemory, Zenon
<1>9. ASSUME NEW k \in DOMAIN rows', rows'[k].enabled PROVE k \in DOMAIN active' \/ k \in lost'
  <2>1. Accounted(k) /\ k \notin gone /\ rows[k].owner # u
    BY <1>4, <1>7, <1>9, Zenon DEF KeyInv
  <2>2. ~(req[lock].pc = "written")
    BY <1>1, <1>2, <1>3, Zenon
  <2>3. k \notin DOMAIN taken
    BY <1>6, <2>1, Zenon DEF Backed, Owned
  <2>4. QED
    BY <1>5, <2>1, <2>2, <2>3, Zenon DEF Accounted
<1>10. \A k \in DOMAIN rows' : rows'[k].owner \in DOMAIN users'
  BY <1>4, <1>7, Zenon DEF KeyInv
<1>11. QED
  BY <1>5, <1>8, <1>9, <1>10, FreeKeys, Zenon

\* What was taken goes back as it was, or is marked.
LEMMA RestoreKeepsKeys ==
  ASSUME TypeOK, LockInv, KeyInv, NEW r \in Requests, Restore(r), UNCHANGED <<users, rows>>,
         lost' = lost, late' = late,
         \/ blind' = blind /\ req[r].pc \in {"create", "update", "delete", "enable", "remove"}
         \/ blind' = blind \union DOMAIN taken /\ req[r].pc = "enabled"
  PROVE  KeyInv'
<1>1. req[r].pc \in Locked /\ ~(req[r].pc = "written")
  BY Zenon DEF Locked
<1>2. lock = r /\ lock # NoRequest /\ HolderInv(req[r])
  BY <1>1, Holder, Zenon
<1>3. /\ lock' = NoRequest
      /\ DOMAIN active' = DOMAIN taken \union DOMAIN active
      /\ \A k \in DOMAIN taken : active'[k] = taken[k]
      /\ \A k \in DOMAIN active : k \notin DOMAIN taken => active'[k] = active[k]
  BY Restoring, Zenon DEF Restore, Release
<1>4. ASSUME NEW k \in DOMAIN active' PROVE Backed(k, active[k])'
  <2>1. CASE k \notin DOMAIN taken
    <3>1. PICK e : e = active[k]
      BY Zenon
    <3>2. Backed(k, e) /\ k \in DOMAIN rows
      BY <1>3, <2>1, <3>1, Zenon DEF KeyInv, Backed, Owned
    <3>3. Backed(k, e)'
      BY <3>2, StillBacked, Zenon
    <3>4. QED
      BY <1>3, <2>1, <3>1, <3>3, BackedInMemory, Zenon
  <2>2. CASE k \in DOMAIN taken /\ blind' = blind
             /\ req[r].pc \in {"create", "update", "delete", "enable", "remove"}
    <3>1. PICK e : e = taken[k]
      BY Zenon
    <3>2. Backed(k, e) /\ k \in DOMAIN rows
      BY <1>2, <2>2, <3>1, Zenon DEF HolderInv, Backed, Owned
    <3>3. Backed(k, e)'
      BY <2>2, <3>2, StillBacked, Zenon
    <3>4. QED
      BY <1>3, <2>2, <3>1, <3>3, BackedInMemory, Zenon
  <2>3. CASE k \in DOMAIN taken /\ blind' = blind \union DOMAIN taken /\ req[r].pc = "enabled"
    <3>1. Owned(k, taken[k]) /\ k \in blind'
      BY <1>2, <2>3, Zenon DEF HolderInv
    <3>2. QED
      BY <1>3, <2>3, <3>1, Zenon DEF Backed, Owned
  <2>4. QED
    BY <2>1, <2>2, <2>3, Zenon
<1>5. ASSUME NEW k \in DOMAIN rows', rows'[k].enabled PROVE k \in DOMAIN active' \/ k \in lost'
  <2>1. Accounted(k)
    BY <1>5, Zenon DEF KeyInv
  <2>2. QED
    BY <1>1, <1>2, <1>3, <2>1, Zenon DEF Accounted
<1>6. \A k \in DOMAIN rows' : rows'[k].owner \in DOMAIN users'
  BY Zenon DEF KeyInv
<1>7. QED
  BY <1>3, <1>4, <1>5, <1>6, FreeKeys, Zenon

\* What was taken stays out: its rows are disabled, or it is lost.
LEMMA ForgetKeepsKeys ==
  ASSUME TypeOK, LockInv, KeyInv, NEW r \in Requests, req[r].pc \in Locked,
         lock' = NoRequest, UNCHANGED <<users, rows, active, blind, late>>,
         \/ lost' = lost /\ req[r].pc = "enabled"
         \/ lost' = lost \union DOMAIN taken
                      \union (IF req[r].pc = "written" THEN {req[r].key} ELSE {})
  PROVE  KeyInv'
<1>1. lock = r /\ lock # NoRequest /\ HolderInv(req[r])
  BY Holder, Zenon
<1>2. ASSUME NEW k \in DOMAIN active' PROVE Backed(k, active[k])'
  <2>1. PICK e : e = active[k]
    BY Zenon
  <2>2. Backed(k, e) /\ k \in DOMAIN rows
    BY <2>1, Zenon DEF KeyInv, Backed, Owned
  <2>3. Backed(k, e)'
    BY <2>2, StillBacked, Zenon
  <2>4. QED
    BY <2>1, <2>3, BackedInMemory, Zenon
<1>3. ASSUME NEW k \in DOMAIN rows', rows'[k].enabled PROVE k \in DOMAIN active' \/ k \in lost'
  <2>1. Accounted(k)
    BY <1>3, Zenon DEF KeyInv
  <2>2. CASE lost' = lost /\ req[r].pc = "enabled"
    <3>1. k \notin DOMAIN taken
      BY <1>1, <1>3, <2>2, Zenon DEF HolderInv
    <3>2. QED
      BY <1>1, <2>1, <2>2, <3>1, Zenon DEF Accounted
  <2>3. CASE lost' = lost \union DOMAIN taken
                       \union (IF req[r].pc = "written" THEN {req[r].key} ELSE {})
    BY <1>1, <2>1, <2>3, Zenon DEF Accounted
  <2>4. QED
    BY <2>2, <2>3, Zenon
<1>4. \A k \in DOMAIN rows' : rows'[k].owner \in DOMAIN users'
  BY Zenon DEF KeyInv
<1>5. QED
  BY <1>2, <1>3, <1>4, FreeKeys, Zenon

LEMMA RestartKeepsKeys ==
  ASSUME TypeOK, KeyInv, Restart
  PROVE  KeyInv'
<1>1. /\ users' = users /\ rows' = rows /\ late' = late /\ lock' = NoRequest
      /\ DOMAIN active' = {k \in DOMAIN rows : rows[k].enabled /\ users[rows[k].owner].enabled}
      /\ \A k \in DOMAIN active' : active'[k] = ActiveOf(rows[k])
      /\ lost' = {k \in DOMAIN rows : ~users[rows[k].owner].enabled}
  BY Zenon DEF Restart, dbVars
<1>2. ASSUME NEW k \in DOMAIN active' PROVE Backed(k, active[k])'
  <2>1. /\ k \in DOMAIN rows /\ rows[k].enabled /\ users[rows[k].owner].enabled
        /\ active'[k] = ActiveOf(rows[k]) /\ active'[k].owner = rows[k].owner
    BY <1>1 DEF ActiveOf
  <2>2. ActiveOf(rows[k])' = ActiveOf(rows[k])
    BY <1>1, Zenon DEF ActiveOf
  <2>3. QED
    BY <1>1, <2>1, <2>2, Zenon DEF Backed, Owned
<1>3. ASSUME NEW k \in DOMAIN rows', rows'[k].enabled PROVE k \in DOMAIN active' \/ k \in lost'
  BY <1>1, <1>3, Zenon
<1>4. \A k \in DOMAIN rows' : rows'[k].owner \in DOMAIN users'
  BY <1>1, Zenon DEF KeyInv
<1>5. QED
  BY <1>1, <1>2, <1>3, <1>4, FreeKeys, Zenon

\* Outside the key handlers users come, and change role and password.
LEMMA UserStepKeepsKeys ==
  ASSUME TypeOK, LockInv, KeyInv, NEW r \in Requests, UserStep(r)
  PROVE  KeyInv'
<1>1. TablesOK /\ req[r] \in Request
  BY Zenon DEF TypeOK
<1>2. \A u \in DOMAIN users : u \in DOMAIN users' /\ users'[u].enabled = users[u].enabled
  <2> DEFINE Kept == \A u \in DOMAIN users :
                       u \in DOMAIN users' /\ users'[u].enabled = users[u].enabled
  <2>1. ASSUME NEW name \in Names, Register(r, name) PROVE Kept
    <3>1. req[r].role \in Roles
      BY <1>1, <2>1, RequestFields, Zenon DEF Register
    <3>2. \A u \in DOMAIN users : u \in DOMAIN users' /\ users'[u] = users[u]
      BY <1>1, <2>1, <3>1, UserAdded, Zenon DEF Register
    <3>3. QED
      BY <3>2, Zenon
  <2>2. ASSUME NEW u \in 1..born, NEW role \in Roles, SetUserRole(r, u, role) PROVE Kept
    <3>1. /\ DOMAIN users' = DOMAIN users /\ users'[u].enabled = users[u].enabled
          /\ \A v \in DOMAIN users : v # u => users'[v] = users[v]
      BY <1>1, <2>2, RoleChanged, Zenon DEF SetUserRole
    <3>2. QED
      BY <3>1, Zenon
  <2>3. ASSUME NEW u \in 1..born, ResetUserPassword(r, u) PROVE Kept
    <3>1. /\ DOMAIN users' = DOMAIN users /\ users'[u].enabled = users[u].enabled
          /\ \A v \in DOMAIN users : v # u => users'[v] = users[v]
      BY <1>1, <2>3, PasswordReset, Zenon DEF ResetUserPassword
    <3>2. QED
      BY <3>1, Zenon
  <2>4. CASE users' = users
    BY <2>4, Zenon
  <2>5. ASSUME \A name \in Names : ~Register(r, name),
               \A u \in 1..born, role \in Roles : ~SetUserRole(r, u, role),
               \A u \in 1..born : ~ResetUserPassword(r, u)
        PROVE  users' = users
    BY <2>5, Zenon DEF UserStep, LoginCheck, RegisterCheck, Authenticate, LoginGrant,
       RegisterRejected, Logout, CreateInvitation, GainAccount, dbVars, Roles
  <2>6. QED
    BY Zenon, <2>1, <2>2, <2>3, <2>4, <2>5
<1>3. /\ UNCHANGED <<rows, cache, ghosts>>
      /\ req[r].pc \notin Locked
      /\ \A q \in Requests : q # r => req'[q] = req[q]
  BY UserStepElsewhere, Zenon
<1>4. lock # NoRequest => req'[lock] = req[lock]
  BY <1>3, Zenon DEF LockInv
<1>5. QED
  BY <1>2, <1>3, <1>4, SameKeys, Zenon

LEMMA NextKeepsKeys ==
  ASSUME TypeOK, LockInv, KeyInv, [Next]_vars
  PROVE  KeyInv'
<1>1. ASSUME NEW name \in Names, Setup(name) PROVE KeyInv'
  <2>1. TablesOK /\ "super_admin" \in Roles
    BY Zenon DEF TypeOK, Roles
  <2>2. \A u \in DOMAIN users : u \in DOMAIN users' /\ users'[u] = users[u]
    BY <1>1, <2>1, UserAdded, Zenon DEF Setup
  <2>3. UNCHANGED <<rows, cache, ghosts>> /\ req' = req
    BY <1>1, Zenon DEF Setup
  <2>4. QED
    BY <2>2, <2>3, SameKeys, Zenon
<1>2. ASSUME NEW r \in Requests, Reject(r) PROVE KeyInv'
  <2>1. req[r].pc \in {"create", "update", "delete", "enable", "remove"}
    BY <1>2, Zenon DEF Reject, Refused
  <2>2. Restore(r) /\ UNCHANGED <<users, rows>> /\ lost' = lost /\ late' = late /\ blind' = blind
    BY <1>2, Zenon DEF Reject, dbVars, ghosts
  <2>3. QED
    BY <2>1, <2>2, RestoreKeepsKeys, Zenon
<1>3. ASSUME NEW r \in Requests, DatabaseError(r) PROVE KeyInv'
  <2>1. Restore(r) /\ UNCHANGED <<users, rows>> /\ lost' = lost /\ late' = late /\ blind' = blind
    BY <1>3, Zenon DEF DatabaseError, dbVars, ghosts
  <2>2. req[r].pc \in {"create", "update", "delete", "enable", "remove"}
    BY <1>3, Zenon DEF DatabaseError
  <2>3. QED
    BY <2>1, <2>2, RestoreKeepsKeys, Zenon
<1>4. ASSUME NEW r \in Requests, SetUserEnabledUnread(r) PROVE KeyInv'
  <2>1. /\ Restore(r) /\ UNCHANGED <<users, rows>> /\ lost' = lost /\ late' = late
        /\ blind' = blind \union DOMAIN taken /\ req[r].pc = "enabled"
    BY <1>4, Zenon DEF SetUserEnabledUnread, dbVars
  <2>2. QED
    BY <2>1, RestoreKeepsKeys, Zenon
<1>5. ASSUME NEW r \in Requests, SetUserEnabledEnd(r) PROVE KeyInv'
  <2>1. /\ lock' = NoRequest /\ UNCHANGED <<users, rows, active, blind, late>>
        /\ lost' = lost /\ req[r].pc = "enabled"
    BY <1>5, Zenon DEF SetUserEnabledEnd, Release, dbVars, ghosts
  <2>2. req[r].pc \in Locked
    BY <2>1, Zenon DEF Locked
  <2>3. QED
    BY <2>1, <2>2, ForgetKeepsKeys, Zenon
<1>6. ASSUME NEW r \in Requests, Disconnect(r) PROVE KeyInv'
  <2>1. UNCHANGED <<users, rows, active, blind, late>>
    BY <1>6, Zenon DEF Disconnect, dbVars
  <2>2. CASE lock = r
    <3>1. req[r].pc \in Locked
      BY <2>2, Zenon DEF LockInv
    <3>2. /\ lock' = NoRequest
          /\ lost' = lost \union (DOMAIN taken
                                    \union IF req[r].pc = "written" THEN {req[r].key} ELSE {})
      BY <1>6, <2>2, Zenon DEF Disconnect
    <3>3. lost' = lost \union DOMAIN taken
                    \union (IF req[r].pc = "written" THEN {req[r].key} ELSE {})
      BY <3>2, Zenon
    <3>4. QED
      BY <2>1, <3>1, <3>2, <3>3, ForgetKeepsKeys, Zenon
  <2>3. CASE lock # r
    <3>1. lock' = lock /\ taken' = taken /\ lost' = lost
      BY <1>6, <2>3, Zenon DEF Disconnect
    <3>2. lock # NoRequest => req'[lock] = req[lock]
      BY <1>6, <2>3, DoneTyped, Zenon DEF Disconnect, LockInv
    <3>3. QED
      BY <2>1, <3>1, <3>2, SameKeys, Zenon DEF cache, ghosts
  <2>4. QED
    BY <2>2, <2>3, Zenon
<1>7. CASE UNCHANGED vars
  BY <1>7, SameKeys, Zenon DEF vars, dbVars
<1>8. ASSUME NEW r \in Requests, KeyStep(r) PROVE KeyInv'
  BY <1>2, <1>3, <1>4, <1>5, <1>6, <1>8, StartKeepsKeys, WriteKeepsKeys, CacheKeepsKeys,
     DeleteKeepsKeys, SwitchKeepsKeys, RemoveKeepsKeys, Zenon DEF KeyStep
<1>9. QED
  BY <1>1, <1>7, <1>8, UserStepKeepsKeys, RestartKeepsKeys, Zenon DEF Next

-----------------------------------------------------------------------------
(* The theorems. *)

LEMMA InitEstablishes ==
  ASSUME Init
  PROVE  IInv
<1>1. TypeOK
  <2>1. \A q \in Requests : req[q] \in Request
    BY RequestMade, Zenon DEF Init
  <2>2. users \in [DOMAIN users -> User] /\ DOMAIN users \subseteq 1..born
    BY DEF Init
  <2>3. rows \in [DOMAIN rows -> Row] /\ DOMAIN rows \subseteq Keys
    BY DEF Init
  <2>4. CacheOK
    BY NoEntries, Zenon DEF Init, CacheOK
  <2>5. TablesOK
    BY <2>2, <2>3 DEF Init, TablesOK, NoUser
  <2>6. req \in [Requests -> Request]
    BY <2>1, Zenon DEF Init
  <2>7. QED
    BY <2>4, <2>5, <2>6, Zenon DEF TypeOK
<1>2. AdminInv
  BY DEF Init, AdminInv, AdminRemains
<1>3. InviteInv
  BY DEF Init, InviteInv, Idle
<1>4. SessionsAreCurrent
  BY DEF Init, SessionsAreCurrent
<1>5. LockInv
  BY AuthAssumption DEF Init, LockInv, Locked, Idle
<1>6. KeyInv
  BY DEF Init, KeyInv
<1>7. QED
  BY <1>1, <1>2, <1>3, <1>4, <1>5, <1>6, Zenon DEF IInv

\* The tables, the setup, the invitations, the sessions, the lock and the keys are in order
\* in every reachable state, whatever handlers overlap, are dropped or are refused.
THEOREM AuthInvariant == Spec => []IInv
<1>1. Init => IInv
  BY InitEstablishes, Zenon
<1>2. ASSUME IInv, [Next]_vars PROVE IInv'
  <2>1. TypeOK /\ AdminInv /\ InviteInv /\ SessionsAreCurrent /\ LockInv /\ KeyInv
    BY <1>2, Zenon DEF IInv
  <2>2. TypeOK' /\ AdminInv'
    BY <1>2, <2>1, NextKeepsTypes, NextKeepsAdmin, Zenon
  <2>3. InviteInv' /\ SessionsAreCurrent'
    BY <1>2, <2>1, NextKeepsInvites, NextKeepsSessions, Zenon
  <2>4. LockInv' /\ KeyInv'
    BY <1>2, <2>1, NextKeepsLock, NextKeepsKeys, Zenon
  <2>5. QED
    BY <2>2, <2>3, <2>4, Zenon DEF IInv
<1>3. QED
  BY <1>1, <1>2, PTL DEF Spec

\* Once set up there is always an enabled super_admin, and no provider account loses its
\* owner: the guards of the statements that demote, disable and delete a user suffice,
\* however many admins act on each other with what they read before.
THEOREM AdminAlwaysRemains == Spec => []AdminRemains
<1>1. IInv => AdminRemains
  BY Zenon DEF IInv, AdminInv
<1>2. QED
  BY <1>1, AuthInvariant, PTL

\* An invitation is consumed by exactly one registration, of however many that checked it.
THEOREM InvitationsMakeOneUser == Spec => []InvitationMakesOneUser
<1>1. ASSUME IInv PROVE InvitationMakesOneUser
  <2>1. ASSUME NEW t \in DOMAIN invites
        PROVE  Cardinality({p \in registered : p[1] = t}) = IF invites[t].open THEN 0 ELSE 1
    <3>1. InviteInv
      BY <1>1, Zenon DEF IInv
    <3>2. CASE invites[t].open
      <4>1. {p \in registered : p[1] = t} = {}
        BY <3>1, <3>2, Zenon DEF InviteInv
      <4>2. QED
        BY <3>2, <4>1, FS_EmptySet, Zenon
    <3>3. CASE ~invites[t].open
      <4>1. PICK u \in 1..born : MadeBy(t, u)
        BY <3>1, <3>3, Zenon DEF InviteInv
      <4>2. {p \in registered : p[1] = t} = {<<t, u>>}
        BY <4>1 DEF MadeBy
      <4>3. QED
        BY <3>3, <4>2, FS_Singleton, Zenon
    <3>4. QED
      BY <3>2, <3>3, Zenon
  <2>2. QED
    BY <2>1, Zenon DEF InvitationMakesOneUser
<1>2. QED
  BY <1>1, AuthInvariant, PTL

\* A session that is not revoked was granted since its user last had a password reset, a
\* role change or was disabled, unless one of these overtook the login granting it.
THEOREM SessionsStayCurrent == Spec => []SessionsAreCurrent
<1>1. IInv => SessionsAreCurrent
  BY Zenon DEF IInv
<1>2. QED
  BY <1>1, AuthInvariant, PTL

\* The keys admitted from memory follow the rows of the database both ways, up to the
\* entries that the model marks blind, late or lost.
THEOREM KeysAlwaysFollowRows == Spec => []KeysFollowRows
<1>1. ASSUME IInv PROVE KeysFollowRows
  <2>1. KeyInv /\ LockInv
    BY <1>1, Zenon DEF IInv
  <2>2. AdmittedKeysAreEnabled
    BY <2>1, Zenon DEF KeyInv, Backed, Owned, AdmittedKeysAreEnabled
  <2>3. EnabledKeysAreAdmitted
    BY <2>1, Zenon DEF KeyInv, LockInv, Accounted, EnabledKeysAreAdmitted
  <2>4. QED
    BY <2>2, <2>3, Zenon DEF KeysFollowRows
<1>2. QED
  BY <1>1, AuthInvariant, PTL
=============================================================================
