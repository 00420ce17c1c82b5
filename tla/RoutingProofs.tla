---------------------------- MODULE RoutingProofs ----------------------------
(***************************************************************************)
(* Proofs about Routing: a continuation stays with the accounts that       *)
(* announced its response id, and the response bindings are exact, bounded *)
(* and kept, for any accounts, scopes, ids, requests and bounds.           *)
(***************************************************************************)
EXTENDS Routing, FiniteSetTheorems, TLAPS

-----------------------------------------------------------------------------
(* The inductive invariant. *)

\* A request that has a plan, and one that streams from the account it found.
Active == {"planned", "calling", "won", "recorded", "streaming", "binding", "over"}
Streams == {"streaming", "binding", "over"}
Request ==
  [step : Active \cup {"new", "collected", "failed"}, scope : Scopes \cup {Fresh.scope},
   session : Sessions \cup {NoSession}, previous : ResponseIds \cup {NoId}, at : Nat,
   plan : Seq(Accounts), index : Nat, id : ResponseIds \cup {NoId},
   bound : BOOLEAN, completed : BOOLEAN, observed : BOOLEAN]
Binding == [account : Accounts \cup {0}, at : Nat]

TypeOK ==
  /\ now \in Nat /\ menu \in Menu /\ routed \subseteq Accounts
  /\ selections \in [Scopes \X Priorities -> Nat]
  /\ origin \in [ResponseIds -> SUBSET Accounts]
  /\ request \in [Requests -> Request]

\* A map of bindings and a queue that agree: the queue holds each bound key once, with
\* the time of its binding.
Agree(map, queue) ==
  /\ map \in [Keys -> Binding] /\ queue \in Seq([at : Nat, key : Keys])
  /\ \A i \in 1 .. Len(queue) : map[queue[i].key].account # 0 /\ map[queue[i].key].at = queue[i].at
  /\ \A i, j \in 1 .. Len(queue) : queue[i].key = queue[j].key => i = j
  /\ \A k \in Keys : map[k].account # 0 => \E i \in 1 .. Len(queue) : queue[i].key = k
QueueInv == Agree(entries, oldest) /\ Len(oldest) <= MaxBindings

\* An id is bound to an account that announced it.
HomeInv == \A k \in Keys : entries[k].account # 0 => entries[k].account \in origin[k[2]]

\* The plan of a request that has one names an account for every candidate it tries; a
\* continuation's plan names no account with the state of another's response.
PlanOf(r) ==
  /\ ~At(r, "new") => request[r].scope \in Scopes
  /\ At(r, "collected") => request[r].plan # <<>>
  /\ request[r].step \in Active => request[r].index \in 1 .. Len(request[r].plan)
  /\ request[r].step \in Active /\ request[r].previous # NoId =>
       \A i \in 1 .. Len(request[r].plan) :
         request[r].plan[i] \in Codex => request[r].plan[i] \in origin[request[r].previous]
PlanInv == \A r \in Requests : PlanOf(r)

\* A binding that was made is there until it expires or is evicted.
Kept(k) == k \in gone \/ entries[k].account # 0

\* A stream has announced the id it remembers; a client has it only once it is bound, if
\* it is to be.
StreamOf(r) ==
  /\ request[r].id # NoId =>
       request[r].step \in Streams /\ Account(r) \in origin[request[r].id]
  /\ At(r, "binding") => request[r].id # NoId
  /\ request[r].bound =>
       request[r].id # NoId /\ Kept(<<request[r].scope, request[r].id>>)
  /\ /\ request[r].id # NoId /\ ~At(r, "binding") /\ request[r].observed
     /\ Account(r) \in Codex \/ request[r].completed
     => request[r].bound
StreamInv == \A r \in Requests : StreamOf(r)

IInv == TypeOK /\ QueueInv /\ HomeInv /\ PlanInv /\ StreamInv

-----------------------------------------------------------------------------
(* Response bindings. *)

\* A set of numbers has its Min, which is least.
LEMMA Least ==
  ASSUME NEW S \in SUBSET Nat, S # {}
  PROVE  Min(S) \in S /\ \A y \in S : Min(S) <= y
<1>1. PICK x \in S : \A y \in S : ~(<<y, x>> \in OpToRel(<, Nat))
  BY NatLessThanWellFounded, WFMin, Zenon
<1>2. OpToRel(<, Nat) = {ss \in Nat \X Nat : ss[1] < ss[2]}
  BY Zenon DEF OpToRel
<1>3. ASSUME NEW y \in S PROVE x =< y
  <2>1. x \in Nat /\ y \in Nat /\ <<y, x>> \in Nat \X Nat
    BY Zenon
  <2>2. <<y, x>> \notin {ss \in Nat \X Nat : ss[1] < ss[2]}
    BY <1>1, <1>2, Zenon
  <2>3. QED
    BY <2>1, <2>2
<1>4. QED
  BY <1>3, Zenon DEF Min

\* What a sequence and its rest hold.
LEMMA Elements ==
  ASSUME NEW S, NEW q \in Seq(S)
  PROVE  Len(q) \in Nat /\ \A i \in 1 .. Len(q) : q[i] \in S
OBVIOUS

LEMMA Rest ==
  ASSUME NEW S, NEW q \in Seq(S), NEW n \in 0 .. Len(q)
  PROVE  /\ SubSeq(q, n + 1, Len(q)) \in Seq(S)
         /\ Len(SubSeq(q, n + 1, Len(q))) = Len(q) - n
         /\ \A i \in 1 .. Len(q) - n : SubSeq(q, n + 1, Len(q))[i] = q[i + n]
OBVIOUS

\* As many keys are bound as the queue is long.
LEMMA SizeIsLength ==
  ASSUME NEW map, NEW queue, Agree(map, queue)
  PROVE  Size(map) = Len(queue) /\ Len(queue) \in Nat
<1> DEFINE bound == {k \in Keys : map[k].account # 0}
           at == [i \in 1 .. Len(queue) |-> queue[i].key]
<1>1. Len(queue) \in Nat /\ \A i \in 1 .. Len(queue) : queue[i].key \in Keys
  <2>1. queue \in Seq([at : Nat, key : Keys])
    BY Zenon DEF Agree
  <2>2. Len(queue) \in Nat /\ \A i \in 1 .. Len(queue) : queue[i] \in [at : Nat, key : Keys]
    BY <2>1, Elements, Zenon
  <2>3. QED
    BY <2>2, Zenon
<1>2. at \in [1 .. Len(queue) -> bound]
  BY <1>1, Zenon DEF Agree
<1>3. \A i, j \in 1 .. Len(queue) : at[i] = at[j] => i = j
  BY Zenon DEF Agree
<1>4. \A k \in bound : \E i \in 1 .. Len(queue) : at[i] = k
  BY Zenon DEF Agree
<1> HIDE DEF at, bound
<1>5. at \in Bijection(1 .. Len(queue), bound)
  BY <1>2, <1>3, <1>4, Zenon DEF Bijection, Injection, Surjection, IsInjective
<1>6. Cardinality(bound) = Len(queue)
  BY <1>1, <1>5, FS_CountingElements, Zenon DEF ExistsBijection
<1>7. QED
  BY <1>1, <1>6, Zenon DEF Size, bound

\* What remove_oldest leaves agrees again; a key that loses its binding is dropped, and
\* the longer it removes the fewer keys stay.
LEMMA Removal ==
  ASSUME QueueInv, NEW n \in 0 .. Len(oldest)
  PROVE  /\ Agree(RemoveOldest(n).entries, RemoveOldest(n).oldest)
         /\ RemoveOldest(n).dropped \subseteq Keys
         /\ \A k \in Keys :
              \/ RemoveOldest(n).entries[k] = entries[k]
              \/ RemoveOldest(n).entries[k].account = 0 /\ k \in RemoveOldest(n).dropped
         /\ Len(RemoveOldest(n).oldest) = Len(oldest) - n
         /\ \A k \in Keys : RemoveOldest(n).entries[k].account # 0 <=>
              \E i \in n + 1 .. Len(oldest) : oldest[i].key = k
<1> DEFINE dropped == {oldest[i].key : i \in {j \in 1 .. n : entries[oldest[j].key].at = oldest[j].at}}
           map == [k \in Keys |-> IF k \in dropped THEN NoBinding ELSE entries[k]]
           queue == SubSeq(oldest, n + 1, Len(oldest))
<1>1. /\ Len(oldest) \in Nat /\ n \in Nat /\ oldest \in Seq([at : Nat, key : Keys])
      /\ entries \in [Keys -> Binding] /\ NoBinding \in Binding /\ NoBinding.account = 0
  BY DEF QueueInv, Agree, NoBinding, Binding
<1>2. RemoveOldest(n) = [entries |-> map, oldest |-> queue,
                         dropped |-> {k \in dropped : entries[k].account # 0}]
  BY Zenon DEF RemoveOldest
<1>3. \A i \in 1 .. n : entries[oldest[i].key].at = oldest[i].at
  BY <1>1 DEF QueueInv, Agree
<1>4. dropped = {oldest[i].key : i \in 1 .. n}
  BY <1>3, Zenon
<1>5. Len(queue) = Len(oldest) - n /\ queue \in Seq([at : Nat, key : Keys])
  BY <1>1, Rest, Zenon
<1>6. \A i \in 1 .. Len(queue) : queue[i] = oldest[i + n] /\ i + n \in n + 1 .. Len(oldest)
  <2>1. \A i \in 1 .. Len(queue) : queue[i] = oldest[i + n]
    BY <1>1, <1>5, Rest, SMTT(60)
  <2>2. \A i \in 1 .. Len(oldest) - n : i + n \in n + 1 .. Len(oldest)
    BY <1>1
  <2>3. QED
    BY <1>5, <2>1, <2>2, Zenon
<1>7. \A i \in 1 .. Len(oldest) : oldest[i].key \in Keys /\ entries[oldest[i].key].account # 0
                                  /\ entries[oldest[i].key].at = oldest[i].at
  <2>1. \A i \in 1 .. Len(oldest) : oldest[i] \in [at : Nat, key : Keys]
    BY <1>1, Elements, Zenon
  <2>2. \A i \in 1 .. Len(oldest) : oldest[i].key \in Keys
    BY <2>1, Zenon
  <2>3. QED
    BY <2>2, Zenon DEF QueueInv, Agree
<1>8. \A i \in n + 1 .. Len(oldest) : i \in 1 .. Len(oldest) /\ oldest[i].key \notin dropped
  <2> TAKE i \in n + 1 .. Len(oldest)
  <2>1. i \in 1 .. Len(oldest) /\ \A j \in 1 .. n : j \in 1 .. Len(oldest) /\ j # i
    BY <1>1
  <2>2. \A j \in 1 .. n : oldest[j].key # oldest[i].key
    BY <2>1, Zenon DEF QueueInv, Agree
  <2>3. QED
    BY <1>4, <2>1, <2>2, Zenon
<1>9. map \in [Keys -> Binding] /\ \A k \in Keys : map[k] = IF k \in dropped THEN NoBinding ELSE entries[k]
  BY <1>1, Zenon
<1>10. ASSUME NEW k \in Keys
       PROVE  map[k].account # 0 <=> \E i \in n + 1 .. Len(oldest) : oldest[i].key = k
  <2>1. CASE k \in dropped
    BY <1>1, <1>8, <1>9, <2>1, Zenon
  <2>2. CASE k \notin dropped
    <3>1. \A i \in 1 .. Len(oldest) : i \in 1 .. n \/ i \in n + 1 .. Len(oldest)
      BY <1>1
    <3>2. entries[k].account # 0 => \E i \in 1 .. Len(oldest) : oldest[i].key = k
      BY Zenon DEF QueueInv, Agree
    <3>3. entries[k].account # 0 => \E i \in n + 1 .. Len(oldest) : oldest[i].key = k
      BY <1>4, <2>2, <3>1, <3>2, Zenon
    <3>4. map[k] = entries[k]
      BY <1>9, <2>2, Zenon
    <3>5. QED
      BY <1>7, <1>8, <3>3, <3>4, Zenon
  <2>3. QED
    BY <2>1, <2>2, Zenon
<1> HIDE DEF dropped, map, queue
<1>11. Agree(map, queue)
  <2>1. \A i \in 1 .. Len(queue) : map[queue[i].key] = entries[oldest[i + n].key]
    BY <1>6, <1>7, <1>8, <1>9, Zenon
  <2>2. \A i \in 1 .. Len(queue) : map[queue[i].key].account # 0 /\ map[queue[i].key].at = queue[i].at
    BY <2>1, <1>6, <1>7, <1>8, SMTT(60)
  <2>3. ASSUME NEW i \in 1 .. Len(queue), NEW j \in 1 .. Len(queue), queue[i].key = queue[j].key
        PROVE  i = j
    <3>1. i + n \in 1 .. Len(oldest) /\ j + n \in 1 .. Len(oldest)
      BY <1>6, <1>8, Zenon
    <3>2. oldest[i + n].key = oldest[j + n].key
      BY <1>6, <2>3, Zenon
    <3>3. i + n = j + n
      BY <3>1, <3>2, Zenon DEF QueueInv, Agree
    <3>4. QED
      BY <1>1, <1>5, <3>3
  <2>4. ASSUME NEW k \in Keys, map[k].account # 0 PROVE \E i \in 1 .. Len(queue) : queue[i].key = k
    <3>1. PICK i \in n + 1 .. Len(oldest) : oldest[i].key = k
      BY <1>10, <2>4, Zenon
    <3>2. i - n \in 1 .. Len(queue) /\ (i - n) + n = i
      BY <1>1, <1>5
    <3>3. QED
      BY <1>6, <3>1, <3>2, Zenon
  <2>5. QED
    BY <1>5, <1>9, <2>2, <2>3, <2>4, Zenon DEF Agree
<1>12. \A k \in Keys :
         \/ map[k] = entries[k]
         \/ map[k].account = 0 /\ k \in {d \in dropped : entries[d].account # 0}
  <2>1. \A i \in 1 .. n : i \in 1 .. Len(oldest)
    BY <1>1
  <2>2. \A k \in dropped : entries[k].account # 0
    BY <1>4, <1>7, <2>1, Zenon
  <2>3. QED
    BY <1>1, <1>9, <2>2, Zenon
<1>13. dropped \subseteq Keys
  <2>1. \A i \in 1 .. n : i \in 1 .. Len(oldest)
    BY <1>1
  <2>2. QED
    BY <1>4, <1>7, <2>1, Zenon
<1>14. QED
  BY <1>2, <1>5, <1>10, <1>11, <1>12, <1>13

LEMMA ExpiredRange ==
  ASSUME QueueInv, NEW at
  PROVE  Expired(at) \in 0 .. Len(oldest) /\ Len(oldest) \in Nat
<1> DEFINE stays == {i \in DOMAIN oldest :
                       /\ entries[oldest[i].key].at = oldest[i].at /\ entries[oldest[i].key].account # 0
                       /\ Elapsed(at, oldest[i].at) < BindingTTL}
<1>1. oldest \in Seq([at : Nat, key : Keys])
  BY Zenon DEF QueueInv, Agree
<1>2. Len(oldest) \in Nat /\ DOMAIN oldest = 1 .. Len(oldest)
  BY <1>1, Elements
<1>3. stays \subseteq 1 .. Len(oldest)
  BY <1>2, Zenon
<1>4. Expired(at) = IF stays = {} THEN Len(oldest) ELSE Min(stays) - 1
  BY Zenon DEF Expired
<1> HIDE DEF stays
<1>5. CASE stays = {}
  BY <1>2, <1>4, <1>5
<1>6. CASE stays # {}
  <2>1. stays \in SUBSET Nat
    BY <1>2, <1>3
  <2>2. Min(stays) \in 1 .. Len(oldest)
    BY <1>3, <1>6, <2>1, Least, Zenon
  <2>3. QED
    BY <1>2, <1>4, <1>6, <2>2
<1>7. QED
  BY <1>5, <1>6, Zenon

\* remove_oldest finds room at the latest when the queue is empty.
LEMMA RoomMade ==
  ASSUME QueueInv, NEW at
  PROVE  \E n \in Expired(at) .. Len(oldest) :
           MadeRoom(at) = RemoveOldest(n) /\ Size(RemoveOldest(n).entries) < MaxBindings
<1> DEFINE enough == {n \in Expired(at) .. Len(oldest) : Size(RemoveOldest(n).entries) < MaxBindings}
<1>1. Expired(at) \in 0 .. Len(oldest) /\ Len(oldest) \in Nat
  BY ExpiredRange, Zenon
<1>2. Len(oldest) \in 0 .. Len(oldest) /\ Len(oldest) \in Expired(at) .. Len(oldest)
      /\ Len(oldest) - Len(oldest) = 0 /\ 0 < MaxBindings
  BY <1>1, RoutingAssumption
<1>3. Size(RemoveOldest(Len(oldest)).entries) = 0
  <2>1. /\ Agree(RemoveOldest(Len(oldest)).entries, RemoveOldest(Len(oldest)).oldest)
        /\ Len(RemoveOldest(Len(oldest)).oldest) = Len(oldest) - Len(oldest)
    BY <1>2, Removal, Zenon
  <2>2. QED
    BY <1>2, <2>1, SizeIsLength, Zenon
<1>4. enough # {}
  BY <1>2, <1>3, Zenon
<1>5. enough \in SUBSET Nat
  BY <1>1
<1>6. Min(enough) \in enough
  BY <1>4, <1>5, Least, Zenon
<1>7. QED
  BY <1>6, Zenon DEF MadeRoom

\* What remove_expired leaves keeps the invariants of the bindings.
LEMMA Expires ==
  ASSUME QueueInv, HomeInv, NEW at, UNCHANGED origin,
         entries' = RemoveOldest(Expired(at)).entries,
         oldest' = RemoveOldest(Expired(at)).oldest,
         gone' = gone \cup RemoveOldest(Expired(at)).dropped
  PROVE  QueueInv' /\ HomeInv' /\ \A k \in Keys : Kept(k) => Kept(k)'
<1> DEFINE n == Expired(at)
<1>1. n \in 0 .. Len(oldest) /\ Len(oldest) \in Nat
  BY ExpiredRange, Zenon
<1> HIDE DEF n
<1>2. /\ Agree(RemoveOldest(n).entries, RemoveOldest(n).oldest)
      /\ \A k \in Keys :
           \/ RemoveOldest(n).entries[k] = entries[k]
           \/ RemoveOldest(n).entries[k].account = 0 /\ k \in RemoveOldest(n).dropped
      /\ Len(RemoveOldest(n).oldest) = Len(oldest) - n
  BY <1>1, Removal, Zenon
<1>3. Agree(entries, oldest)' /\ Len(oldest') = Len(oldest) - n
  BY <1>2, Zenon DEF Agree, n
<1>4. Len(oldest') <= MaxBindings
  BY <1>1, <1>3, RoutingAssumption DEF QueueInv
<1>5. \A k \in Keys : entries'[k] = entries[k] \/ (entries'[k].account = 0 /\ k \in gone')
  <2>1. entries' = RemoveOldest(n).entries /\ gone' = gone \cup RemoveOldest(n).dropped
    BY Zenon DEF n
  <2>2. ASSUME NEW k \in Keys, RemoveOldest(n).entries[k] # entries[k]
        PROVE  entries'[k].account = 0 /\ k \in gone'
    <3>1. RemoveOldest(n).entries[k].account = 0 /\ k \in RemoveOldest(n).dropped
      BY <1>2, <2>2, Zenon
    <3>2. QED
      BY <2>1, <3>1, Zenon
  <2>3. QED
    BY <2>1, <2>2, Zenon
<1>6. \A k \in gone : k \in gone'
  BY Zenon
<1>7. QED
  BY <1>3, <1>4, <1>5, <1>6, Zenon DEF QueueInv, HomeInv, Kept

\* A queue agrees with the map after both got a new key.
LEMMA Appended ==
  ASSUME NEW map, NEW queue, Agree(map, queue), NEW at \in Nat, NEW key \in Keys,
         NEW account \in Accounts, map[key].account = 0
  PROVE  /\ Agree([map EXCEPT ![key] = [account |-> account, at |-> at]],
                  Append(queue, [at |-> at, key |-> key]))
         /\ Len(Append(queue, [at |-> at, key |-> key])) = Len(queue) + 1
<1> DEFINE entry == [account |-> account, at |-> at]
           e == [at |-> at, key |-> key]
           map2 == [map EXCEPT ![key] = entry]
           queue2 == Append(queue, e)
           n == Len(queue)
<1>1. account # 0 /\ entry \in Binding /\ entry.account = account /\ entry.at = at
  BY RoutingAssumption, Zenon DEF Binding
<1>2. e \in [at : Nat, key : Keys] /\ e.at = at /\ e.key = key
  BY Zenon
<1>3. map \in [Keys -> Binding] /\ queue \in Seq([at : Nat, key : Keys])
  BY Zenon DEF Agree
<1>4. n \in Nat /\ \A i \in 1 .. n : queue[i] \in [at : Nat, key : Keys]
  BY <1>3, Elements, Zenon
<1>5. map2 \in [Keys -> Binding] /\ map2[key] = entry /\ \A k \in Keys \ {key} : map2[k] = map[k]
  BY <1>1, <1>3, Zenon
<1> HIDE DEF entry, e, map2
<1>6. /\ queue2 \in Seq([at : Nat, key : Keys]) /\ Len(queue2) = n + 1
      /\ queue2[n + 1] = e /\ \A i \in 1 .. n : queue2[i] = queue[i]
  BY <1>2, <1>3, <1>4
<1>7. \A i \in 1 .. n + 1 : i \in 1 .. n \/ i = n + 1
  BY <1>4
<1>8. \A i \in 1 .. n : queue[i].key \in Keys \ {key}
  <2>1. \A i \in 1 .. n : queue[i].key \in Keys
    BY <1>4, Zenon
  <2>2. QED
    BY <2>1, Zenon DEF Agree
<1> HIDE DEF queue2
<1>9. ASSUME NEW i \in 1 .. n + 1
      PROVE  map2[queue2[i].key].account # 0 /\ map2[queue2[i].key].at = queue2[i].at
  <2>1. CASE i = n + 1
    BY <1>1, <1>2, <1>5, <1>6, <2>1, Zenon
  <2>2. CASE i \in 1 .. n
    <3>1. queue2[i] = queue[i] /\ map2[queue[i].key] = map[queue[i].key]
      BY <1>5, <1>6, <1>8, <2>2, Zenon
    <3>2. map[queue[i].key].account # 0 /\ map[queue[i].key].at = queue[i].at
      BY <2>2, Zenon DEF Agree
    <3>3. QED
      BY <3>1, <3>2, Zenon
  <2>3. QED
    BY <1>7, <2>1, <2>2, Zenon
<1>10. ASSUME NEW i \in 1 .. n + 1, NEW j \in 1 .. n + 1, queue2[i].key = queue2[j].key
       PROVE  i = j
  <2>1. \A h \in 1 .. n : queue2[h].key # queue2[n + 1].key
    BY <1>2, <1>6, <1>8, Zenon
  <2>2. ASSUME i \in 1 .. n, j \in 1 .. n PROVE i = j
    <3>1. queue[i].key = queue[j].key
      BY <1>6, <1>10, <2>2, Zenon
    <3>2. QED
      BY <2>2, <3>1, Zenon DEF Agree
  <2>3. QED
    BY <1>7, <1>10, <2>1, <2>2, Zenon
<1>11. 1 .. n \subseteq 1 .. n + 1 /\ n + 1 \in 1 .. n + 1
  BY <1>4
<1>12. \A k \in Keys : map2[k].account # 0 => \E i \in 1 .. n + 1 : queue2[i].key = k
  <2> TAKE k \in Keys
  <2> HAVE map2[k].account # 0
  <2>1. CASE k = key
    BY <1>2, <1>6, <1>11, <2>1, Zenon
  <2>2. CASE k # key
    <3>1. PICK i \in 1 .. n : queue[i].key = k
      BY <1>5, <2>2, Zenon DEF Agree
    <3>2. QED
      BY <1>6, <1>11, <3>1, Zenon
  <2>3. QED
    BY <2>1, <2>2, Zenon
<1>13. Agree(map2, queue2)
  BY <1>5, <1>6, <1>9, <1>10, <1>12, SMTT(60) DEF Agree
<1>14. QED
  BY <1>6, <1>13, Zenon DEF map2, queue2, entry, e

\* insert keeps the invariants of the bindings, and the key is bound afterwards.
LEMMA Inserts ==
  ASSUME QueueInv, HomeInv, NEW at \in Nat, NEW key \in Keys, NEW account \in Accounts,
         account \in origin[key[2]], Insert(at, key, account), UNCHANGED origin
  PROVE  QueueInv' /\ HomeInv' /\ Kept(key)' /\ \A k \in Keys : Kept(k) => Kept(k)'
<1> DEFINE x == Expired(at)
<1>1. x \in 0 .. Len(oldest) /\ Len(oldest) \in Nat
  BY ExpiredRange, Zenon
<1>2. CASE /\ RemoveOldest(x).entries[key].account # 0
           /\ entries' = RemoveOldest(x).entries /\ oldest' = RemoveOldest(x).oldest
           /\ gone' = gone \cup RemoveOldest(x).dropped
  BY <1>2, Expires, Zenon DEF Kept
<1>3. CASE RemoveOldest(x).entries[key].account = 0 /\ Bound(MadeRoom(at), at, key, account)
  <2>1. PICK n \in x .. Len(oldest) :
          MadeRoom(at) = RemoveOldest(n) /\ Size(RemoveOldest(n).entries) < MaxBindings
    BY RoomMade, Zenon
  <2>2. n \in 0 .. Len(oldest) /\ \A i \in n + 1 .. Len(oldest) : i \in x + 1 .. Len(oldest)
    BY <1>1
  <2> DEFINE map == RemoveOldest(n).entries
             queue == RemoveOldest(n).oldest
             entry == [account |-> account, at |-> at]
  <2>3. /\ Agree(map, queue)
        /\ \A k \in Keys : map[k] = entries[k] \/ (map[k].account = 0 /\ k \in RemoveOldest(n).dropped)
        /\ \A k \in Keys : map[k].account # 0 <=> \E i \in n + 1 .. Len(oldest) : oldest[i].key = k
    BY <2>2, Removal, Zenon
  <2>4. map[key].account = 0
    <3>1. ~ \E i \in x + 1 .. Len(oldest) : oldest[i].key = key
      BY <1>1, <1>3, Removal, Zenon
    <3>2. QED
      BY <2>2, <2>3, <3>1, Zenon
  <2>5. /\ entries' = [map EXCEPT ![key] = entry]
        /\ oldest' = Append(queue, [at |-> at, key |-> key])
        /\ gone' = (gone \cup RemoveOldest(n).dropped) \ {key}
    BY <1>3, <2>1, Zenon DEF Bound
  <2> HIDE DEF map, queue
  <2>6. Agree(entries, oldest)' /\ Len(oldest') = Len(queue) + 1
    <3>1. /\ Agree([map EXCEPT ![key] = entry], Append(queue, [at |-> at, key |-> key]))
          /\ Len(Append(queue, [at |-> at, key |-> key])) = Len(queue) + 1
      BY <2>3, <2>4, Appended
    <3>2. QED
      BY <2>5, <3>1, Zenon DEF Agree
  <2>7. Len(oldest') <= MaxBindings
    <3>1. Size(map) = Len(queue) /\ Len(queue) \in Nat
      BY <2>3, SizeIsLength, Zenon
    <3>2. Size(map) < MaxBindings
      BY <2>1, Zenon DEF map
    <3>3. QED
      BY <2>6, <3>1, <3>2, RoutingAssumption
  <2>8. entries'[key] = entry /\ entry.account = account /\ account # 0
        /\ \A k \in Keys \ {key} : entries'[k] = map[k]
    <3>1. map \in [Keys -> Binding] /\ account # 0 /\ entry.account = account
      BY <2>3, RoutingAssumption, Zenon DEF Agree
    <3>2. QED
      BY <2>5, <3>1, Zenon
  <2>9. HomeInv'
    <3>1. \A k \in Keys \ {key} : entries'[k].account # 0 => entries'[k] = entries[k]
      BY <2>3, <2>8, Zenon
    <3>2. ASSUME NEW k \in Keys, entries'[k].account # 0 PROVE entries'[k].account \in origin[k[2]]
      <4>1. CASE k = key
        BY <2>8, <4>1, Zenon
      <4>2. CASE k # key
        BY <3>1, <3>2, <4>2, Zenon DEF HomeInv
      <4>3. QED
        BY <4>1, <4>2, Zenon
    <3>3. QED
      BY <3>2, Zenon DEF HomeInv
  <2>10. Kept(key)'
    BY <2>8, Zenon DEF Kept
  <2>11. ASSUME NEW k \in Keys \ {key}, Kept(k) PROVE Kept(k)'
    <3>1. k \in gone => k \in gone'
      BY <2>5, Zenon
    <3>2. k \in RemoveOldest(n).dropped => k \in gone'
      BY <2>5, Zenon
    <3>3. entries'[k] = entries[k] \/ k \in RemoveOldest(n).dropped
      BY <2>3, <2>8, Zenon
    <3>4. QED
      BY <2>11, <3>1, <3>2, <3>3, Zenon DEF Kept
  <2>12. QED
    BY <2>6, <2>7, <2>9, <2>10, <2>11, Zenon DEF QueueInv
<1>4. QED
  BY <1>2, <1>3, Zenon DEF Insert

-----------------------------------------------------------------------------
(* Plans. *)

\* The sorted candidates are a sequence of the candidates.
LEMMA Ordered ==
  ASSUME NEW S \in SUBSET Accounts, NEW routes \in Orders(S)
  PROVE  routes \in Seq(Accounts) /\ \A i \in 1 .. Len(routes) : routes[i] \in S
<1>1. Cardinality(S) \in Nat
  BY RoutingAssumption, FS_Subset, FS_CardinalityType, Zenon
<1>2. routes \in [1 .. Cardinality(S) -> S]
  BY Zenon DEF Orders
<1>3. routes \in Seq(S)
  BY <1>1, <1>2
<1>4. QED
  BY <1>3

\* rotate_round_robin moves a candidate within its tier: every place of the plan holds a
\* candidate.
LEMMA RotatedPlaces ==
  ASSUME TypeOK, NEW scope \in Scopes, NEW routes \in Seq(Accounts)
  PROVE  /\ Rotated(scope, routes) \in Seq(Accounts)
         /\ Len(Rotated(scope, routes)) = Len(routes)
         /\ \A i \in 1 .. Len(routes) :
              \E j \in 1 .. Len(routes) : Rotated(scope, routes)[i] = routes[j]
<1>1. Len(routes) \in Nat /\ DOMAIN routes = 1 .. Len(routes) /\ \A i \in 1 .. Len(routes) : routes[i] \in Accounts
  BY Elements
<1>2. ASSUME NEW i \in 1 .. Len(routes)
      PROVE  \E j \in 1 .. Len(routes) : Rotated(scope, routes)[i] = routes[j]
  <2> DEFINE p == Priority[routes[i]]
             tier == {j \in DOMAIN routes : Priority[routes[j]] = p}
             start == TierStart(routes, p)
             size == TierLength(routes, p)
             cursor == selections[<<scope, p>>]
  <2>1. i \in tier /\ tier \subseteq 1 .. Len(routes)
    BY <1>1, Zenon
  <2>2. p \in Priorities /\ cursor \in Nat
    BY <1>1, Zenon DEF Priorities, TypeOK
  <2>3. start = Min(tier) /\ size = Cardinality(tier)
    BY Zenon DEF TierStart, TierLength
  <2>4. Rotated(scope, routes)[i] = routes[start + ((i - start + cursor) % size)]
    BY <1>1, Zenon DEF Rotated
  <2> HIDE DEF tier, start, size, cursor, p
  <2>5. tier \in SUBSET Nat /\ tier # {}
    BY <1>1, <2>1
  <2>6. start \in tier /\ \A j \in tier : start <= j
    BY <2>3, <2>5, Least, Zenon
  <2>7. start \in 1 .. Len(routes) /\ start <= i
    BY <2>1, <2>6, Zenon
  <2>8. tier \in SUBSET (start .. Len(routes))
    BY <1>1, <2>1, <2>6, <2>7
  <2>9. IsFiniteSet(start .. Len(routes))
        /\ Cardinality(start .. Len(routes)) = Len(routes) - start + 1
    BY <1>1, <2>7, FS_Interval
  <2>10. IsFiniteSet(tier) /\ Cardinality(tier) <= Len(routes) - start + 1
    BY <2>8, <2>9, FS_Subset, ZenonT(60)
  <2>11. size \in Nat /\ size # 0
    BY <2>3, <2>5, <2>10, FS_CardinalityType, FS_EmptySet, Zenon
  <2>12. (i - start + cursor) % size \in 0 .. size - 1
    BY <1>1, <2>2, <2>7, <2>11
  <2>13. start + ((i - start + cursor) % size) \in 1 .. Len(routes)
    BY <1>1, <2>3, <2>7, <2>10, <2>11, <2>12
  <2>14. QED
    BY <2>4, <2>13, Zenon
<1>3. Rotated(scope, routes) \in [1 .. Len(routes) -> Accounts]
  <2>1. Rotated(scope, routes) = [i \in 1 .. Len(routes) |-> Rotated(scope, routes)[i]]
    BY <1>1, Zenon DEF Rotated
  <2>2. \A i \in 1 .. Len(routes) : Rotated(scope, routes)[i] \in Accounts
    BY <1>1, <1>2, Zenon
  <2>3. QED
    BY <2>1, <2>2, Zenon
<1>4. QED
  BY <1>1, <1>2, <1>3

\* rotate_left puts the account of the session first and keeps the others.
LEMMA RotatedLeft ==
  ASSUME NEW routes \in Seq(Accounts), NEW n \in 1 .. Len(routes)
  PROVE  /\ RotateLeft(routes, n) \in Seq(Accounts)
         /\ Len(RotateLeft(routes, n)) = Len(routes)
         /\ \A i \in 1 .. Len(routes) :
              \E j \in 1 .. Len(routes) : RotateLeft(routes, n)[i] = routes[j]
<1> DEFINE front == SubSeq(routes, n, Len(routes))
           back == SubSeq(routes, 1, n - 1)
<1>1. /\ front \in Seq(Accounts) /\ Len(front) = Len(routes) - n + 1
      /\ \A i \in 1 .. Len(front) : front[i] = routes[i + n - 1]
  OBVIOUS
<1>2. /\ back \in Seq(Accounts) /\ Len(back) = n - 1
      /\ \A i \in 1 .. Len(back) : back[i] = routes[i]
  OBVIOUS
<1> HIDE DEF front, back
<1>3. /\ front \o back \in Seq(Accounts) /\ Len(front \o back) = Len(routes)
      /\ \A i \in 1 .. Len(routes) :
           (front \o back)[i] = IF i <= Len(front) THEN front[i] ELSE back[i - Len(front)]
  BY <1>1, <1>2
<1>4. ASSUME NEW i \in 1 .. Len(routes) PROVE \E j \in 1 .. Len(routes) : (front \o back)[i] = routes[j]
  <2>1. CASE i <= Len(front)
    <3>1. i \in 1 .. Len(front) /\ i + n - 1 \in 1 .. Len(routes)
      BY <1>1, <2>1
    <3>2. QED
      BY <1>1, <1>3, <2>1, <3>1, Zenon
  <2>2. CASE ~(i <= Len(front))
    <3>1. i - Len(front) \in 1 .. Len(back) /\ i - Len(front) \in 1 .. Len(routes)
      BY <1>1, <1>2, <2>2
    <3>2. QED
      BY <1>2, <1>3, <2>2, <3>1, Zenon
  <2>3. QED
    BY <2>1, <2>2, Zenon
<1>5. QED
  BY <1>3, <1>4, Zenon DEF RotateLeft, front, back

\* However the candidates are arranged, the plan holds them and nothing else.
LEMMA Arranged ==
  ASSUME TypeOK, NEW r \in Requests, request[r].scope \in Scopes,
         NEW routes \in Seq(Accounts), Arrange(r, routes)
  PROVE  /\ selections' \in [Scopes \X Priorities -> Nat]
         /\ \E plan \in Seq(Accounts) :
              /\ Planned(r, plan) /\ Len(plan) = Len(routes)
              /\ \A i \in 1 .. Len(routes) : \E j \in 1 .. Len(routes) : plan[i] = routes[j]
<1>1. Advanced(request[r].scope, routes) \in [Scopes \X Priorities -> Nat]
  <2>1. \A k \in Scopes \X Priorities : selections[k] \in Nat
    BY Zenon DEF TypeOK
  <2>2. \A k \in Scopes \X Priorities : selections[k] + 1 \in Nat
    BY <2>1
  <2>3. QED
    BY <2>1, <2>2, Zenon DEF Advanced
<1>2. ASSUME RoundRobin(r, routes)
      PROVE  /\ selections' \in [Scopes \X Priorities -> Nat]
             /\ \E plan \in Seq(Accounts) :
                  /\ Planned(r, plan) /\ Len(plan) = Len(routes)
                  /\ \A i \in 1 .. Len(routes) : \E j \in 1 .. Len(routes) : plan[i] = routes[j]
  BY <1>1, <1>2, RotatedPlaces, Zenon DEF RoundRobin
<1>3. ASSUME NEW a, UNCHANGED selections,
             LET places == {i \in DOMAIN routes : routes[i] = a}
             IN places # {} /\ Planned(r, RotateLeft(routes, Min(places)))
      PROVE  /\ selections' \in [Scopes \X Priorities -> Nat]
             /\ \E plan \in Seq(Accounts) :
                  /\ Planned(r, plan) /\ Len(plan) = Len(routes)
                  /\ \A i \in 1 .. Len(routes) : \E j \in 1 .. Len(routes) : plan[i] = routes[j]
  <2> DEFINE places == {i \in DOMAIN routes : routes[i] = a}
  <2>1. places \in SUBSET Nat /\ places \subseteq 1 .. Len(routes)
    BY Elements
  <2>2. Min(places) \in 1 .. Len(routes)
    BY <1>3, <2>1, Least, Zenon
  <2>3. QED
    BY <1>3, <2>2, RotatedLeft, Zenon DEF TypeOK
<1>4. ASSUME Affine(r, routes)
      PROVE  RoundRobin(r, routes) \/
             \E a : UNCHANGED selections /\ LET places == {i \in DOMAIN routes : routes[i] = a}
                      IN places # {} /\ Planned(r, RotateLeft(routes, Min(places)))
  BY <1>4, Zenon DEF Affine
<1>5. QED
  BY <1>2, <1>3, <1>4, Zenon DEF Arrange

-----------------------------------------------------------------------------
(* Requests. *)

\* What a step never undoes: who announced an id, and that a binding was made.
Grows ==
  /\ \A id \in ResponseIds : origin[id] \subseteq origin'[id]
  /\ \A k \in Keys : Kept(k) => Kept(k)'

\* A request that did not move keeps its part of the invariant.
LEMMA OthersKeep ==
  ASSUME TypeOK, NEW q \in Requests, PlanOf(q), StreamOf(q), Grows, request'[q] = request[q]
  PROVE  PlanOf(q)' /\ StreamOf(q)'
<1>1. /\ request[q].previous \in ResponseIds \cup {NoId} /\ request[q].id \in ResponseIds \cup {NoId}
  BY Zenon DEF TypeOK, Request
<1>2. PlanOf(q)'
  BY <1>1, Zenon DEF PlanOf, At, Grows
<1>3. ASSUME request[q].bound
      PROVE  request[q].id # NoId /\ Kept(<<request[q].scope, request[q].id>>)'
  <2>1. request[q].id # NoId /\ request[q].step \in Streams
    BY <1>3, Zenon DEF StreamOf
  <2>2. request[q].scope \in Scopes
    BY <2>1, Zenon DEF PlanOf, At, Streams
  <2>3. <<request[q].scope, request[q].id>> \in Keys
    BY <1>1, <2>1, <2>2, Zenon DEF Keys
  <2>4. QED
    BY <1>3, <2>1, <2>3, Zenon DEF StreamOf, Grows
<1>4. QED
  <2>1. Account(q)' = Account(q)
    BY Zenon DEF Account
  <2>2. request[q].id # NoId => Account(q) \in origin'[request[q].id]
    BY <1>1, Zenon DEF StreamOf, Grows
  <2>3. Kept(<<request[q].scope, request[q].id>>)' = (<<request'[q].scope, request'[q].id>> \in gone'
            \/ entries'[<<request'[q].scope, request'[q].id>>].account # 0)
    BY Zenon DEF Kept
  <2>4. QED
    BY <1>2, <1>3, <2>1, <2>2, <2>3, Zenon DEF StreamOf, At, Kept

\* One request moves and the others stay.
LEMMA OneMoves ==
  ASSUME TypeOK, PlanInv, StreamInv, Grows, NEW r \in Requests, NEW moved \in Request,
         request' = [request EXCEPT ![r] = moved], PlanOf(r)', StreamOf(r)'
  PROVE  request' \in [Requests -> Request] /\ PlanInv' /\ StreamInv'
<1>1. request \in [Requests -> Request]
  BY Zenon DEF TypeOK
<1>2. request' \in [Requests -> Request] /\ \A q \in Requests \ {r} : request'[q] = request[q]
  BY <1>1, Zenon
<1>3. ASSUME NEW q \in Requests PROVE PlanOf(q)' /\ StreamOf(q)'
  BY <1>2, OthersKeep, Zenon DEF PlanInv, StreamInv
<1>4. QED
  BY <1>2, <1>3, Zenon DEF PlanInv, StreamInv

\* Steps that only move a request on.
LEMMA Ending ==
  ASSUME TypeOK, PlanInv, StreamInv, Grows, NEW r \in Requests,
         NEW step \in {"failed", "calling", "won", "recorded", "streaming", "over"}, Ends(r, step),
         \/ request[r].step \in {"planned", "calling", "won", "recorded"}
         \/ step = "failed" /\ At(r, "collected")
         \/ step = "over" /\ At(r, "streaming")
  PROVE  request' \in [Requests -> Request] /\ PlanInv' /\ StreamInv'
<1> DEFINE old == request[r]
           moved == [old EXCEPT !.step = step]
<1>1. old \in Request /\ PlanOf(r) /\ StreamOf(r)
  BY Zenon DEF TypeOK, PlanInv, StreamInv
<1>2. /\ moved \in Request /\ moved.step = step /\ moved.scope = old.scope
      /\ moved.previous = old.previous /\ moved.plan = old.plan /\ moved.index = old.index
      /\ moved.id = old.id /\ moved.bound = old.bound /\ moved.completed = old.completed
      /\ moved.observed = old.observed
  BY <1>1, Zenon DEF Request, Active
<1>3. request' = [request EXCEPT ![r] = moved] /\ request'[r] = moved
  BY Zenon DEF Ends, TypeOK
<1> HIDE DEF moved
<1>4. old.step \notin Streams => old.id = NoId /\ ~old.bound
  BY <1>1, Zenon DEF StreamOf
<1>5. old.previous \in ResponseIds \cup {NoId} /\ old.id \in ResponseIds \cup {NoId}
  BY <1>1, Zenon DEF Request
<1>6. PlanOf(r)'
  <2>1. step \in Active => old.step \in Active
    BY Zenon DEF Active, At
  <2>2. old.step # "new" /\ step # "collected"
    BY Zenon DEF At
  <2>3. QED
    BY <1>1, <1>2, <1>3, <1>5, <2>1, <2>2, Zenon DEF PlanOf, At, Grows
<1>7. StreamOf(r)'
  <2>1. CASE old.step \notin Streams
    <3>1. request'[r].id = NoId /\ ~request'[r].bound /\ request'[r].step # "binding"
      BY <1>2, <1>3, <1>4, <2>1, Zenon
    <3>2. QED
      BY <3>1, Zenon DEF StreamOf, At
  <2>2. CASE old.step \in Streams
    <3>1. old.step = "streaming" /\ step = "over"
      BY <2>2, Zenon DEF At, Streams
    <3>2. request'[r].step \in Streams /\ request'[r].step # "binding"
      BY <1>2, <1>3, <3>1, Zenon DEF Streams
    <3>3. Account(r)' = Account(r)
      BY <1>2, <1>3, Zenon DEF Account
    <3>4. old.id # NoId => Account(r) \in origin'[old.id]
      BY <1>1, <1>5, Zenon DEF StreamOf, Grows
    <3>5. old.bound => /\ old.id # NoId
                       /\ \/ <<old.scope, old.id>> \in gone'
                          \/ entries'[<<old.scope, old.id>>].account # 0
      <4>1. old.scope \in Scopes
        BY <1>1, <3>1, Zenon DEF PlanOf, At
      <4>2. old.id # NoId => <<old.scope, old.id>> \in Keys
        BY <1>5, <4>1, Zenon DEF Keys
      <4>3. QED
        BY <1>1, <4>2, Zenon DEF StreamOf, Grows, Kept
    <3>6. ~At(r, "binding")
      BY <3>1, Zenon DEF At
    <3>7. QED
      BY <1>1, <1>2, <1>3, <3>2, <3>3, <3>4, <3>5, <3>6, Zenon DEF StreamOf, At, Kept
  <2>3. QED
    BY <2>1, <2>2, Zenon
<1>8. QED
  BY <1>2, <1>3, <1>6, <1>7, OneMoves, Zenon

\* The loop goes on to a candidate of the same plan.
LEMMA GoingOn ==
  ASSUME TypeOK, PlanInv, StreamInv, Grows, NEW r \in Requests, NextCandidate(r),
         request[r].step \in {"planned", "calling"}
  PROVE  request' \in [Requests -> Request] /\ PlanInv' /\ StreamInv'
<1> DEFINE old == request[r]
           n == old.index + 1
           moved == [old EXCEPT !.step = "planned", !.index = n]
<1>1. old \in Request /\ PlanOf(r) /\ StreamOf(r)
  BY Zenon DEF TypeOK, PlanInv, StreamInv
<1>2. CASE ~(old.index < Len(old.plan))
  <2>1. Ends(r, "failed")
    BY <1>2, Zenon DEF NextCandidate
  <2>2. QED
    BY <2>1, Ending, Zenon
<1>3. CASE old.index < Len(old.plan)
  <2>1. n \in Nat
    <3>1. old.index \in Nat
      BY <1>1, Zenon DEF Request
    <3>2. QED
      BY <3>1
  <2>2. request' = [request EXCEPT ![r] = moved] /\ request'[r] = moved
    BY <1>3, Zenon DEF NextCandidate, TypeOK
  <2> HIDE DEF n
  <2>3. /\ moved \in Request /\ moved.step = "planned" /\ moved.scope = old.scope
        /\ moved.previous = old.previous /\ moved.plan = old.plan /\ moved.index = n
        /\ moved.id = old.id /\ moved.bound = old.bound
    BY <1>1, <2>1, Zenon DEF Request, Active
  <2> HIDE DEF moved
  <2>4. old.step \in Active /\ old.step \notin Streams /\ old.step # "new"
    BY Zenon DEF Active, Streams
  <2>5. old.previous \in ResponseIds \cup {NoId} /\ old.index \in 1 .. Len(old.plan) /\ Len(old.plan) \in Nat
    BY <1>1, <2>4 DEF Request, PlanOf
  <2>6. n \in 1 .. Len(old.plan)
    BY <1>3, <2>5 DEF n
  <2>7. PlanOf(r)'
    BY <1>1, <2>2, <2>3, <2>4, <2>5, <2>6, Zenon DEF PlanOf, At, Grows
  <2>8. StreamOf(r)'
    <3>1. request'[r].id = NoId /\ ~request'[r].bound /\ request'[r].step # "binding"
      BY <1>1, <2>2, <2>3, <2>4, Zenon DEF StreamOf
    <3>2. QED
      BY <3>1, Zenon DEF StreamOf, At
  <2>9. QED
    BY <2>3, <2>2, <2>7, <2>8, OneMoves, Zenon
<1>4. QED
  BY <1>2, <1>3, Zenon

\* The router has arranged a plan.
LEMMA Planning ==
  ASSUME TypeOK, PlanInv, StreamInv, Grows, NEW r \in Requests, At(r, "collected"),
         NEW plan \in Seq(Accounts), Planned(r, plan), Len(plan) # 0,
         request[r].previous # NoId =>
           \A i \in 1 .. Len(plan) : plan[i] \in Codex => plan[i] \in origin[request[r].previous]
  PROVE  request' \in [Requests -> Request] /\ PlanInv' /\ StreamInv'
<1> DEFINE old == request[r]
           moved == [old EXCEPT !.step = "planned", !.plan = plan, !.index = 1]
<1>1. old \in Request /\ PlanOf(r) /\ StreamOf(r)
  BY Zenon DEF TypeOK, PlanInv, StreamInv
<1>2. request' = [request EXCEPT ![r] = moved] /\ request'[r] = moved
  BY Zenon DEF Planned, TypeOK
<1>3. /\ moved \in Request /\ moved.step = "planned" /\ moved.scope = old.scope
      /\ moved.previous = old.previous /\ moved.plan = plan /\ moved.index = 1
      /\ moved.id = old.id /\ moved.bound = old.bound
  BY <1>1, Zenon DEF Request, Active
<1> HIDE DEF moved
<1>4. old.step \notin Streams /\ old.step # "new"
  BY Zenon DEF Streams, At
<1>5. old.previous \in ResponseIds \cup {NoId}
  BY <1>1, Zenon DEF Request
<1>6. 1 \in 1 .. Len(plan)
  <2>1. Len(plan) \in Nat
    BY Elements, Zenon
  <2>2. QED
    BY <2>1
<1>7. PlanOf(r)'
  BY <1>1, <1>2, <1>3, <1>4, <1>5, <1>6, Zenon DEF PlanOf, At, Grows
<1>8. StreamOf(r)'
  <2>1. request'[r].id = NoId /\ ~request'[r].bound /\ request'[r].step # "binding"
    BY <1>1, <1>2, <1>3, <1>4, Zenon DEF StreamOf
  <2>2. QED
    BY <2>1, Zenon DEF StreamOf, At
<1>9. QED
  BY <1>2, <1>3, <1>7, <1>8, OneMoves, Zenon

\* What no step of the bindings does.
LEMMA SameBindings ==
  ASSUME TypeOK, QueueInv, HomeInv, UNCHANGED bindings,
         \A id \in ResponseIds : origin[id] \subseteq origin'[id]
  PROVE  QueueInv' /\ HomeInv' /\ Grows
<1>1. entries' = entries /\ oldest' = oldest /\ gone' = gone
  BY Zenon DEF bindings
<1>2. QueueInv'
  BY <1>1, Zenon DEF QueueInv, Agree
<1>3. \A k \in Keys : k[2] \in ResponseIds
  BY Zenon DEF Keys
<1>4. HomeInv'
  BY <1>1, <1>3, Zenon DEF HomeInv
<1>5. QED
  BY <1>1, <1>2, <1>4, Zenon DEF Grows, Kept

\* routes() collects the candidates.
LEMMA CollectKeeps ==
  ASSUME IInv, NEW r \in Requests, Collect(r)
  PROVE  IInv'
<1>1. TypeOK /\ QueueInv /\ HomeInv /\ PlanInv /\ StreamInv
  BY Zenon DEF IInv
<1>2. PICK scope \in Scopes, session \in menu.sessions \cup {NoSession},
           previous \in menu.ids \cup {NoId} :
        \E routes \in Orders(Candidates(scope)) : request' = [request EXCEPT ![r] =
          [Fresh EXCEPT !.step = IF routes = <<>> THEN "failed" ELSE "collected",
                        !.scope = scope, !.session = session, !.previous = previous,
                        !.at = now, !.plan = routes]]
  BY Zenon DEF Collect
<1>3. PICK routes \in Orders(Candidates(scope)) : request' = [request EXCEPT ![r] =
          [Fresh EXCEPT !.step = IF routes = <<>> THEN "failed" ELSE "collected",
                        !.scope = scope, !.session = session, !.previous = previous,
                        !.at = now, !.plan = routes]]
  BY <1>2, Zenon
<1> DEFINE step == IF routes = <<>> THEN "failed" ELSE "collected"
           moved == [Fresh EXCEPT !.step = step, !.scope = scope, !.session = session,
                                  !.previous = previous, !.at = now, !.plan = routes]
<1>4. session \in Sessions \cup {NoSession} /\ previous \in ResponseIds \cup {NoId}
  <2>1. menu.sessions \subseteq Sessions /\ menu.ids \subseteq ResponseIds
    BY <1>1, RoutingAssumption, Zenon DEF TypeOK
  <2>2. QED
    BY <2>1, Zenon
<1>5. routes \in Seq(Accounts)
  <2>1. Candidates(scope) \in SUBSET Accounts
    BY <1>1, Zenon DEF TypeOK, Candidates
  <2>2. QED
    BY <2>1, Ordered, Zenon
<1>6. step \in {"failed", "collected"} /\ now \in Nat
  BY <1>1, Zenon DEF TypeOK
<1> HIDE DEF step
<1>7. /\ moved \in Request /\ moved.step = step /\ moved.scope = scope /\ moved.id = NoId
      /\ moved.bound = FALSE /\ moved.plan = routes
  BY <1>4, <1>5, <1>6, Zenon DEF Fresh, Request
<1>8. request' = [request EXCEPT ![r] = moved]
  BY <1>3, Zenon DEF step
<1> HIDE DEF moved
<1>9. request'[r] = moved
  BY <1>1, <1>8, Zenon DEF TypeOK
<1>10. PlanOf(r)'
  <2>1. request'[r].step \notin Active /\ request'[r].scope \in Scopes
    BY <1>6, <1>7, <1>9, Zenon DEF Active
  <2>2. request'[r].step = "collected" => request'[r].plan # <<>>
    BY <1>7, <1>9, Zenon DEF step
  <2>3. QED
    BY <2>1, <2>2, Zenon DEF PlanOf, At
<1>11. StreamOf(r)'
  <2>1. request'[r].id = NoId /\ ~request'[r].bound /\ request'[r].step # "binding"
    BY <1>6, <1>7, <1>9, Zenon
  <2>2. QED
    BY <2>1, Zenon DEF StreamOf, At
<1>12. UNCHANGED <<now, menu, routed, selections, bindings, origin>>
  BY Zenon DEF Collect, accounts
<1>13. QueueInv' /\ HomeInv' /\ Grows
  BY <1>1, <1>12, SameBindings, Zenon
<1>14. request' \in [Requests -> Request] /\ PlanInv' /\ StreamInv'
  BY <1>1, <1>7, <1>8, <1>10, <1>11, <1>13, OneMoves, Zenon
<1>15. QED
  BY <1>1, <1>12, <1>13, <1>14, Zenon DEF IInv, TypeOK

\* routes() decides on a plan: the account an id is bound to announced it, and without a
\* binding no account with response state is left.
LEMMA ChooseKeeps ==
  ASSUME IInv, NEW r \in Requests, Choose(r)
  PROVE  IInv'
<1> DEFINE key == <<request[r].scope, request[r].previous>>
           routes == request[r].plan
           live == RemoveOldest(Expired(request[r].at))
<1>1. TypeOK /\ QueueInv /\ HomeInv /\ PlanInv /\ StreamInv
  BY Zenon DEF IInv
<1>2. At(r, "collected") /\ UNCHANGED <<now, menu, routed, origin>>
  BY Zenon DEF Choose, accounts
<1>3. /\ request[r] \in Request /\ routes \in Seq(Accounts)
      /\ request[r].previous \in ResponseIds \cup {NoId} /\ request[r].scope \in Scopes
  <2>1. request[r] \in Request /\ PlanOf(r)
    BY <1>1, Zenon DEF TypeOK, PlanInv
  <2>2. ~At(r, "new")
    BY <1>2, Zenon DEF At
  <2>3. QED
    BY <2>1, <2>2, Zenon DEF Request, PlanOf
<1>4. ASSUME QueueInv', HomeInv', Grows, selections' \in [Scopes \X Priorities -> Nat],
             request' \in [Requests -> Request] /\ PlanInv' /\ StreamInv'
      PROVE  IInv'
  BY <1>1, <1>2, <1>4, Zenon DEF IInv, TypeOK
<1>5. routes # <<>>
  BY <1>1, <1>2, Zenon DEF PlanInv, PlanOf
<1>6. CASE request[r].previous = NoId /\ Arrange(r, routes) /\ UNCHANGED bindings
  <2>1. QueueInv' /\ HomeInv' /\ Grows
    BY <1>1, <1>2, <1>6, SameBindings, Zenon
  <2>2. PICK plan \in Seq(Accounts) : Planned(r, plan) /\ Len(plan) = Len(routes)
    BY <1>1, <1>3, <1>6, Arranged, Zenon
  <2>3. Len(routes) # 0
    BY <1>3, <1>5
  <2>4. request' \in [Requests -> Request] /\ PlanInv' /\ StreamInv'
    BY <1>1, <1>2, <1>6, <2>1, <2>2, <2>3, Planning, Zenon
  <2>5. selections' \in [Scopes \X Priorities -> Nat]
    BY <1>1, <1>3, <1>6, Arranged, Zenon
  <2>6. QED
    BY <1>4, <2>1, <2>4, <2>5, Zenon
<1>7. CASE /\ request[r].previous # NoId
           /\ entries' = live.entries /\ oldest' = live.oldest
           /\ gone' = gone \cup live.dropped
  <2>1. QueueInv' /\ HomeInv' /\ \A k \in Keys : Kept(k) => Kept(k)'
    BY <1>1, <1>2, <1>7, Expires, Zenon
  <2>2. Grows
    BY <1>2, <2>1, Zenon DEF Grows
  <2>3. key \in Keys /\ key[2] = request[r].previous
    BY <1>3, <1>7, Zenon DEF Keys
  <2>4. ASSUME Refuse(r), UNCHANGED selections PROVE IInv'
    <3>1. Ends(r, "failed")
      BY <2>4, Zenon DEF Refuse, Ends
    <3>2. request' \in [Requests -> Request] /\ PlanInv' /\ StreamInv'
      BY <1>1, <1>2, <2>2, <3>1, Ending, Zenon
    <3>3. QED
      BY <1>1, <1>4, <2>1, <2>2, <2>4, <3>2, Zenon DEF TypeOK
  <2>5. ASSUME live.entries[key].account # 0, UNCHANGED selections,
               Planned(r, <<live.entries[key].account>>)
        PROVE  IInv'
    <3> DEFINE a == live.entries[key].account
    <3>1. a \in Accounts /\ a \in origin[request[r].previous]
      <4>1. entries'[key] \in Binding /\ a = entries'[key].account
        BY <1>7, <2>1, <2>3, Zenon DEF QueueInv, Agree
      <4>2. a \in Accounts
        BY <2>5, <4>1, Zenon DEF Binding
      <4>3. a \in origin'[key[2]]
        BY <2>1, <2>3, <2>5, <4>1, Zenon DEF HomeInv
      <4>4. QED
        BY <1>2, <2>3, <4>2, <4>3, Zenon
    <3> HIDE DEF a
    <3>2. <<a>> \in Seq(Accounts) /\ Len(<<a>>) # 0 /\ \A i \in 1 .. Len(<<a>>) : <<a>>[i] = a
      BY <3>1
    <3>3. Planned(r, <<a>>)
      BY <2>5, Zenon DEF a
    <3>4. request' \in [Requests -> Request] /\ PlanInv' /\ StreamInv'
      BY <1>1, <1>2, <2>2, <3>1, <3>2, <3>3, Planning, Zenon
    <3>5. QED
      BY <1>1, <1>4, <2>1, <2>2, <2>5, <3>4, Zenon DEF TypeOK
  <2>6. ASSUME NEW stateless \in Stateless(routes), stateless # <<>>, Arrange(r, stateless)
        PROVE  IInv'
    <3>1. Range(routes) \ Codex \in SUBSET Accounts
      BY <1>3, Elements DEF Range
    <3>2. stateless \in Seq(Accounts) /\ \A i \in 1 .. Len(stateless) : stateless[i] \notin Codex
      BY <2>6, <3>1, Ordered, Zenon DEF Stateless
    <3>3. PICK plan \in Seq(Accounts) :
            /\ Planned(r, plan) /\ Len(plan) = Len(stateless)
            /\ \A i \in 1 .. Len(stateless) : \E j \in 1 .. Len(stateless) : plan[i] = stateless[j]
      BY <1>1, <1>3, <2>6, <3>2, Arranged, Zenon
    <3>4. Len(plan) # 0 /\ \A i \in 1 .. Len(plan) : plan[i] \notin Codex
      BY <2>6, <3>2, <3>3
    <3>5. request' \in [Requests -> Request] /\ PlanInv' /\ StreamInv'
      BY <1>1, <1>2, <2>2, <3>3, <3>4, Planning, Zenon
    <3>6. selections' \in [Scopes \X Priorities -> Nat]
      BY <1>1, <1>3, <2>6, <3>2, Arranged, Zenon
    <3>7. QED
      BY <1>4, <2>1, <2>2, <3>5, <3>6, Zenon
  <2>7. \/ Refuse(r) /\ UNCHANGED selections
        \/ /\ live.entries[key].account # 0 /\ Planned(r, <<live.entries[key].account>>)
           /\ UNCHANGED selections
        \/ \E stateless \in Stateless(routes) : stateless # <<>> /\ Arrange(r, stateless)
    BY <1>7, Zenon DEF Choose
  <2>8. QED
    BY <2>4, <2>5, <2>6, <2>7, Zenon
<1>8. QED
  BY <1>6, <1>7, Zenon DEF Choose

\* The failover loop up to the stream, and its end.
LoopStep(r) ==
  Dispatch(r) \/ Answer(r) \/ Failover(r) \/ RecordSuccess(r) \/ CommitAffinity(r) \/ Leave(r)

LEMMA LoopKeeps ==
  ASSUME IInv, NEW r \in Requests, LoopStep(r)
  PROVE  IInv'
<1>1. TypeOK /\ QueueInv /\ HomeInv /\ PlanInv /\ StreamInv
  BY Zenon DEF IInv
<1>2. UNCHANGED <<now, menu, routed, selections, bindings, origin>>
  BY Zenon DEF LoopStep, Dispatch, Answer, Failover, RecordSuccess, CommitAffinity, Leave, accounts, router
<1>3. QueueInv' /\ HomeInv' /\ Grows
  BY <1>1, <1>2, SameBindings, Zenon
<1>4. \/ NextCandidate(r) /\ (At(r, "planned") \/ At(r, "calling"))
      \/ At(r, "planned") /\ (Ends(r, "failed") \/ Ends(r, "calling"))
      \/ At(r, "calling") /\ (Ends(r, "won") \/ Ends(r, "failed") \/ Ends(r, "over"))
      \/ At(r, "won") /\ Ends(r, "recorded")
      \/ At(r, "recorded") /\ Ends(r, "streaming")
      \/ At(r, "streaming") /\ Ends(r, "over")
  BY Zenon DEF LoopStep, Dispatch, Answer, Failover, RecordSuccess, CommitAffinity, Leave, At
<1>5. request' \in [Requests -> Request] /\ PlanInv' /\ StreamInv'
  <2>1. ASSUME NextCandidate(r), At(r, "planned") \/ At(r, "calling")
        PROVE  request' \in [Requests -> Request] /\ PlanInv' /\ StreamInv'
    <3>1. request[r].step \in {"planned", "calling"}
      BY <2>1, Zenon DEF At
    <3>2. QED
      BY <1>1, <1>3, <2>1, <3>1, GoingOn, Zenon
  <2>2. ASSUME NEW step \in {"failed", "calling", "won", "recorded", "streaming", "over"}, Ends(r, step),
               At(r, "planned") \/ At(r, "calling") \/ At(r, "won") \/ At(r, "recorded")
        PROVE  request' \in [Requests -> Request] /\ PlanInv' /\ StreamInv'
    <3>1. request[r].step \in {"planned", "calling", "won", "recorded"}
      BY <2>2, Zenon DEF At
    <3>2. QED
      BY <1>1, <1>3, <2>2, <3>1, Ending, Zenon
  <2>3. ASSUME At(r, "streaming"), Ends(r, "over")
        PROVE  request' \in [Requests -> Request] /\ PlanInv' /\ StreamInv'
    BY <1>1, <1>3, <2>3, Ending, Zenon
  <2>4. QED
    BY <1>4, <2>1, <2>2, <2>3, Zenon
<1>6. QED
  BY <1>1, <1>2, <1>3, <1>5, Zenon DEF IInv, TypeOK

\* An event of the stream: the account announced the id, and the request binds it before
\* the client gets it, if it is to be bound.
LEMMA Observed ==
  ASSUME IInv, NEW r \in Requests, Observing(r), NEW id \in ResponseIds \cup {NoId},
         NEW binds \in BOOLEAN, NEW completes \in BOOLEAN, Event(r, id, binds, completes),
         request[r].id \in {NoId, id}, binds => id # NoId,
         id # NoId /\ request[r].observed /\ (Account(r) \in Codex \/ completes) =>
           binds \/ request[r].bound
  PROVE  IInv'
<1> DEFINE old == request[r]
           step == IF binds THEN "binding" ELSE "streaming"
           moved == [old EXCEPT !.id = id, !.at = now, !.completed = completes, !.step = step]
<1>1. TypeOK /\ QueueInv /\ HomeInv /\ PlanInv /\ StreamInv
  BY Zenon DEF IInv
<1>2. old \in Request /\ PlanOf(r) /\ StreamOf(r) /\ now \in Nat
  BY <1>1, Zenon DEF TypeOK, PlanInv, StreamInv
<1>3. request' = [request EXCEPT ![r] = moved] /\ request'[r] = moved
  BY <1>1, Zenon DEF Event, TypeOK
<1>4. step \in {"binding", "streaming"} /\ (step = "binding" <=> binds)
  BY Zenon DEF step
<1> HIDE DEF step
<1>5. /\ moved \in Request /\ moved.step = step /\ moved.scope = old.scope
      /\ moved.previous = old.previous /\ moved.plan = old.plan /\ moved.index = old.index
      /\ moved.id = id /\ moved.bound = old.bound /\ moved.completed = completes
      /\ moved.observed = old.observed
  BY <1>2, <1>4, ZenonT(60) DEF Request, Active
<1> HIDE DEF moved
<1>6. /\ old.step = "streaming" /\ Account(r) \in Accounts
      /\ origin' = [i \in ResponseIds |-> origin[i] \cup (IF i = id THEN {Account(r)} ELSE {})]
  <2>1. old.step = "streaming" /\ Account(r) \in Tracked
    BY Zenon DEF Observing, At
  <2>2. QED
    BY <2>1, RoutingAssumption, Zenon DEF Event
<1>7. UNCHANGED <<now, menu, routed, selections, bindings>>
  BY Zenon DEF Event, accounts, router
<1>8. origin' \in [ResponseIds -> SUBSET Accounts] /\ \A i \in ResponseIds : origin[i] \subseteq origin'[i]
  <2>1. \A i \in ResponseIds : origin[i] \subseteq Accounts
    BY <1>1, Zenon DEF TypeOK
  <2>2. QED
    BY <1>6, <2>1, Zenon
<1>9. QueueInv' /\ HomeInv' /\ Grows
  BY <1>1, <1>7, <1>8, SameBindings, Zenon
<1>10. old.previous \in ResponseIds \cup {NoId} /\ old.scope \in Scopes
  BY <1>2, <1>6, Zenon DEF Request, PlanOf, At
<1>11. PlanOf(r)'
  <2>1. old.step \in Active /\ old.step # "new" /\ step # "collected"
    BY <1>4, <1>6, Zenon DEF Active
  <2>2. QED
    BY <1>2, <1>3, <1>5, <1>9, <1>10, <2>1, Zenon DEF PlanOf, At, Grows
<1>12. StreamOf(r)'
  <2>1. Account(r)' = Account(r)
    BY <1>3, <1>5, Zenon DEF Account
  <2>2. id # NoId => Account(r) \in origin'[id]
    BY <1>6, Zenon
  <2>3. step \in Streams
    BY <1>4, Zenon DEF Streams
  <2>4. old.bound => /\ id # NoId
                     /\ <<old.scope, id>> \in gone' \/ entries'[<<old.scope, id>>].account # 0
    <3>1. old.bound => id = old.id /\ id # NoId /\ Kept(<<old.scope, id>>)
      BY <1>2, Zenon DEF StreamOf
    <3>2. UNCHANGED <<gone, entries>>
      BY <1>7, Zenon DEF bindings
    <3>3. QED
      BY <3>1, <3>2, Zenon DEF Kept
  <2>5. QED
    BY <1>3, <1>4, <1>5, <2>1, <2>2, <2>3, <2>4, Zenon DEF StreamOf, At, Kept
<1>13. request' \in [Requests -> Request] /\ PlanInv' /\ StreamInv'
  BY <1>1, <1>3, <1>5, <1>9, <1>11, <1>12, OneMoves, Zenon
<1>14. QED
  BY <1>1, <1>7, <1>8, <1>9, <1>13, Zenon DEF IInv, TypeOK

LEMMA EventsKeep ==
  ASSUME IInv, NEW r \in Requests, Created(r) \/ Completed(r)
  PROVE  IInv'
<1>1. /\ TypeOK /\ StreamOf(r) /\ request[r].id \in ResponseIds \cup {NoId}
      /\ request[r].bound \in BOOLEAN /\ request[r].observed \in BOOLEAN
      /\ menu.ids \subseteq ResponseIds
  <2>1. TypeOK /\ StreamOf(r) /\ request[r] \in Request
    BY Zenon DEF IInv, TypeOK, StreamInv
  <2>2. menu.ids \subseteq ResponseIds
    BY <2>1, RoutingAssumption, Zenon DEF TypeOK
  <2>3. QED
    BY <2>1, <2>2, Zenon DEF Request
<1>2. CASE Created(r)
  <2>1. PICK id \in menu.ids : Event(r, id, Account(r) \in Codex /\ request[r].observed, FALSE)
    BY <1>2, Zenon DEF Created
  <2>2. PICK binds \in BOOLEAN : binds = (Account(r) \in Codex /\ request[r].observed)
    BY Zenon
  <2>3. Event(r, id, binds, FALSE)
    BY <2>1, <2>2, Zenon
  <2>4. id \in ResponseIds /\ id # NoId /\ Observing(r) /\ request[r].id = NoId
    BY <1>1, <1>2, RoutingAssumption, Zenon DEF Created
  <2>5. QED
    BY <2>2, <2>3, <2>4, Observed, Zenon
<1>3. CASE Completed(r)
  <2>1. PICK id \in IF request[r].id = NoId THEN menu.ids \cup {NoId} ELSE {request[r].id} :
          Event(r, id, id # NoId /\ ~request[r].bound /\ request[r].observed, TRUE)
    BY <1>3, Zenon DEF Completed
  <2>2. PICK binds \in BOOLEAN : binds = (id # NoId /\ ~request[r].bound /\ request[r].observed)
    BY Zenon
  <2>3. Event(r, id, binds, TRUE)
    BY <2>1, <2>2, Zenon
  <2>4. id \in ResponseIds \cup {NoId} /\ Observing(r) /\ request[r].id \in {NoId, id}
    BY <1>1, <1>3, <2>1, Zenon DEF Completed
  <2>5. QED
    BY <2>2, <2>3, <2>4, Observed, Zenon
<1>4. QED
  BY <1>2, <1>3, Zenon

\* bind_response_id: the id is bound, to the account of the stream or to the one that
\* was bound to it first.
LEMMA BindKeeps ==
  ASSUME IInv, NEW r \in Requests, Bind(r)
  PROVE  IInv'
<1> DEFINE old == request[r]
           moved == [old EXCEPT !.bound = TRUE, !.step = "streaming"]
<1>1. TypeOK /\ QueueInv /\ HomeInv /\ PlanInv /\ StreamInv
  BY Zenon DEF IInv
<1>2. old \in Request /\ PlanOf(r) /\ StreamOf(r)
  BY <1>1, Zenon DEF TypeOK, PlanInv, StreamInv
<1>3. request' = [request EXCEPT ![r] = moved] /\ request'[r] = moved
  BY <1>1, Zenon DEF Bind, TypeOK
<1>4. /\ moved \in Request /\ moved.step = "streaming" /\ moved.scope = old.scope
      /\ moved.previous = old.previous /\ moved.plan = old.plan /\ moved.index = old.index
      /\ moved.id = old.id /\ moved.bound = TRUE
  BY <1>2, Zenon DEF Request, Active
<1> HIDE DEF moved
<1>5. old.step = "binding" /\ UNCHANGED <<now, menu, routed, selections, origin>>
  BY Zenon DEF Bind, At, accounts, router
<1>6. old.step \in Active /\ old.step # "new"
  BY <1>5, Zenon DEF Active
<1>7. /\ old.id \in ResponseIds /\ old.id # NoId /\ old.scope \in Scopes /\ old.at \in Nat
      /\ Account(r) \in Accounts /\ Account(r) \in origin[old.id]
      /\ old.previous \in ResponseIds \cup {NoId}
  <2>1. old.id # NoId /\ Account(r) \in origin[old.id] /\ old.scope \in Scopes
    BY <1>2, <1>5, <1>6, Zenon DEF StreamOf, PlanOf, At
  <2>2. old.id \in ResponseIds /\ old.at \in Nat /\ old.previous \in ResponseIds \cup {NoId}
    BY <1>2, <2>1, Zenon DEF Request
  <2>3. QED
    BY <1>1, <2>1, <2>2, Zenon DEF TypeOK
<1>8. PICK key \in Keys : key = <<old.scope, old.id>>
  BY <1>7, Zenon DEF Keys
<1>9. PICK at \in Nat, account \in Accounts : at = old.at /\ account = Account(r)
  BY <1>7, Zenon
<1>10. Insert(at, key, account)
  BY <1>8, <1>9, Zenon DEF Bind
<1>11. account \in origin[key[2]]
  <2>1. key[2] = old.id
    BY <1>8, Zenon
  <2>2. QED
    BY <1>7, <1>9, <2>1, Zenon
<1>12. QueueInv' /\ HomeInv' /\ Kept(key)' /\ \A k \in Keys : Kept(k) => Kept(k)'
  BY <1>1, <1>5, <1>10, <1>11, Inserts, Zenon
<1>13. Grows
  BY <1>5, <1>12, Zenon DEF Grows
<1>14. PlanOf(r)'
  <2>1. "streaming" # "collected"
    BY Zenon
  <2>2. QED
    BY <1>2, <1>3, <1>4, <1>6, <1>7, <1>13, <2>1, Zenon DEF PlanOf, At, Grows
<1>15. StreamOf(r)'
  <2>1. Account(r)' = Account(r)
    BY <1>3, <1>4, Zenon DEF Account
  <2>2. request'[r].step \in Streams /\ request'[r].step # "binding"
    BY <1>3, <1>4, Zenon DEF Streams
  <2>3. key \in gone' \/ entries'[key].account # 0
    BY <1>12, Zenon DEF Kept
  <2>4. key = <<request'[r].scope, request'[r].id>>
    BY <1>3, <1>4, <1>8, Zenon
  <2>5. QED
    BY <1>3, <1>4, <1>5, <1>7, <2>1, <2>2, <2>3, <2>4, Zenon DEF StreamOf, At, Kept
<1>16. request' \in [Requests -> Request] /\ PlanInv' /\ StreamInv'
  BY <1>1, <1>3, <1>4, <1>13, <1>14, <1>15, OneMoves, Zenon
<1>17. QED
  BY <1>1, <1>5, <1>12, <1>16, Zenon DEF IInv, TypeOK

\* A frame outgrows the buffer.
LEMMA OverflowKeeps ==
  ASSUME IInv, NEW r \in Requests, Overflow(r)
  PROVE  IInv'
<1> DEFINE old == request[r]
           moved == [old EXCEPT !.observed = FALSE]
<1>1. TypeOK /\ QueueInv /\ HomeInv /\ PlanInv /\ StreamInv
  BY Zenon DEF IInv
<1>2. old \in Request /\ PlanOf(r) /\ StreamOf(r)
  BY <1>1, Zenon DEF TypeOK, PlanInv, StreamInv
<1>3. request' = [request EXCEPT ![r] = moved] /\ request'[r] = moved
  BY <1>1, Zenon DEF Overflow, TypeOK
<1>4. /\ moved \in Request /\ moved.step = old.step /\ moved.scope = old.scope
      /\ moved.previous = old.previous /\ moved.plan = old.plan /\ moved.index = old.index
      /\ moved.id = old.id /\ moved.bound = old.bound /\ moved.observed = FALSE
  BY <1>2, Zenon DEF Request
<1> HIDE DEF moved
<1>5. UNCHANGED <<now, menu, routed, selections, bindings, origin>>
  BY Zenon DEF Overflow, accounts, router
<1>6. QueueInv' /\ HomeInv' /\ Grows
  BY <1>1, <1>5, SameBindings, Zenon
<1>7. PlanOf(r)'
  BY <1>2, <1>3, <1>4, <1>5, Zenon DEF PlanOf, At
<1>8. StreamOf(r)'
  <2>1. Account(r)' = Account(r)
    BY <1>3, <1>4, Zenon DEF Account
  <2>2. UNCHANGED <<gone, entries>>
    BY <1>5, Zenon DEF bindings
  <2>3. ~request'[r].observed
    BY <1>3, <1>4, Zenon
  <2>4. request'[r].bound = old.bound /\ request'[r].id = old.id /\ request'[r].scope = old.scope
        /\ request'[r].step = old.step /\ origin' = origin /\ gone' = gone /\ entries' = entries
    BY <1>3, <1>4, <1>5, <2>2, Zenon
  <2>5. request'[r].id # NoId => request'[r].step \in Streams /\ Account(r)' \in origin'[request'[r].id]
    BY <1>2, <2>1, <2>4, Zenon DEF StreamOf
  <2>6. request'[r].step = "binding" => request'[r].id # NoId
    BY <1>2, <2>4, Zenon DEF StreamOf, At
  <2>7. request'[r].bound => /\ request'[r].id # NoId
                             /\ \/ <<request'[r].scope, request'[r].id>> \in gone'
                                \/ entries'[<<request'[r].scope, request'[r].id>>].account # 0
    BY <1>2, <2>4, Zenon DEF StreamOf, Kept
  <2>8. QED
    BY <2>3, <2>5, <2>6, <2>7, Zenon DEF StreamOf, At, Kept
<1>9. request' \in [Requests -> Request] /\ PlanInv' /\ StreamInv'
  BY <1>1, <1>3, <1>4, <1>6, <1>7, <1>8, OneMoves, Zenon
<1>10. QED
  BY <1>1, <1>5, <1>6, <1>9, Zenon DEF IInv, TypeOK

\* Steps without a request: of an account's installation or removal, and of the clock.
LEMMA OutsideKeeps ==
  ASSUME IInv, UNCHANGED <<menu, selections, bindings, request, origin>>,
         now' \in Nat, routed' \subseteq Accounts
  PROVE  IInv'
<1>1. TypeOK /\ QueueInv /\ HomeInv /\ PlanInv /\ StreamInv
  BY Zenon DEF IInv
<1>2. QueueInv' /\ HomeInv' /\ Grows
  BY <1>1, SameBindings, Zenon
<1>3. \A q \in Requests : PlanOf(q)' /\ StreamOf(q)'
  BY <1>1, <1>2, OthersKeep, Zenon DEF PlanInv, StreamInv
<1>4. TypeOK'
  BY <1>1, Zenon DEF TypeOK
<1>5. QED
  BY <1>2, <1>3, <1>4, Zenon DEF IInv, PlanInv, StreamInv

LEMMA AdminKeeps ==
  ASSUME IInv, AdminNext \/ Tick \/ UNCHANGED vars
  PROVE  IInv'
<1>1. TypeOK /\ menu.touched \subseteq Accounts
  BY RoutingAssumption, Zenon DEF IInv, TypeOK
<1>2. CASE AdminNext
  <2>1. UNCHANGED <<now, menu, selections, bindings, request, origin>>
    BY <1>2, Zenon DEF AdminNext, Unregister, Unroute, ForgetAffinities, ForgetCooldowns, Register,
          Route, Expire, router
  <2>2. PICK a \in menu.touched :
          \/ UNCHANGED routed \/ routed' = routed \ {a}
          \/ routed' = (routed \ {a}) \cup ({a} \cap available)
    BY <1>2, Zenon DEF AdminNext, Unregister, Unroute, ForgetAffinities, ForgetCooldowns, Register,
          Route, Expire
  <2>3. routed' \subseteq Accounts /\ now' \in Nat
    BY <1>1, <2>1, <2>2, Zenon DEF TypeOK
  <2>4. QED
    BY <2>1, <2>3, OutsideKeeps, Zenon
<1>3. CASE Tick
  <2>1. UNCHANGED <<menu, selections, bindings, request, origin, routed>> /\ now' = now + 1
    BY <1>3, Zenon DEF Tick, accounts, router
  <2>2. now' \in Nat
    BY <1>1, <2>1 DEF TypeOK
  <2>3. routed' \subseteq Accounts
    BY <1>1, <2>1, Zenon DEF TypeOK
  <2>4. QED
    BY <2>1, <2>2, <2>3, OutsideKeeps, Zenon
<1>4. CASE UNCHANGED vars
  <2>1. UNCHANGED <<now, menu, selections, bindings, request, origin, routed>>
    BY <1>4, Zenon DEF vars, bindings
  <2>2. QED
    BY <1>1, <2>1, OutsideKeeps, Zenon DEF TypeOK
<1>5. QED
  BY <1>2, <1>3, <1>4, Zenon

-----------------------------------------------------------------------------
(* The theorems. *)

LEMMA InitEstablishes ==
  ASSUME Init
  PROVE  IInv
<1>1. /\ Fresh \in Request /\ Fresh.step = "new" /\ Fresh.id = NoId /\ Fresh.bound = FALSE
      /\ NoBinding \in Binding /\ NoBinding.account = 0
  BY DEF Fresh, Request, NoBinding, Binding
<1>2. \A r \in Requests : request[r] = Fresh
  BY Zenon DEF Init
<1>3. TypeOK
  <2>1. now \in Nat /\ routed \subseteq Accounts /\ menu \in Menu
    BY Zenon DEF Init
  <2>2. request \in [Requests -> Request] /\ origin \in [ResponseIds -> SUBSET Accounts]
        /\ selections \in [Scopes \X Priorities -> Nat]
    BY <1>1, Zenon DEF Init
  <2>3. QED
    BY <2>1, <2>2, Zenon DEF TypeOK
<1>4. Agree(entries, oldest) /\ Len(oldest) <= MaxBindings
  <2>1. entries \in [Keys -> Binding] /\ \A k \in Keys : entries[k].account = 0
    BY <1>1, Zenon DEF Init
  <2>2. oldest = <<>> /\ Len(oldest) = 0 /\ oldest \in Seq([at : Nat, key : Keys])
    BY DEF Init
  <2>3. 1 .. 0 = {} /\ 0 <= MaxBindings
    BY RoutingAssumption
  <2>4. QED
    BY <2>1, <2>2, <2>3, Zenon DEF Agree
<1>5. HomeInv
  BY <1>1, Zenon DEF HomeInv, Init
<1>6. ASSUME NEW r \in Requests PROVE PlanOf(r) /\ StreamOf(r)
  <2>1. request[r].step = "new" /\ request[r].id = NoId /\ ~request[r].bound
    BY <1>1, <1>2, Zenon
  <2>2. "new" \notin Active /\ "new" # "collected" /\ "new" # "binding"
    BY Zenon DEF Active
  <2>3. QED
    BY <2>1, <2>2, Zenon DEF PlanOf, StreamOf, At
<1>7. QED
  BY <1>3, <1>4, <1>5, <1>6, Zenon DEF IInv, QueueInv, PlanInv, StreamInv

LEMMA NextKeeps ==
  ASSUME IInv, [Next]_vars
  PROVE  IInv'
<1>1. ASSUME RequestNext PROVE IInv'
  <2>1. PICK r \in Requests :
          \/ Collect(r) \/ Choose(r) \/ LoopStep(r) \/ Created(r) \/ Completed(r)
          \/ Bind(r) \/ Overflow(r)
    BY <1>1, Zenon DEF RequestNext, LoopStep
  <2>2. QED
    BY <2>1, CollectKeeps, ChooseKeeps, LoopKeeps, EventsKeep, BindKeeps, OverflowKeeps, Zenon
<1>2. QED
  BY <1>1, AdminKeeps, Zenon DEF Next

\* The invariant of the router's requests and bindings holds in every reachable state.
THEOREM RoutingInvariant == Spec => []IInv
<1>1. Init => IInv
  BY InitEstablishes, Zenon
<1>2. IInv /\ [Next]_vars => IInv'
  BY NextKeeps, Zenon
<1>3. QED
  BY <1>1, <1>2, PTL DEF Spec

\* A continuation reaches an account with response state only if the account announced
\* the id: the binding decides in ProviderModelRouter::routes, whatever expired, was
\* evicted or was bound by other streams meanwhile.
THEOREM ContinuationsStayHome == Spec => []ContinuationAtHome
<1>1. IInv => ContinuationAtHome
  <2> SUFFICES ASSUME IInv, NEW r \in Requests, At(r, "calling"), request[r].previous # NoId,
                      Account(r) \in Codex
               PROVE  Account(r) \in origin[request[r].previous]
    BY Zenon DEF ContinuationAtHome
  <2>1. request[r].step \in Active
    BY Zenon DEF At, Active
  <2>2. QED
    BY <2>1, Zenon DEF IInv, PlanInv, PlanOf, Account
<1>2. QED
  BY <1>1, RoutingInvariant, PTL

\* ResponseBindings holds each bound id once in its queue, never more than
\* MAX_RESPONSE_BINDINGS, and every id a client got until it expires or is evicted.
THEOREM BindingsAlwaysSound == Spec => []BindingsSound
<1>1. IInv => BindingsSound
  <2> SUFFICES ASSUME IInv PROVE BindingsSound
    BY Zenon
  <2>1. Agree(entries, oldest) /\ Len(oldest) <= MaxBindings
    BY Zenon DEF IInv, QueueInv
  <2>2. Size(entries) = Len(oldest) /\ Len(oldest) \in Nat /\ DOMAIN oldest = 1 .. Len(oldest)
    <3>1. oldest \in Seq([at : Nat, key : Keys])
      BY <2>1, Zenon DEF Agree
    <3>2. DOMAIN oldest = 1 .. Len(oldest)
      BY <3>1
    <3>3. QED
      BY <2>1, <3>2, SizeIsLength, Zenon
  <2>3. ASSUME NEW k \in Keys, entries[k].account # 0
        PROVE  \E i \in DOMAIN oldest : oldest[i] = [at |-> entries[k].at, key |-> k]
    <3>1. PICK i \in 1 .. Len(oldest) : oldest[i].key = k
      BY <2>1, <2>3, Zenon DEF Agree
    <3>2. oldest[i].at = entries[k].at
      BY <2>1, <3>1, Zenon DEF Agree
    <3>3. oldest[i] \in [at : Nat, key : Keys]
      BY <2>1, Elements, Zenon DEF Agree
    <3>4. oldest[i] = [at |-> entries[k].at, key |-> k]
      BY <3>1, <3>2, <3>3, Zenon
    <3>5. QED
      BY <2>2, <3>4, Zenon
  <2>4. ASSUME NEW r \in Requests, request[r].id # NoId, ~At(r, "binding"), request[r].observed,
               Account(r) \in Codex \/ request[r].completed,
               <<request[r].scope, request[r].id>> \notin gone
        PROVE  entries[<<request[r].scope, request[r].id>>].account \in origin[request[r].id]
    <3> DEFINE key == <<request[r].scope, request[r].id>>
    <3>1. StreamOf(r) /\ PlanOf(r) /\ request[r] \in Request
      BY Zenon DEF IInv, StreamInv, PlanInv, TypeOK
    <3>2. request[r].bound /\ request[r].step \in Streams
      BY <2>4, <3>1, Zenon DEF StreamOf
    <3>3. entries[key].account # 0
      BY <2>4, <3>1, <3>2, Zenon DEF StreamOf, Kept
    <3>4. request[r].id \in ResponseIds /\ request[r].scope \in Scopes
      BY <2>4, <3>1, <3>2, Zenon DEF Request, PlanOf, At, Streams
    <3>5. key \in Keys /\ key[2] = request[r].id
      BY <3>4, Zenon DEF Keys
    <3>6. QED
      BY <3>3, <3>5, Zenon DEF IInv, HomeInv
  <2>5. AnnouncedIsBound
    BY <2>4, Zenon DEF AnnouncedIsBound
  <2>6. QED
    BY <2>1, <2>2, <2>3, <2>5, Zenon DEF BindingsSound, BindingsExact
<1>2. QED
  BY <1>1, RoutingInvariant, PTL
=============================================================================
