------------------------- MODULE QuotaLedgerProofs --------------------------
(***************************************************************************)
(* Theorems about QuotaLedger, for every number of requests, attempts and  *)
(* crashes and every size of the queues and the recovery batch: the        *)
(* inductive invariant IInv, the lemmas about what leaves a request alone, *)
(* and the proof that IInv is kept by the handler, from asking for ledger  *)
(* capacity through its attempts to answering the client, by the ledger    *)
(* writer and the usage writer, by a crash and by the recovery after it.   *)
(***************************************************************************)
EXTENDS QuotaLedger, FiniteSetTheorems, TLAPS

\* Whatever resolves the claim of r still has the entry of r.
InLedger(r) == Queued(r) \/ r \in writing
Held(r) == r \in permits \/ InLedger(r)
Resolved(r) == claim[r] \in {"settled", "released"}
ConfirmedOf(r) == {i \in Indices : result[<<r, i>>] \in Confirmed}

\* The process: what a start finds in memory, and who may be alive.
ProcessInv ==
  /\ stage # "serving" => permits = {} /\ entries = <<>> /\ writing = {} /\ healthy
  /\ healthy \/ writing # {}
  /\ \A r \in Requests :
       /\ phase[r] \notin {"new", "answered", "gone"} => stage = "serving"
       /\ phase[r] \notin {"answered", "gone"} => r \notin crashed
       /\ \A i \in Indices :
            /\ result[<<r, i>>] = "open" => phase[r] = "executing"
            /\ phase[r] = "new" => result[<<r, i>>] = "unopened"

\* A finite request: how its handler, its entry and its claim go together.
ClaimInv(r) ==
  /\ phase[r] \in {"new", "reserving", "permitted"} => claim[r] = "none"
  /\ phase[r] = "permitted" => r \in permits
  /\ r \in orphaned => claim[r] # "none"
  /\ phase[r] \in Tracked => claim[r] = "reserved" /\ r \in permits /\ r \notin orphaned
  /\ r \in permits => phase[r] \in Tracked \union {"permitted"}
  /\ InLedger(r) => claim[r] # "none" /\ phase[r] \in {"awaiting", "answered", "gone"}
  /\ phase[r] = "awaiting" => claim[r] # "none"
  /\ r \in acked => Resolved(r)
  /\ Resolved(r) => phase[r] \in {"awaiting", "answered", "gone"}
  /\ claim[r] = "reserved" =>
       /\ Exists(r)
       /\ stage # "recover_in_flight"
       /\ stage = "recover_quota" => r \in crashed
  /\ stage = "serving" /\ claim[r] = "reserved" /\ r \notin orphaned => Held(r)

\* A finite request: what its entry says and what has been charged.
CostInv(r) ==
  /\ phase[r] = "executing" => r \in marked
  /\ Held(r) => noted[r] = ConfirmedOf(r)
  /\ noted[r] # {} => r \in sent /\ r \in marked /\ claim[r] # "none"
  /\ \A i \in Indices :
       /\ claim[r] = "none" => result[<<r, i>>] = "unopened"
       /\ claim[r] # "settled" => times[<<r, i>>] = 0
       /\ times[<<r, i>>] # 0 => times[<<r, i>>] = 1 /\ result[<<r, i>>] = "priced"
       /\ (Resolved(r) /\ r \notin crashed) \/ phase[r] = "answered" =>
            (result[<<r, i>>] = "priced" => times[<<r, i>>] = 1)
  /\ phase[r] = "answered" => Resolved(r)

\* A plain request: a charged attempt was inserted, and is there or gone
\* with its request.
PlainInv(r) ==
  \A i \in Indices :
    times[<<r, i>>] # 0 =>
      /\ times[<<r, i>>] = 1 /\ result[<<r, i>>] = "priced"
      /\ <<r, i>> \in rows \/ logical[r] = "deleted"

IInv ==
  /\ TypeOK
  /\ ProcessInv
  /\ \A r \in Finite : ClaimInv(r) /\ CostInv(r)
  /\ \A r \in Plain : PlainInv(r)

-----------------------------------------------------------------------------
(***************************************************************************)
(* The members of a queue after an entry was added and after its head was  *)
(* taken.                                                                  *)
(***************************************************************************)
LEMMA AppendQueued ==
  ASSUME NEW S, NEW s \in Seq(S), NEW e \in S, NEW x
  PROVE  (\E n \in DOMAIN Append(s, e) : Append(s, e)[n] = x)
           <=> (\E n \in DOMAIN s : s[n] = x) \/ x = e
<1>1. /\ DOMAIN Append(s, e) = 1..(Len(s) + 1)
      /\ Append(s, e)[Len(s) + 1] = e
      /\ \A n \in 1..Len(s) : Append(s, e)[n] = s[n]
      /\ Len(s) \in Nat /\ DOMAIN s = 1..Len(s)
  OBVIOUS
<1>2. QED
  BY <1>1

LEMMA TailQueued ==
  ASSUME NEW S, NEW s \in Seq(S), s # <<>>, NEW x
  PROVE  (\E n \in DOMAIN s : s[n] = x)
           <=> (\E n \in DOMAIN Tail(s) : Tail(s)[n] = x) \/ x = Head(s)
<1>1. /\ Len(s) \in Nat \ {0} /\ DOMAIN s = 1..Len(s)
      /\ DOMAIN Tail(s) = 1..(Len(s) - 1)
      /\ \A n \in 1..(Len(s) - 1) : Tail(s)[n] = s[n + 1]
      /\ Head(s) = s[1]
  OBVIOUS
<1>2. ASSUME NEW n \in DOMAIN s, s[n] = x, n # 1
      PROVE  n - 1 \in DOMAIN Tail(s) /\ Tail(s)[n - 1] = x
  BY <1>1, <1>2
<1>3. ASSUME NEW n \in DOMAIN Tail(s), Tail(s)[n] = x
      PROVE  n + 1 \in DOMAIN s /\ s[n + 1] = x
  BY <1>1, <1>3
<1>4. 1 \in DOMAIN s
  BY <1>1
<1>5. QED
  BY <1>1, <1>2, <1>3, <1>4, Zenon

(***************************************************************************)
(* What a fact of the usage queue is about, and what submitting one does.  *)
(***************************************************************************)
LEMMA FactTypes ==
  /\ \A a \in Attempts : <<"attempt", a>> \in Fact /\ RequestOf(<<"attempt", a>>) = a[1]
  /\ \A r \in Requests : <<"terminal", r>> \in Fact /\ RequestOf(<<"terminal", r>>) = r
  /\ \A f \in Fact :
       /\ RequestOf(f) \in Requests
       /\ f[1] = "attempt" => f[2] \in Attempts
       /\ f[1] = "terminal" => f[2] \in Requests
  BY Zenon DEF Fact, RequestOf, Attempts

LEMMA SubmitTypes ==
  ASSUME TypeOK, NEW fact \in Fact, Submit(fact)
  PROVE  /\ facts' \in Seq(Fact) /\ Len(facts') <= UsageCapacity
         /\ tally' \in SUBSET Requests
<1>1. RequestOf(fact) \in Requests
  BY FactTypes, Zenon
<1>2. CASE Len(facts) < UsageCapacity /\ facts' = Append(facts, fact) /\ tally' = tally
  BY <1>2, QuotaAssumption DEF TypeOK
<1>3. CASE tally' = tally \union {RequestOf(fact)} /\ facts' = facts
  BY <1>1, <1>3, Zenon DEF TypeOK
<1>4. QED
  BY <1>2, <1>3, Zenon DEF Submit

(***************************************************************************)
(* A finite request that a step does not touch keeps its invariants, and   *)
(* so does a plain one.                                                    *)
(***************************************************************************)
Same(q) ==
  /\ stage' = stage
  /\ phase'[q] = phase[q] /\ claim'[q] = claim[q] /\ noted'[q] = noted[q]
  /\ q \in permits' <=> q \in permits
  /\ InLedger(q)' <=> InLedger(q)
  /\ q \in orphaned' <=> q \in orphaned
  /\ q \in acked' <=> q \in acked
  /\ q \in crashed' <=> q \in crashed
  /\ q \in marked' <=> q \in marked
  /\ q \in sent' <=> q \in sent
  /\ Exists(q) => Exists(q)'
  /\ \A i \in Indices : /\ result'[<<q, i>>] = result[<<q, i>>]
                        /\ times'[<<q, i>>] = times[<<q, i>>]

LEMMA FiniteFrame ==
  ASSUME NEW q \in Finite, Same(q), ClaimInv(q), CostInv(q)
  PROVE  ClaimInv(q)' /\ CostInv(q)'
<1>1. Held(q)' <=> Held(q)
  BY Zenon DEF Same, Held
<1>2. Resolved(q)' <=> Resolved(q)
  BY Zenon DEF Same, Resolved
<1>3. ConfirmedOf(q)' = ConfirmedOf(q)
  BY Zenon DEF Same, ConfirmedOf
<1>4. ClaimInv(q)'
  BY <1>1, <1>2, Zenon DEF Same, ClaimInv
<1>5. CostInv(q)'
  BY <1>1, <1>2, <1>3, Zenon DEF Same, CostInv
<1>6. QED
  BY <1>4, <1>5, Zenon

LEMMA PlainFrame ==
  ASSUME NEW q \in Plain, PlainInv(q),
         logical[q] = "deleted" => logical'[q] = "deleted",
         \A i \in Indices :
           /\ times'[<<q, i>>] = times[<<q, i>>]
           /\ result[<<q, i>>] = "priced" => result'[<<q, i>>] = "priced"
           /\ <<q, i>> \in rows => <<q, i>> \in rows'
  PROVE  PlainInv(q)'
  BY Zenon DEF PlainInv

(***************************************************************************)
(* One lemma per action: it keeps the inductive invariant.                 *)
(***************************************************************************)
\* A request asks for capacity.
LEMMA ReserveKeepsIInv ==
  ASSUME IInv, NEW r \in Finite, Reserve(r)
  PROVE  IInv'
<1> USE DEF Reserve, Enter, db, handlers, ledger, usage, history
<1>1. TypeOK
  BY Zenon DEF IInv
<1>5. TypeOK'
  BY <1>1, Zenon DEF TypeOK, Phases, Requests
<1>6. ProcessInv'
  BY <1>1, Zenon DEF IInv, ProcessInv, TypeOK, Phases, Requests
<1>7. ASSUME NEW q \in Finite PROVE ClaimInv(q)' /\ CostInv(q)'
  <2>1. ClaimInv(q) /\ CostInv(q)
    BY Zenon DEF IInv
  <2>2. CASE q # r
    <3>1. Same(q)
      BY <1>1, <2>2, Zenon DEF Same, TypeOK, InLedger, Queued, Exists, Requests
    <3>2. QED
      BY <2>1, <3>1, FiniteFrame, Zenon
  <2>3. CASE q = r
    <3>1. ClaimInv(r)'
      BY <1>1, <2>1, <2>3, Zenon DEF ClaimInv, Held, InLedger, Queued, Resolved, Exists,
         Tracked, TypeOK, Requests
    <3>2. CostInv(r)'
      BY <1>1, <2>1, <2>3, Zenon DEF ClaimInv, CostInv, Held, InLedger, Queued, Resolved,
         ConfirmedOf, Tracked, TypeOK, Requests
    <3>3. QED
      BY <2>3, <3>1, <3>2, Zenon
  <2>4. QED
    BY <2>2, <2>3, Zenon
<1>8. ASSUME NEW q \in Plain PROVE PlainInv(q)'
  <2>1. PlainInv(q)
    BY Zenon DEF IInv
  <2>2. /\ logical[q] = "deleted" => logical'[q] = "deleted"
        /\ \A j \in Indices :
             /\ times'[<<q, j>>] = times[<<q, j>>]
             /\ result[<<q, j>>] = "priced" => result'[<<q, j>>] = "priced"
             /\ <<q, j>> \in rows => <<q, j>> \in rows'
    BY <1>1, Zenon DEF TypeOK, Requests
  <2>3. QED
    BY <2>1, <2>2, PlainFrame, Zenon
<1>9. QED
  BY <1>5, <1>6, <1>7, <1>8, Zenon DEF IInv

\* A permit is handed out.
LEMMA TakePermitKeepsIInv ==
  ASSUME IInv, NEW r \in Finite, TakePermit(r)
  PROVE  IInv'
<1> USE DEF TakePermit, Enter, db, handlers, ledger, usage, history
<1>1. TypeOK
  BY Zenon DEF IInv
<1>5. TypeOK'
  BY <1>1, Zenon DEF TypeOK, Phases, Requests
<1>6. ProcessInv'
  BY <1>1, Zenon DEF IInv, ProcessInv, TypeOK, Phases, Requests
<1>7. ASSUME NEW q \in Finite PROVE ClaimInv(q)' /\ CostInv(q)'
  <2>1. ClaimInv(q) /\ CostInv(q)
    BY Zenon DEF IInv
  <2>2. CASE q # r
    <3>1. Same(q)
      BY <1>1, <2>2, Zenon DEF Same, TypeOK, InLedger, Queued, Exists, Requests
    <3>2. QED
      BY <2>1, <3>1, FiniteFrame, Zenon
  <2>3. CASE q = r
    <3>1. ClaimInv(r)'
      BY <1>1, <2>1, <2>3, Zenon DEF ClaimInv, Held, InLedger, Queued, Resolved, Exists,
         Tracked, TypeOK, Requests
    <3>2. CostInv(r)'
      <4>1. noted[r] = {} /\ ConfirmedOf(r)' = {}
        BY <2>1, <2>3, Zenon DEF ClaimInv, CostInv, ConfirmedOf, Confirmed
      <4>2. QED
        BY <1>1, <2>1, <2>3, <4>1, Zenon DEF CostInv, ClaimInv, Resolved, TypeOK, Requests
    <3>3. QED
      BY <2>3, <3>1, <3>2, Zenon
  <2>4. QED
    BY <2>2, <2>3, Zenon
<1>8. ASSUME NEW q \in Plain PROVE PlainInv(q)'
  <2>1. PlainInv(q)
    BY Zenon DEF IInv
  <2>2. /\ logical[q] = "deleted" => logical'[q] = "deleted"
        /\ \A j \in Indices :
             /\ times'[<<q, j>>] = times[<<q, j>>]
             /\ result[<<q, j>>] = "priced" => result'[<<q, j>>] = "priced"
             /\ <<q, j>> \in rows => <<q, j>> \in rows'
    BY <1>1, Zenon DEF TypeOK, Requests
  <2>3. QED
    BY <2>1, <2>2, PlainFrame, Zenon
<1>9. QED
  BY <1>5, <1>6, <1>7, <1>8, Zenon DEF IInv

\* The claim commits, with or without its handler.
LEMMA BeginClaimKeepsIInv ==
  ASSUME IInv, NEW r \in Finite, BeginClaim(r)
  PROVE  IInv'
<1> USE DEF BeginClaim, Enter, db, handlers, ledger, usage, history
<1>1. TypeOK
  BY Zenon DEF IInv
<1>2. /\ phase' \in [Requests -> Phases]
      /\ logical' \in [Requests -> {"none", "in_progress", "terminal", "deleted"}]
      /\ claim' \in [Finite -> {"none", "reserved", "settled", "released"}]
  <2>1. phase' \in [Requests -> Phases]
    BY <1>1, Zenon DEF TypeOK, Phases
  <2>2. logical' \in [Requests -> {"none", "in_progress", "terminal", "deleted"}]
    BY <1>1, Zenon DEF TypeOK
  <2>3. claim' \in [Finite -> {"none", "reserved", "settled", "released"}]
    BY <1>1, Zenon DEF TypeOK
  <2>4. QED
    BY <2>1, <2>2, <2>3, Zenon
<1>3. /\ \A q \in Requests : q # r => phase'[q] = phase[q] /\ logical'[q] = logical[q]
      /\ \A q \in Finite : q # r => claim'[q] = claim[q]
      /\ claim'[r] = "reserved" /\ logical'[r] = "in_progress"
      /\ \/ phase'[r] = "claimed" /\ permits' = permits /\ orphaned' = orphaned
         \/ phase'[r] = "gone" /\ permits' = permits \ {r} /\ orphaned' = orphaned \union {r}
  BY <1>1, Zenon DEF TypeOK, Requests
<1>5. TypeOK'
  <2>1. permits' \in SUBSET Finite /\ orphaned' \in SUBSET Finite
    BY <1>1, <1>3, Zenon DEF TypeOK
  <2>2. QED
    BY <1>1, <1>2, <2>1, Zenon DEF TypeOK
<1>6. ProcessInv'
  BY <1>3 DEF IInv, ProcessInv, Requests
<1>7. ASSUME NEW q \in Finite PROVE ClaimInv(q)' /\ CostInv(q)'
  <2>1. ClaimInv(q) /\ CostInv(q)
    BY Zenon DEF IInv
  <2>2. CASE q # r
    <3>1. Same(q)
      BY <1>1, <2>2, <1>3, Zenon DEF Same, TypeOK, InLedger, Queued, Exists, Requests
    <3>2. QED
      BY <2>1, <3>1, FiniteFrame, Zenon
  <2>3. CASE q = r
    <3>1. ClaimInv(r)'
      <4>1. claim[r] = "none" /\ r \in permits /\ ~InLedger(r) /\ r \notin orphaned /\ r \notin acked
        BY <2>1, <2>3, Zenon DEF ClaimInv, Resolved
      <4>2. stage = "serving" /\ ~InLedger(r)' /\ Exists(r)'
        BY <1>3, <4>1, Zenon DEF IInv, ProcessInv, Requests, InLedger, Queued, Exists
      <4>3. QED
        BY <1>3, <4>1, <4>2, Zenon DEF ClaimInv, Held, Resolved, Tracked
    <3>2. CostInv(r)'
      <4>1. claim[r] = "none" /\ Held(r) /\ noted[r] = {}
        BY <2>1, <2>3, Zenon DEF ClaimInv, CostInv, Held
      <4>2. ConfirmedOf(r)' = ConfirmedOf(r)
        BY Zenon DEF ConfirmedOf
      <4>3. QED
        BY <1>3, <2>1, <2>3, <4>1, <4>2, Zenon DEF CostInv, Resolved
    <3>3. QED
      BY <2>3, <3>1, <3>2, Zenon
  <2>4. QED
    BY <2>2, <2>3, Zenon
<1>8. ASSUME NEW q \in Plain PROVE PlainInv(q)'
  <2>1. PlainInv(q)
    BY Zenon DEF IInv
  <2>2. /\ logical[q] = "deleted" => logical'[q] = "deleted"
        /\ \A j \in Indices :
             /\ times'[<<q, j>>] = times[<<q, j>>]
             /\ result[<<q, j>>] = "priced" => result'[<<q, j>>] = "priced"
             /\ <<q, j>> \in rows => <<q, j>> \in rows'
    BY <1>1, <1>3, QuotaAssumption, SMTT(60) DEF TypeOK, Requests
  <2>3. QED
    BY <2>1, <2>2, PlainFrame, Zenon
<1>9. QED
  BY <1>5, <1>6, <1>7, <1>8, Zenon DEF IInv

\* The claim does not commit.
LEMMA BeginFailsKeepsIInv ==
  ASSUME IInv, NEW r \in Finite, BeginFails(r)
  PROVE  IInv'
<1> USE DEF BeginFails, Enter, db, handlers, ledger, usage, history
<1>1. TypeOK
  BY Zenon DEF IInv
<1>5. TypeOK'
  BY <1>1, Zenon DEF TypeOK, Phases, Requests
<1>6. ProcessInv'
  BY <1>1, Zenon DEF IInv, ProcessInv, TypeOK, Phases, Requests
<1>7. ASSUME NEW q \in Finite PROVE ClaimInv(q)' /\ CostInv(q)'
  <2>1. ClaimInv(q) /\ CostInv(q)
    BY Zenon DEF IInv
  <2>2. CASE q # r
    <3>1. Same(q)
      BY <1>1, <2>2, Zenon DEF Same, TypeOK, InLedger, Queued, Exists, Requests
    <3>2. QED
      BY <2>1, <3>1, FiniteFrame, Zenon
  <2>3. CASE q = r
    <3>1. ClaimInv(r)'
      BY <1>1, <2>1, <2>3, Zenon DEF ClaimInv, Held, InLedger, Queued, Resolved, Exists,
         Tracked, TypeOK, Requests
    <3>2. CostInv(r)'
      BY <1>1, <2>1, <2>3, Zenon DEF ClaimInv, CostInv, Held, InLedger, Queued, Resolved,
         ConfirmedOf, Tracked, TypeOK, Requests
    <3>3. QED
      BY <2>3, <3>1, <3>2, Zenon
  <2>4. QED
    BY <2>2, <2>3, Zenon
<1>8. ASSUME NEW q \in Plain PROVE PlainInv(q)'
  <2>1. PlainInv(q)
    BY Zenon DEF IInv
  <2>2. /\ logical[q] = "deleted" => logical'[q] = "deleted"
        /\ \A j \in Indices :
             /\ times'[<<q, j>>] = times[<<q, j>>]
             /\ result[<<q, j>>] = "priced" => result'[<<q, j>>] = "priced"
             /\ <<q, j>> \in rows => <<q, j>> \in rows'
    BY <1>1, Zenon DEF TypeOK, Requests
  <2>3. QED
    BY <2>1, <2>2, PlainFrame, Zenon
<1>9. QED
  BY <1>5, <1>6, <1>7, <1>8, Zenon DEF IInv

\* A plain request starts, with or without its row.
LEMMA BeginPlainKeepsIInv ==
  ASSUME IInv, NEW r \in Plain, BeginPlain(r)
  PROVE  IInv'
<1> USE DEF BeginPlain, Enter, db, handlers, ledger, usage, history
<1>1. TypeOK
  BY Zenon DEF IInv
<1>5. TypeOK'
  BY <1>1 DEF TypeOK, Phases, Requests
<1>6. ProcessInv'
  BY <1>1, Zenon DEF IInv, ProcessInv, TypeOK, Phases, Requests
<1>7. ASSUME NEW q \in Finite PROVE ClaimInv(q)' /\ CostInv(q)'
  <2>1. ClaimInv(q) /\ CostInv(q)
    BY Zenon DEF IInv
  <2>2. Same(q)
    BY <1>1, QuotaAssumption, Zenon DEF Same, TypeOK, InLedger, Queued, Exists, Requests
  <2>3. QED
    BY <2>1, <2>2, FiniteFrame, Zenon
<1>8. ASSUME NEW q \in Plain PROVE PlainInv(q)'
  <2>1. CASE q # r
    BY <1>1, <2>1, PlainFrame, Zenon DEF IInv, TypeOK, Requests
  <2>2. CASE q = r
    BY <1>1, <2>2, Zenon DEF IInv, ProcessInv, PlainInv, TypeOK, Requests
  <2>3. QED
    BY <2>1, <2>2, Zenon
<1>9. QED
  BY <1>5, <1>6, <1>7, <1>8, Zenon DEF IInv

\* The quota admits a request.
LEMMA AdmitQuotaKeepsIInv ==
  ASSUME IInv, NEW r \in Finite, AdmitQuota(r)
  PROVE  IInv'
<1> USE DEF AdmitQuota, Enter, db, handlers, ledger, usage, history
<1>1. TypeOK
  BY Zenon DEF IInv
<1>5. TypeOK'
  BY <1>1, Zenon DEF TypeOK, Phases, Requests
<1>6. ProcessInv'
  BY <1>1, Zenon DEF IInv, ProcessInv, TypeOK, Phases, Requests
<1>7. ASSUME NEW q \in Finite PROVE ClaimInv(q)' /\ CostInv(q)'
  <2>1. ClaimInv(q) /\ CostInv(q)
    BY Zenon DEF IInv
  <2>2. CASE q # r
    <3>1. Same(q)
      BY <1>1, <2>2, Zenon DEF Same, TypeOK, InLedger, Queued, Exists, Requests
    <3>2. QED
      BY <2>1, <3>1, FiniteFrame, Zenon
  <2>3. CASE q = r
    <3>1. ClaimInv(r)'
      BY <1>1, <2>1, <2>3, Zenon DEF ClaimInv, Held, InLedger, Queued, Resolved, Exists,
         Tracked, TypeOK, Requests
    <3>2. CostInv(r)'
      BY <1>1, <2>1, <2>3, Zenon DEF ClaimInv, CostInv, Held, InLedger, Queued, Resolved,
         ConfirmedOf, Tracked, TypeOK, Requests
    <3>3. QED
      BY <2>3, <3>1, <3>2, Zenon
  <2>4. QED
    BY <2>2, <2>3, Zenon
<1>8. ASSUME NEW q \in Plain PROVE PlainInv(q)'
  <2>1. PlainInv(q)
    BY Zenon DEF IInv
  <2>2. /\ logical[q] = "deleted" => logical'[q] = "deleted"
        /\ \A j \in Indices :
             /\ times'[<<q, j>>] = times[<<q, j>>]
             /\ result[<<q, j>>] = "priced" => result'[<<q, j>>] = "priced"
             /\ <<q, j>> \in rows => <<q, j>> \in rows'
    BY <1>1, Zenon DEF TypeOK, Requests
  <2>3. QED
    BY <2>1, <2>2, PlainFrame, Zenon
<1>9. QED
  BY <1>5, <1>6, <1>7, <1>8, Zenon DEF IInv

\* The dispatch marker is written.
LEMMA MarkDispatchedKeepsIInv ==
  ASSUME IInv, NEW r \in Finite, MarkDispatched(r)
  PROVE  IInv'
<1> USE DEF MarkDispatched, Enter, db, handlers, ledger, usage, history
<1>1. TypeOK
  BY Zenon DEF IInv
<1>5. TypeOK'
  BY <1>1, Zenon DEF TypeOK, Phases, Requests
<1>6. ProcessInv'
  BY <1>1, SMTT(60) DEF IInv, ProcessInv, TypeOK, Phases, Requests
<1>7. ASSUME NEW q \in Finite PROVE ClaimInv(q)' /\ CostInv(q)'
  <2>1. ClaimInv(q) /\ CostInv(q)
    BY Zenon DEF IInv
  <2>2. CASE q # r
    <3>1. Same(q)
      BY <1>1, <2>2, Zenon DEF Same, TypeOK, InLedger, Queued, Exists, Requests
    <3>2. QED
      BY <2>1, <3>1, FiniteFrame, Zenon
  <2>3. CASE q = r
    <3>1. ClaimInv(r)'
      BY <1>1, <2>1, <2>3, Zenon DEF ClaimInv, Held, InLedger, Queued, Resolved, Exists,
         Tracked, TypeOK, Requests
    <3>2. CostInv(r)'
      BY <1>1, <2>1, <2>3, Zenon DEF ClaimInv, CostInv, Held, InLedger, Queued, Resolved,
         ConfirmedOf, Tracked, TypeOK, Requests
    <3>3. QED
      BY <2>3, <3>1, <3>2, Zenon
  <2>4. QED
    BY <2>2, <2>3, Zenon
<1>8. ASSUME NEW q \in Plain PROVE PlainInv(q)'
  <2>1. PlainInv(q)
    BY Zenon DEF IInv
  <2>2. /\ logical[q] = "deleted" => logical'[q] = "deleted"
        /\ \A j \in Indices :
             /\ times'[<<q, j>>] = times[<<q, j>>]
             /\ result[<<q, j>>] = "priced" => result'[<<q, j>>] = "priced"
             /\ <<q, j>> \in rows => <<q, j>> \in rows'
    BY <1>1, Zenon DEF TypeOK, Requests
  <2>3. QED
    BY <2>1, <2>2, PlainFrame, Zenon
<1>9. QED
  BY <1>5, <1>6, <1>7, <1>8, Zenon DEF IInv

\* The receipt arrives, or the client leaves.
LEMMA AnswerKeepsIInv ==
  ASSUME IInv, NEW r \in Finite, Answer(r)
  PROVE  IInv'
<1> USE DEF Answer, Enter, db, handlers, ledger, usage, history
<1>1. TypeOK
  BY Zenon DEF IInv
<1>5. TypeOK'
  <2>1. phase' \in [Requests -> Phases]
    BY <1>1, Zenon DEF TypeOK, Phases, Requests
  <2>2. QED
    BY <1>1, <2>1, Zenon DEF TypeOK
<1>6. ProcessInv'
  BY <1>1, SMTT(60) DEF IInv, ProcessInv, TypeOK, Phases, Requests
<1>7. ASSUME NEW q \in Finite PROVE ClaimInv(q)' /\ CostInv(q)'
  <2>1. ClaimInv(q) /\ CostInv(q)
    BY Zenon DEF IInv
  <2>2. CASE q # r
    <3>1. Same(q)
      BY <1>1, <2>2, Zenon DEF Same, TypeOK, InLedger, Queued, Exists, Requests
    <3>2. QED
      BY <2>1, <3>1, FiniteFrame, Zenon
  <2>3. CASE q = r
    <3>1. ClaimInv(r)'
      BY <1>1, <2>1, <2>3, Zenon DEF ClaimInv, Held, InLedger, Queued, Resolved, Exists,
         Tracked, TypeOK, Requests
    <3>2. CostInv(r)'
      <4>1. r \notin crashed
        BY Zenon DEF IInv, ProcessInv, Requests
      <4>2. QED
        BY Zenon, <1>1, <2>1, <2>3, <4>1
        DEF ClaimInv, CostInv, Held, InLedger, Queued, Resolved, ConfirmedOf, TypeOK, Requests
    <3>3. QED
      BY <2>3, <3>1, <3>2, Zenon
  <2>4. QED
    BY <2>2, <2>3, Zenon
<1>8. ASSUME NEW q \in Plain PROVE PlainInv(q)'
  <2>1. PlainInv(q)
    BY Zenon DEF IInv
  <2>2. /\ logical[q] = "deleted" => logical'[q] = "deleted"
        /\ \A j \in Indices :
             /\ times'[<<q, j>>] = times[<<q, j>>]
             /\ result[<<q, j>>] = "priced" => result'[<<q, j>>] = "priced"
             /\ <<q, j>> \in rows => <<q, j>> \in rows'
    BY <1>1, Zenon DEF TypeOK, Requests
  <2>3. QED
    BY <2>1, <2>2, PlainFrame, Zenon
<1>9. QED
  BY <1>5, <1>6, <1>7, <1>8, Zenon DEF IInv

\* An attempt is opened.
LEMMA OpenAttemptKeepsIInv ==
  ASSUME IInv, NEW r \in Requests, NEW i \in Indices, OpenAttempt(r, i)
  PROVE  IInv'
<1> USE DEF OpenAttempt, IsOpen, db, handlers, ledger, usage, history
<1>1. TypeOK
  BY Zenon DEF IInv
<1>2. result' \in [Attempts -> Results] /\ <<r, i>> \in Attempts
  BY <1>1, Zenon DEF TypeOK, Attempts, Results
<1>3. \A q \in Requests, j \in Indices :
        result'[<<q, j>>] = IF q = r /\ j = i THEN "open" ELSE result[<<q, j>>]
  BY <1>1, Zenon DEF TypeOK, Attempts
<1>5. TypeOK'
  BY <1>1, <1>2, Zenon DEF TypeOK
<1>6. ProcessInv'
  BY <1>3 DEF IInv, ProcessInv
<1>7. ASSUME NEW q \in Finite PROVE ClaimInv(q)' /\ CostInv(q)'
  <2>1. ClaimInv(q) /\ CostInv(q)
    BY Zenon DEF IInv
  <2>2. CASE q # r
    <3>1. Same(q)
      BY <1>1, <2>2, <1>3 DEF Same, TypeOK, InLedger, Queued, Exists, Requests
    <3>2. QED
      BY <2>1, <3>1, FiniteFrame, Zenon
  <2>3. CASE q = r
    <3>1. ClaimInv(r)'
      BY <2>1, <2>3, Zenon DEF ClaimInv, Held, InLedger, Queued, Resolved, Exists
    <3>2. CostInv(r)'
      <4>1. ConfirmedOf(r)' = ConfirmedOf(r)
        BY <1>3 DEF ConfirmedOf, Confirmed
      <4>2. claim[r] = "reserved"
        BY <2>1, <2>3, Zenon DEF ClaimInv, Tracked
      <4>3. \A j \in Indices : times[<<r, j>>] = 0
        BY <2>1, <2>3, <4>2, Zenon DEF CostInv
      <4>4. QED
        BY <2>1, <2>3, <4>1, <4>2, <4>3, Zenon DEF CostInv, Held, InLedger, Queued, Resolved
    <3>3. QED
      BY <2>3, <3>1, <3>2, Zenon
  <2>4. QED
    BY <2>2, <2>3, Zenon
<1>8. ASSUME NEW q \in Plain PROVE PlainInv(q)'
  <2>1. PlainInv(q) /\ q \in Requests
    BY Zenon DEF IInv, Requests
  <2>2. \A j \in Indices : result[<<q, j>>] = "priced" => result'[<<q, j>>] = "priced"
    BY <1>3, <2>1, Zenon
  <2>3. logical' = logical /\ times' = times /\ rows' = rows
    BY Zenon
  <2>4. QED
    BY <2>1, <2>2, <2>3, PlainFrame, Zenon
<1>9. QED
  BY <1>5, <1>6, <1>7, <1>8, Zenon DEF IInv

\* An attempt closes and its facts are submitted.
LEMMA CloseAttemptKeepsIInv ==
  ASSUME IInv, NEW r \in Requests, NEW i \in Indices, NEW res \in {"unsent", "unpriced", "priced"},
         CloseAttempt(r, i, res)
  PROVE  IInv'
<1> USE DEF CloseAttempt, db, handlers, ledger, usage, history
<1>1. TypeOK
  BY Zenon DEF IInv
<1>2. result' \in [Attempts -> Results] /\ <<r, i>> \in Attempts
  BY <1>1, Zenon DEF TypeOK, Attempts, Results
<1>3. \A q \in Requests, j \in Indices :
        result'[<<q, j>>] = IF q = r /\ j = i THEN res ELSE result[<<q, j>>]
  BY <1>1, Zenon DEF TypeOK, Attempts
<1>5. TypeOK'
  <2>1. <<"attempt", <<r, i>>>> \in Fact
    BY <1>2, FactTypes, Zenon
  <2>2. facts' \in Seq(Fact) /\ Len(facts') <= UsageCapacity /\ tally' \in SUBSET Requests
    BY <1>1, <2>1, SubmitTypes, Zenon
  <2>3. unstorable' \in SUBSET Attempts
    BY <1>1, <1>2, Zenon DEF TypeOK
  <2>4. noted' \in [Finite -> SUBSET Indices] /\ sent' \in SUBSET Finite
    BY <1>1, Zenon DEF TypeOK
  <2>5. QED
    BY <1>1, <1>2, <2>2, <2>3, <2>4, Zenon DEF TypeOK, Submit
<1>6. ProcessInv'
  BY <1>3 DEF IInv, ProcessInv
<1>7. ASSUME NEW q \in Finite PROVE ClaimInv(q)' /\ CostInv(q)'
  <2>1. ClaimInv(q) /\ CostInv(q)
    BY Zenon DEF IInv
  <2>2. CASE q # r
    <3>1. Same(q)
      BY <1>1, <2>2, <1>3 DEF Same, TypeOK, InLedger, Queued, Exists, Requests
    <3>2. QED
      BY <2>1, <3>1, FiniteFrame, Zenon
  <2>3. CASE q = r
    <3>1. ClaimInv(r)'
      BY <2>1, <2>3, Zenon DEF ClaimInv, Held, InLedger, Queued, Resolved, Exists
    <3>2. CostInv(r)'
      <4>1. phase[r] = "executing"
        BY Zenon DEF IInv, ProcessInv
      <4>2. claim[r] = "reserved" /\ r \in permits /\ r \in marked /\ noted[r] = ConfirmedOf(r)
        BY <2>1, <2>3, <4>1, Zenon DEF ClaimInv, CostInv, Tracked, Held
      <4>3. \A j \in Indices : times[<<r, j>>] = 0
        BY <2>1, <2>3, <4>2, Zenon DEF CostInv
      <4>4. CASE res \in Confirmed
        <5>1. noted'[r] = noted[r] \union {i} /\ r \in sent'
          BY <1>1, <2>3, <4>2, <4>4, Zenon DEF TypeOK
        <5>2. ConfirmedOf(r)' = ConfirmedOf(r) \union {i}
          BY <1>3, <4>4, Zenon DEF ConfirmedOf
        <5>3. QED
          BY <2>1, <2>3, <4>1, <4>2, <4>3, <5>1, <5>2, Zenon DEF CostInv, Resolved
      <4>5. CASE res \notin Confirmed
        <5>1. noted' = noted /\ sent' = sent
          BY <4>5, Zenon
        <5>2. ConfirmedOf(r)' = ConfirmedOf(r)
          BY <1>3, <4>5, Zenon DEF ConfirmedOf, Confirmed
        <5>3. QED
          BY <2>1, <2>3, <4>1, <4>2, <4>3, <5>1, <5>2, Zenon DEF CostInv, Resolved
      <4>6. QED
        BY <4>4, <4>5, Zenon
    <3>3. QED
      BY <2>3, <3>1, <3>2, Zenon
  <2>4. QED
    BY <2>2, <2>3, Zenon
<1>8. ASSUME NEW q \in Plain PROVE PlainInv(q)'
  <2>1. PlainInv(q) /\ q \in Requests
    BY Zenon DEF IInv, Requests
  <2>2. \A j \in Indices : result[<<q, j>>] = "priced" => result'[<<q, j>>] = "priced"
    BY <1>3, <2>1, Zenon
  <2>3. logical' = logical /\ times' = times /\ rows' = rows
    BY Zenon
  <2>4. QED
    BY <2>1, <2>2, <2>3, PlainFrame, Zenon
<1>9. QED
  BY <1>5, <1>6, <1>7, <1>8, Zenon DEF IInv

\* A finished request's entry is queued if it had a permit.
LEMMA FinishQueues ==
  ASSUME TypeOK, NEW r \in Requests, Finish(r), NEW q \in Finite
  PROVE  Queued(q)' <=> Queued(q) \/ (q = r /\ r \in permits)
<1>1. CASE r \in permits
  <2>1. entries \in Seq(Finite) /\ r \in Finite
    BY <1>1, Zenon DEF TypeOK
  <2>2. entries' = Append(entries, r)
    BY <1>1, Zenon DEF Finish
  <2>3. (\E n \in DOMAIN Append(entries, r) : Append(entries, r)[n] = q)
        <=> (\E n \in DOMAIN entries : entries[n] = q) \/ q = r
    BY <2>1, AppendQueued
  <2>4. QED
    BY <1>1, <2>2, <2>3, Zenon DEF Queued
<1>2. CASE r \notin permits
  BY <1>2, Zenon DEF Finish, Queued
<1>3. QED
  BY <1>1, <1>2, Zenon

\* A request finishes and hands its entry over.
LEMMA FinishKeepsIInv ==
  ASSUME IInv, NEW r \in Requests, Finish(r)
  PROVE  IInv'
<1> USE DEF Finish, Enter, db, handlers, ledger, usage, history
<1>1. TypeOK
  BY Zenon DEF IInv
<1>2. ASSUME NEW q \in Finite
      PROVE  Queued(q)' <=> Queued(q) \/ (q = r /\ r \in permits)
  BY <1>1, FinishQueues, Zenon
<1>3. /\ phase' \in [Requests -> Phases]
      /\ phase'[r] \in {"awaiting", "answered", "gone"}
      /\ r \in permits => phase'[r] # "answered" /\ permits' = permits \ {r}
      /\ r \notin permits => permits' = permits
      /\ \A q \in Requests : q # r => phase'[q] = phase[q]
  <2>1. \E p \in {"awaiting", "answered", "gone"} :
          /\ phase' = [phase EXCEPT ![r] = p]
          /\ r \in permits => p # "answered"
    BY Zenon
  <2>2. /\ r \in permits => permits' = permits \ {r}
        /\ r \notin permits => permits' = permits
    BY Zenon
  <2>3. phase \in [Requests -> Phases]
    BY <1>1, Zenon DEF TypeOK
  <2>4. QED
    BY <2>1, <2>2, <2>3, Zenon DEF Phases
<1>5. TypeOK'
  <2>1. <<"terminal", r>> \in Fact
    BY FactTypes, Zenon
  <2>2. facts' \in Seq(Fact) /\ Len(facts') <= UsageCapacity /\ tally' \in SUBSET Requests
    BY <1>1, <2>1, SubmitTypes, Zenon
  <2>3. permits \in SUBSET Finite /\ entries \in Seq(Finite)
    BY <1>1, Zenon DEF TypeOK
  <2>4. permits' \in SUBSET Finite
    BY <1>3, <2>3, Zenon
  <2>5. entries' \in Seq(Finite)
    <3>1. CASE r \in permits
      <4>1. entries' = Append(entries, r) /\ r \in Finite
        BY <2>3, <3>1, Zenon
      <4>2. QED
        BY <2>3, <4>1
    <3>2. CASE r \notin permits
      BY <2>3, <3>2, Zenon
    <3>3. QED
      BY <3>1, <3>2, Zenon
  <2>6. QED
    BY <1>1, <1>3, <2>2, <2>4, <2>5, Zenon DEF TypeOK, Submit
<1>6. ProcessInv'
  <2>1. \A j \in Indices : result[<<r, j>>] # "open"
    BY Zenon DEF IsOpen
  <2>2. stage = "serving" /\ ProcessInv
    BY Zenon DEF IInv, ProcessInv, Tracked
  <2>3. result' = result /\ stage' = stage /\ crashed' = crashed
        /\ writing' = writing /\ healthy' = healthy
    BY Zenon
  <2>4. stage # "serving" => permits' = {} /\ entries' = <<>>
    BY <2>2, Zenon
  <2>5. ASSUME NEW q \in Requests, NEW i \in Indices
        PROVE  /\ result'[<<q, i>>] = "open" => phase'[q] = "executing"
               /\ phase'[q] = "new" => result'[<<q, i>>] = "unopened"
    <3>1. CASE q = r
      BY <1>3, <2>1, <2>2, <2>3, <3>1, Zenon DEF ProcessInv, Tracked
    <3>2. CASE q # r
      BY <1>3, <2>2, <2>3, <3>2, Zenon DEF ProcessInv
    <3>3. QED
      BY <3>1, <3>2, Zenon
  <2>6. ASSUME NEW q \in Requests
        PROVE  /\ phase'[q] \notin {"new", "answered", "gone"} => stage' = "serving"
               /\ phase'[q] \notin {"answered", "gone"} => q \notin crashed'
    <3>1. CASE q = r
      BY <1>3, <2>1, <2>2, <2>3, <3>1, Zenon DEF ProcessInv, Tracked
    <3>2. CASE q # r
      BY <1>3, <2>2, <2>3, <3>2, Zenon DEF ProcessInv
    <3>3. QED
      BY <3>1, <3>2, Zenon
  <2>7. QED
    BY <2>2, <2>3, <2>4, <2>5, <2>6 DEF ProcessInv
<1>7. ASSUME NEW q \in Finite PROVE ClaimInv(q)' /\ CostInv(q)'
  <2>1. ClaimInv(q) /\ CostInv(q)
    BY Zenon DEF IInv
  <2>2. CASE q # r
    <3>1. Same(q)
      BY <1>1, <2>2, <1>2, <1>3, Zenon DEF Same, TypeOK, InLedger, Queued, Exists, Requests
    <3>2. QED
      BY <2>1, <3>1, FiniteFrame, Zenon
  <2>3. CASE q = r
    <3>1. ClaimInv(r)'
      <4>1. claim[r] = "reserved" /\ r \in permits /\ r \notin orphaned
        BY <2>1, <2>3, Zenon DEF ClaimInv
      <4>2. InLedger(r)' /\ r \notin permits' /\ stage = "serving"
        BY <1>2, <1>3, <2>3, <4>1, Zenon DEF InLedger, IInv, ProcessInv, Tracked
      <4>3. QED
        BY <1>3, <2>1, <2>3, <4>1, <4>2, Zenon DEF ClaimInv, Held, Resolved, Exists, Tracked
    <3>2. CostInv(r)'
      <4>1. r \in permits /\ claim[r] = "reserved"
        BY <2>1, <2>3, Zenon DEF ClaimInv
      <4>2. Held(r) /\ phase'[r] \in {"awaiting", "gone"}
        BY <1>3, <4>1, Zenon DEF Held
      <4>3. ConfirmedOf(r)' = ConfirmedOf(r)
        BY Zenon DEF ConfirmedOf
      <4>4. QED
        BY <2>1, <2>3, <4>1, <4>2, <4>3, Zenon DEF CostInv, Resolved
    <3>3. QED
      BY <2>3, <3>1, <3>2, Zenon
  <2>4. QED
    BY <2>2, <2>3, Zenon
<1>8. ASSUME NEW q \in Plain PROVE PlainInv(q)'
  <2>1. PlainInv(q)
    BY Zenon DEF IInv
  <2>2. /\ logical[q] = "deleted" => logical'[q] = "deleted"
        /\ \A j \in Indices :
             /\ times'[<<q, j>>] = times[<<q, j>>]
             /\ result[<<q, j>>] = "priced" => result'[<<q, j>>] = "priced"
             /\ <<q, j>> \in rows => <<q, j>> \in rows'
    BY <1>1, Zenon DEF TypeOK, Requests
  <2>3. QED
    BY <2>1, <2>2, PlainFrame, Zenon
<1>9. QED
  BY <1>5, <1>6, <1>7, <1>8, Zenon DEF IInv

-----------------------------------------------------------------------------
(* The writers. *)

\* The ledger writer takes the next entry.
LEMMA LedgerRecvKeepsIInv ==
  ASSUME IInv, LedgerRecv
  PROVE  IInv'
<1> USE DEF LedgerRecv, db, handlers, ledger, usage, history
<1>1. TypeOK
  BY Zenon DEF IInv
<1>2. entries \in Seq(Finite) /\ entries # <<>> /\ Head(entries) \in Finite /\ Tail(entries) \in Seq(Finite)
  BY <1>1 DEF TypeOK
<1>3. ASSUME NEW q \in Finite
      PROVE  InLedger(q)' <=> InLedger(q)
  <2>1. (\E n \in DOMAIN entries : entries[n] = q)
          <=> (\E n \in DOMAIN Tail(entries) : Tail(entries)[n] = q) \/ q = Head(entries)
    BY <1>2, TailQueued, Zenon
  <2>2. Queued(q) <=> Queued(q)' \/ q = Head(entries)
    BY <2>1, Zenon DEF Queued
  <2>3. QED
    BY <2>2, Zenon DEF InLedger
<1>5. TypeOK'
  BY <1>1, <1>2, Zenon DEF TypeOK
<1>6. ProcessInv'
  BY <1>1, Zenon DEF IInv, ProcessInv, TypeOK, Phases, Requests
<1>7. ASSUME NEW q \in Finite PROVE ClaimInv(q)' /\ CostInv(q)'
  <2>1. ClaimInv(q) /\ CostInv(q)
    BY Zenon DEF IInv
  <2>2. Same(q)
    BY <1>1, <1>3, Zenon DEF Same, TypeOK, InLedger, Queued, Exists, Requests
  <2>3. QED
    BY <2>1, <2>2, FiniteFrame, Zenon
<1>8. ASSUME NEW q \in Plain PROVE PlainInv(q)'
  <2>1. PlainInv(q)
    BY Zenon DEF IInv
  <2>2. /\ logical[q] = "deleted" => logical'[q] = "deleted"
        /\ \A j \in Indices :
             /\ times'[<<q, j>>] = times[<<q, j>>]
             /\ result[<<q, j>>] = "priced" => result'[<<q, j>>] = "priced"
             /\ <<q, j>> \in rows => <<q, j>> \in rows'
    BY <1>1, Zenon DEF TypeOK, Requests
  <2>3. QED
    BY <2>1, <2>2, PlainFrame, Zenon
<1>9. QED
  BY <1>5, <1>6, <1>7, <1>8, Zenon DEF IInv

\* An attempt of the entry is recorded.
LEMMA LedgerRecordKeepsIInv ==
  ASSUME IInv, NEW r \in Finite, NEW i \in Indices, LedgerRecord(r, i)
  PROVE  IInv'
<1> USE DEF LedgerRecord, db, handlers, ledger, usage, history
<1>1. TypeOK
  BY Zenon DEF IInv
<1>2. /\ times' \in [Attempts -> Nat] /\ rows' \in SUBSET Attempts
      /\ rows \subseteq rows'
      /\ \A a \in Attempts : times'[a] # times[a] => a = <<r, i>> /\ claim[r] = "none"
  BY <1>1 DEF TypeOK, RecordAttempt, Charges, Attempts, Requests
<1>3. claim[r] # "none"
  BY Zenon DEF IInv, ClaimInv, InLedger
<1>4. times' = times
  <2>1. \A a \in Attempts : times'[a] = times[a]
    BY <1>2, <1>3, Zenon
  <2>2. QED
    BY <1>1, <1>2, <2>1 DEF TypeOK
<1>5. TypeOK'
  BY <1>1, <1>2, Zenon DEF TypeOK
<1>6. ProcessInv'
  BY <1>1, Zenon DEF IInv, ProcessInv, TypeOK, Phases, Requests
<1>7. ASSUME NEW q \in Finite PROVE ClaimInv(q)' /\ CostInv(q)'
  <2>1. ClaimInv(q) /\ CostInv(q)
    BY Zenon DEF IInv
  <2>2. Same(q)
    BY <1>1, <1>4, Zenon DEF Same, TypeOK, InLedger, Queued, Exists, Requests
  <2>3. QED
    BY <2>1, <2>2, FiniteFrame, Zenon
<1>8. ASSUME NEW q \in Plain PROVE PlainInv(q)'
  <2>1. PlainInv(q)
    BY Zenon DEF IInv
  <2>2. /\ logical[q] = "deleted" => logical'[q] = "deleted"
        /\ \A j \in Indices :
             /\ times'[<<q, j>>] = times[<<q, j>>]
             /\ result[<<q, j>>] = "priced" => result'[<<q, j>>] = "priced"
             /\ <<q, j>> \in rows => <<q, j>> \in rows'
    BY <1>1, <1>2, <1>4, Zenon DEF TypeOK, Requests
  <2>3. QED
    BY <2>1, <2>2, PlainFrame, Zenon
<1>9. QED
  BY <1>5, <1>6, <1>7, <1>8, Zenon DEF IInv

\* A pass over the entry fails.
LEMMA LedgerFailKeepsIInv ==
  ASSUME IInv, NEW r \in Finite, LedgerFail(r)
  PROVE  IInv'
<1> USE DEF LedgerFail, db, handlers, ledger, usage, history
<1>1. TypeOK
  BY Zenon DEF IInv
<1>5. TypeOK'
  <2>1. healthy' \in BOOLEAN /\ flushing' \in BOOLEAN
    BY <1>1, Zenon DEF TypeOK
  <2>2. QED
    BY <1>1, <2>1, Zenon DEF TypeOK
<1>6. ProcessInv'
  BY <1>1, Zenon DEF IInv, ProcessInv, TypeOK, Phases, Requests
<1>7. ASSUME NEW q \in Finite PROVE ClaimInv(q)' /\ CostInv(q)'
  <2>1. ClaimInv(q) /\ CostInv(q)
    BY Zenon DEF IInv
  <2>2. Same(q)
    BY <1>1, Zenon DEF Same, TypeOK, InLedger, Queued, Exists, Requests
  <2>3. QED
    BY <2>1, <2>2, FiniteFrame, Zenon
<1>8. ASSUME NEW q \in Plain PROVE PlainInv(q)'
  <2>1. PlainInv(q)
    BY Zenon DEF IInv
  <2>2. /\ logical[q] = "deleted" => logical'[q] = "deleted"
        /\ \A j \in Indices :
             /\ times'[<<q, j>>] = times[<<q, j>>]
             /\ result[<<q, j>>] = "priced" => result'[<<q, j>>] = "priced"
             /\ <<q, j>> \in rows => <<q, j>> \in rows'
    BY <1>1, Zenon DEF TypeOK, Requests
  <2>3. QED
    BY <2>1, <2>2, PlainFrame, Zenon
<1>9. QED
  BY <1>5, <1>6, <1>7, <1>8, Zenon DEF IInv

\* The claim of the entry is resolved.
LEMMA LedgerSettleKeepsIInv ==
  ASSUME IInv, NEW r \in Finite, LedgerSettle(r) \/ LedgerSettleUnreported(r)
  PROVE  IInv'
<1> USE DEF db, handlers, ledger, usage, history
<1>1. TypeOK
  BY Zenon DEF IInv
<1>10. /\ r \in writing /\ ResolveClaim(r)
       /\ \/ writing' = writing /\ acked' = acked
          \/ writing' = {} /\ acked' = acked \union {r}
       /\ recorded' \in {recorded, {}}
       /\ UNCHANGED <<logical, marked, rows, gapped, stage, phase, result, unstorable, sent,
                      noted, permits, entries, usage, history>>
  BY Zenon DEF LedgerSettle, LedgerSettleUnreported
<1>11. healthy' \in BOOLEAN /\ (healthy' \/ writing' = writing)
  BY Zenon DEF LedgerSettle, LedgerSettleUnreported
<1>2. EntryCost(r) = Priced(r)
  <2>1. noted[r] = ConfirmedOf(r) /\ (noted[r] # {} => r \in sent)
    BY <1>10, Zenon DEF IInv, CostInv, Held, InLedger
  <2>2. QED
    BY <2>1, Zenon DEF EntryCost, Priced, ConfirmedOf, Confirmed
<1>3. /\ times' \in [Attempts -> Nat] /\ claim' \in [Finite -> {"none", "reserved", "settled", "released"}]
      /\ \A q \in Finite : q # r => claim'[q] = claim[q]
      /\ claim[r] # "reserved" => claim' = claim
      /\ claim[r] = "reserved" => claim'[r] = IF Priced(r) = {} THEN "released" ELSE "settled"
  <2>1. times \in [Attempts -> Nat] /\ claim \in [Finite -> {"none", "reserved", "settled", "released"}]
    BY <1>1, Zenon DEF TypeOK
  <2>2. QED
    BY <1>2, <1>10, <2>1 DEF ResolveClaim, Charge
<1>4. ASSUME NEW q \in Requests, q # r
      PROVE  \A i \in Indices : times'[<<q, i>>] = times[<<q, i>>]
  <2>1. \A i \in Indices : <<q, i>> \in Attempts /\ <<q, i>>[1] = q
    BY Zenon DEF Attempts
  <2>2. QED
    BY <1>4, <1>10, <2>1, Zenon DEF ResolveClaim, Charge
<1>12. ASSUME NEW i \in Indices
       PROVE  times'[<<r, i>>] = IF claim[r] = "reserved" /\ result[<<r, i>>] = "priced"
                                 THEN times[<<r, i>>] + 1 ELSE times[<<r, i>>]
  <2>1. <<r, i>> \in Attempts /\ <<r, i>>[1] = r /\ <<r, i>>[2] = i
    BY Zenon DEF Attempts, Requests
  <2>2. i \in Priced(r) <=> result[<<r, i>>] = "priced"
    BY Zenon DEF Priced
  <2>3. CASE Charge(r, Priced(r)) /\ claim[r] = "reserved"
    BY <2>1, <2>2, <2>3, Zenon DEF Charge
  <2>4. CASE times' = times /\ (claim[r] = "reserved" => Priced(r) = {})
    BY <2>2, <2>4, Zenon
  <2>5. QED
    BY <1>2, <1>10, <2>3, <2>4, Zenon DEF ResolveClaim
<1>5. TypeOK'
  BY <1>1, <1>3, <1>10, <1>11, Zenon DEF TypeOK
<1>6. ProcessInv'
  BY <1>10, <1>11, Zenon DEF IInv, ProcessInv
<1>7. ASSUME NEW q \in Finite PROVE ClaimInv(q)' /\ CostInv(q)'
  <2>1. ClaimInv(q) /\ CostInv(q)
    BY Zenon DEF IInv
  <2>2. CASE q # r
    <3>1. Same(q)
      BY <1>1, <2>2, <1>3, <1>4, <1>10, Zenon DEF Same, TypeOK, InLedger, Queued, Exists, Requests
    <3>2. QED
      BY <2>1, <3>1, FiniteFrame, Zenon
  <2>3. CASE q = r
    <3>1. ClaimInv(r)'
      <4>1. Resolved(r)' /\ claim[r] # "none"
        BY <1>1, <1>3, <1>10, <2>1, <2>3, Zenon DEF ClaimInv, InLedger, Resolved, TypeOK
      <4>2. Held(r)' => Held(r)
        BY <1>10, Zenon DEF Held, InLedger, Queued
      <4>3. InLedger(r) /\ (InLedger(r)' => InLedger(r))
        BY <1>10, Zenon DEF InLedger, Queued
      <4>4. QED
        BY <1>10, <2>1, <2>3, <4>1, <4>2, <4>3, Zenon DEF ClaimInv, Resolved, Exists, Tracked
    <3>2. CostInv(r)'
      <4>1. Resolved(r)' /\ claim[r] \in {"reserved", "settled", "released"}
        BY <1>1, <1>3, <1>10, <2>1, <2>3, Zenon DEF ClaimInv, InLedger, Resolved, TypeOK
      <4>2. (Held(r)' => Held(r)) /\ ConfirmedOf(r)' = ConfirmedOf(r)
        BY <1>10, Zenon DEF Held, InLedger, Queued, ConfirmedOf
      <4>3. ASSUME NEW i \in Indices
            PROVE  /\ claim'[r] # "settled" => times'[<<r, i>>] = 0
                   /\ times'[<<r, i>>] # 0 => times'[<<r, i>>] = 1 /\ result[<<r, i>>] = "priced"
                   /\ r \notin crashed \/ phase[r] = "answered" =>
                        (result[<<r, i>>] = "priced" => times'[<<r, i>>] = 1)
        <5>1. times'[<<r, i>>] = IF claim[r] = "reserved" /\ result[<<r, i>>] = "priced"
                                 THEN times[<<r, i>>] + 1 ELSE times[<<r, i>>]
          BY <1>12, Zenon
        <5>2. result[<<r, i>>] = "priced" => Priced(r) # {}
          BY Zenon DEF Priced
        <5>3. /\ claim[r] # "settled" => times[<<r, i>>] = 0
              /\ times[<<r, i>>] # 0 => times[<<r, i>>] = 1 /\ result[<<r, i>>] = "priced"
              /\ (Resolved(r) /\ r \notin crashed) \/ phase[r] = "answered" =>
                   (result[<<r, i>>] = "priced" => times[<<r, i>>] = 1)
          BY <2>1, <2>3, Zenon DEF CostInv
        <5>4. CASE claim[r] = "reserved"
          <6>1. claim'[r] = "settled" \/ result[<<r, i>>] # "priced"
            BY <1>3, <5>2, <5>4, Zenon
          <6>2. QED
            BY <5>1, <5>3, <5>4, <6>1
        <5>5. CASE claim[r] # "reserved"
          <6>1. claim' = claim /\ Resolved(r)
            BY <1>3, <4>1, <5>5, Zenon DEF Resolved
          <6>2. QED
            BY <5>1, <5>3, <5>5, <6>1, Zenon
        <5>6. QED
          BY <5>4, <5>5, Zenon
      <4>4. noted' = noted /\ phase' = phase /\ sent' = sent /\ marked' = marked
            /\ result' = result /\ crashed' = crashed
        BY <1>10, Zenon
      <4>5. QED
        BY <2>1, <2>3, <4>1, <4>2, <4>3, <4>4, Zenon DEF CostInv, Resolved
    <3>3. QED
      BY <2>3, <3>1, <3>2, Zenon
  <2>4. QED
    BY <2>2, <2>3, Zenon
<1>8. ASSUME NEW q \in Plain PROVE PlainInv(q)'
  <2>1. q # r /\ q \in Requests /\ PlainInv(q)
    BY QuotaAssumption, Zenon DEF Requests, IInv
  <2>2. \A i \in Indices : times'[<<q, i>>] = times[<<q, i>>]
    BY <1>4, <2>1, Zenon
  <2>3. QED
    BY <1>10, <2>1, <2>2, PlainFrame, Zenon
<1>9. QED
  BY <1>5, <1>6, <1>7, <1>8, Zenon DEF IInv

\* The usage writer applies a fact.
LEMMA UsageApplyKeepsIInv ==
  ASSUME IInv, UsageApply
  PROVE  IInv'
<1> USE DEF UsageApply, db, handlers, ledger, usage, history
<1>1. TypeOK
  BY Zenon DEF IInv
<1>2. facts \in Seq(Fact) /\ Head(facts) \in Fact /\ Tail(facts) \in Seq(Fact)
  BY <1>1 DEF TypeOK
<1>3. /\ rows \subseteq rows' /\ rows' \in SUBSET Attempts
      /\ times' \in [Attempts -> Nat]
      /\ \A a \in Attempts :
           \/ times'[a] = times[a]
           \/ /\ times'[a] = times[a] + 1 /\ a \notin rows /\ a \in rows'
              /\ result[a] = "priced" /\ Exists(a[1])
              /\ a[1] \in Finite => claim[a[1]] = "none"
  <2>1. times \in [Attempts -> Nat] /\ rows \in SUBSET Attempts
    BY <1>1, Zenon DEF TypeOK
  <2>2. CASE rows' = rows /\ times' = times
    BY <2>1, <2>2, Zenon
  <2>3. CASE \E a \in Attempts : RecordAttempt(a)
    BY <2>1, <2>3, SMTT(60) DEF RecordAttempt, Recordable, Charges
  <2>4. QED
    BY <1>2, <2>2, <2>3, FactTypes, Zenon DEF ApplyWrite, ApplyGap
<1>4. /\ logical' \in [Requests -> {"none", "in_progress", "terminal", "deleted"}]
      /\ \A q \in Requests : logical'[q] = logical[q] \/ (Exists(q) /\ logical'[q] = "terminal")
  <2>1. logical \in [Requests -> {"none", "in_progress", "terminal", "deleted"}]
    BY <1>1, Zenon DEF TypeOK
  <2>2. QED
    BY <1>2, <2>1, FactTypes, Zenon DEF ApplyWrite, ApplyGap
<1>5. TypeOK'
  <2>1. gapped' \in SUBSET Requests /\ unrecorded' \in SUBSET Requests
    BY <1>1, <1>2, FactTypes, Zenon DEF TypeOK, ApplyWrite, ApplyGap
  <2>2. facts' \in Seq(Fact) /\ Len(facts') <= UsageCapacity
    BY <1>1, <1>2, QuotaAssumption DEF TypeOK
  <2>3. QED
    BY <1>1, <1>3, <1>4, <2>1, <2>2, Zenon DEF TypeOK
<1>6. ProcessInv'
  BY Zenon DEF IInv, ProcessInv
<1>7. ASSUME NEW q \in Finite PROVE ClaimInv(q)' /\ CostInv(q)'
  <2>1. ClaimInv(q) /\ CostInv(q)
    BY Zenon DEF IInv
  <2>2. ASSUME NEW i \in Indices PROVE times'[<<q, i>>] = times[<<q, i>>]
    <3>1. <<q, i>> \in Attempts /\ <<q, i>>[1] = q
      BY Zenon DEF Attempts, Requests
    <3>2. claim[q] = "none" => result[<<q, i>>] = "unopened"
      BY <2>1, Zenon DEF CostInv
    <3>3. QED
      BY <1>3, <3>1, <3>2, Zenon
  <2>3. Exists(q) => Exists(q)'
    BY <1>4, Zenon DEF Exists, Requests
  <2>4. Same(q)
    BY <2>2, <2>3, Zenon DEF Same, InLedger, Queued
  <2>5. QED
    BY <2>1, <2>4, FiniteFrame, Zenon
<1>8. ASSUME NEW q \in Plain PROVE PlainInv(q)'
  <2>1. SUFFICES ASSUME NEW i \in Indices, times'[<<q, i>>] # 0
                 PROVE  /\ times'[<<q, i>>] = 1 /\ result'[<<q, i>>] = "priced"
                        /\ <<q, i>> \in rows' \/ logical'[q] = "deleted"
    BY Zenon DEF PlainInv
  <2>2. <<q, i>> \in Attempts /\ <<q, i>>[1] = q /\ q \in Requests
    BY Zenon DEF Attempts, Requests
  <2>3. times[<<q, i>>] # 0 =>
          /\ times[<<q, i>>] = 1 /\ result[<<q, i>>] = "priced"
          /\ <<q, i>> \in rows \/ logical[q] = "deleted"
    BY Zenon DEF IInv, PlainInv
  <2>4. CASE times'[<<q, i>>] = times[<<q, i>>]
    <3>1. logical[q] = "deleted" => logical'[q] = "deleted"
      BY <1>4, <2>2, Zenon DEF Exists
    <3>2. QED
      BY <1>3, <2>1, <2>3, <2>4, <3>1, Zenon
  <2>5. CASE times'[<<q, i>>] # times[<<q, i>>]
    <3>1. /\ times'[<<q, i>>] = times[<<q, i>>] + 1 /\ <<q, i>> \notin rows /\ <<q, i>> \in rows'
          /\ result[<<q, i>>] = "priced" /\ logical[q] # "deleted"
      BY <1>3, <2>2, <2>5, Zenon DEF Exists
    <3>2. QED
      BY <2>3, <3>1
  <2>6. QED
    BY <2>4, <2>5, Zenon
<1>9. QED
  BY <1>5, <1>6, <1>7, <1>8, Zenon DEF IInv

\* The usage writer flushes its tally.
LEMMA UsageFlushKeepsIInv ==
  ASSUME IInv, UsageFlush
  PROVE  IInv'
<1> USE DEF UsageFlush, db, handlers, ledger, usage, history
<1>1. TypeOK
  BY Zenon DEF IInv
<1>5. TypeOK'
  <2>1. healthy' \in BOOLEAN /\ flushing' \in BOOLEAN
    BY <1>1, Zenon DEF TypeOK
  <2>2. QED
    BY <1>1, <2>1, Zenon DEF TypeOK
<1>6. ProcessInv'
  BY <1>1, Zenon DEF IInv, ProcessInv, TypeOK, Phases, Requests
<1>7. ASSUME NEW q \in Finite PROVE ClaimInv(q)' /\ CostInv(q)'
  <2>1. ClaimInv(q) /\ CostInv(q)
    BY Zenon DEF IInv
  <2>2. Same(q)
    BY <1>1, Zenon DEF Same, TypeOK, InLedger, Queued, Exists, Requests
  <2>3. QED
    BY <2>1, <2>2, FiniteFrame, Zenon
<1>8. ASSUME NEW q \in Plain PROVE PlainInv(q)'
  <2>1. PlainInv(q)
    BY Zenon DEF IInv
  <2>2. /\ logical[q] = "deleted" => logical'[q] = "deleted"
        /\ \A j \in Indices :
             /\ times'[<<q, j>>] = times[<<q, j>>]
             /\ result[<<q, j>>] = "priced" => result'[<<q, j>>] = "priced"
             /\ <<q, j>> \in rows => <<q, j>> \in rows'
    BY <1>1, Zenon DEF TypeOK, Requests
  <2>3. QED
    BY <2>1, <2>2, PlainFrame, Zenon
<1>9. QED
  BY <1>5, <1>6, <1>7, <1>8, Zenon DEF IInv

\* A crash.
LEMMA CrashKeepsIInv ==
  ASSUME IInv, Crash
  PROVE  IInv'
<1> USE DEF Crash, db, handlers, ledger, usage, history
<1>1. TypeOK
  BY Zenon DEF IInv
<1>2. \A r \in Requests :
        phase'[r] = IF phase[r] \in {"new", "answered"} THEN phase[r] ELSE "gone"
  BY Zenon
<1>3. \A r \in Requests, i \in Indices :
        result'[<<r, i>>] = IF result[<<r, i>>] = "open" THEN "unsent" ELSE result[<<r, i>>]
  BY Zenon DEF Attempts
<1>4. entries' = <<>> /\ permits' = {} /\ writing' = {} /\ facts' = <<>>
  BY Zenon
<1>5. TypeOK'
  <2>1. crashed' \in SUBSET Requests
    BY <1>1, Zenon DEF TypeOK, Interrupted
  <2>2. phase' \in [Requests -> Phases]
    BY <1>1, Zenon DEF TypeOK, Phases
  <2>3. result' \in [Attempts -> Results]
    BY <1>1, Zenon DEF TypeOK, Results
  <2>4. crashes' \in 0..MaxCrashes
    BY <1>1, QuotaAssumption DEF TypeOK
  <2>5. <<>> \in Seq(Finite) /\ <<>> \in Seq(Fact) /\ Len(<<>>) = 0
    OBVIOUS
  <2>6. Len(facts') <= UsageCapacity
    BY <1>4, <2>5, QuotaAssumption
  <2>7. healthy' \in BOOLEAN /\ flushing' \in BOOLEAN
    BY Zenon
  <2>8. QED
    BY <1>1, <1>4, <2>1, <2>2, <2>3, <2>4, <2>5, <2>6, <2>7, Zenon DEF TypeOK
<1>6. ProcessInv'
  <2>1. ASSUME NEW r \in Requests, phase'[r] \notin {"answered", "gone"}
        PROVE  phase[r] = "new" /\ phase'[r] = "new" /\ r \notin crashed'
    <3>1. phase[r] = "new" /\ phase'[r] = "new"
      BY <1>2, <2>1, Zenon
    <3>2. r \notin crashed /\ r \notin Interrupted
      BY <3>1, Zenon DEF IInv, ProcessInv, Interrupted
    <3>3. QED
      BY <3>1, <3>2, Zenon
  <2>2. QED
    BY <1>3, <1>4, <2>1 DEF IInv, ProcessInv
<1>7. ASSUME NEW q \in Finite PROVE ClaimInv(q)' /\ CostInv(q)'
  <2>1. ClaimInv(q) /\ CostInv(q) /\ q \in Requests
    BY Zenon DEF IInv, Requests
  <2>2. ~InLedger(q)' /\ ~Held(q)' /\ q \notin permits'
    BY <1>4 DEF InLedger, Held, Queued
  <2>3. claim[q] = "reserved" => q \in crashed'
    BY <2>1, Zenon DEF Interrupted, ClaimInv
  <2>4. phase'[q] \in {"new", "answered", "gone"} /\ (phase'[q] # "gone" => phase[q] = phase'[q])
    BY <1>2, <2>1, Zenon
  <2>5. ClaimInv(q)'
    BY <2>1, <2>2, <2>3, <2>4, Zenon DEF ClaimInv, CostInv, Resolved, Exists, Tracked
  <2>8. \A i \in Indices :
          /\ result'[<<q, i>>] = "priced" <=> result[<<q, i>>] = "priced"
          /\ result[<<q, i>>] = "unopened" => result'[<<q, i>>] = "unopened"
    BY <1>3, <2>1
  <2>6. CostInv(q)'
    BY <2>1, <2>2, <2>4, <2>8, Zenon DEF CostInv, Resolved
  <2>7. QED
    BY <2>5, <2>6, Zenon
<1>8. ASSUME NEW q \in Plain PROVE PlainInv(q)'
  BY <1>3, PlainFrame, Zenon DEF IInv, Requests
<1>9. QED
  BY <1>5, <1>6, <1>7, <1>8, Zenon DEF IInv

\* A batch of claims is recovered.
LEMMA RecoverQuotaKeepsIInv ==
  ASSUME IInv, RecoverQuota
  PROVE  IInv'
<1> USE DEF db, handlers, ledger, usage, history
<1>1. TypeOK
  BY Zenon DEF IInv
<1>2. PICK batch \in SUBSET Reserved :
        /\ batch = Reserved \/ Cardinality(batch) = RecoveryBatch
        /\ claim' = [r \in Finite |->
                       IF r \notin batch THEN claim[r]
                       ELSE IF DurableCost(r) = {} THEN "released" ELSE "settled"]
        /\ times' = [a \in Attempts |->
                       IF a[1] \in batch /\ a[2] \in DurableCost(a[1])
                       THEN times[a] + 1 ELSE times[a]]
        /\ stage' = IF Cardinality(batch) < RecoveryBatch
                    THEN "recover_in_flight" ELSE stage
  BY Zenon DEF RecoverQuota
<1>3. /\ stage = "recover_quota"
      /\ UNCHANGED <<logical, marked, rows, gapped, handlers, ledger, usage, history>>
  BY Zenon DEF RecoverQuota
<1>4. stage' # "recover_quota" => batch = Reserved
  BY <1>2, <1>3, QuotaAssumption
<1>10. ASSUME NEW q \in Requests, NEW i \in Indices
       PROVE  times'[<<q, i>>] = IF q \in batch /\ i \in DurableCost(q)
                                 THEN times[<<q, i>>] + 1 ELSE times[<<q, i>>]
  <2>1. <<q, i>> \in Attempts /\ <<q, i>>[1] = q /\ <<q, i>>[2] = i
    BY Zenon DEF Attempts
  <2>2. QED
    BY <1>2, <2>1, Zenon
<1>5. TypeOK'
  <2>1. times \in [Attempts -> Nat] /\ claim \in [Finite -> {"none", "reserved", "settled", "released"}]
    BY <1>1, Zenon DEF TypeOK
  <2>2. times' \in [Attempts -> Nat]
    BY <1>2, <2>1
  <2>3. claim' \in [Finite -> {"none", "reserved", "settled", "released"}]
    BY <1>2, <2>1, Zenon
  <2>4. stage' \in {"recover_quota", "recover_in_flight"}
    BY <1>2, <1>3, Zenon
  <2>5. QED
    BY <1>1, <1>3, <2>2, <2>3, <2>4, Zenon DEF TypeOK
<1>6. ProcessInv'
  BY <1>2, <1>3, Zenon DEF IInv, ProcessInv
<1>7. ASSUME NEW q \in Finite PROVE ClaimInv(q)' /\ CostInv(q)'
  <2>1. ClaimInv(q) /\ CostInv(q) /\ q \in Requests
    BY Zenon DEF IInv, Requests
  <2>2. /\ q \notin batch => claim'[q] = claim[q]
        /\ q \in batch => /\ claim[q] = "reserved"
                          /\ claim'[q] = IF DurableCost(q) = {} THEN "released" ELSE "settled"
        /\ claim[q] = "reserved" => q \in Reserved
    BY <1>2, Zenon DEF Reserved
  <2>3. phase[q] \in {"new", "answered", "gone"}
    BY <1>3, <2>1, Zenon DEF IInv, ProcessInv
  <2>4. stage' \in {"recover_quota", "recover_in_flight"}
    BY <1>2, <1>3, Zenon
  <2>5. (InLedger(q)' <=> InLedger(q)) /\ (Held(q)' <=> Held(q)) /\ ConfirmedOf(q)' = ConfirmedOf(q)
    BY <1>3, Zenon DEF Held, InLedger, Queued, ConfirmedOf
  <2>6. ClaimInv(q)'
    BY <1>3, <1>4, <2>1, <2>2, <2>3, <2>4, <2>5, Zenon DEF ClaimInv, Resolved, Exists, Tracked
  <2>7. CostInv(q)'
    <3>1. CASE q \notin batch
      <4>1. \A i \in Indices : times'[<<q, i>>] = times[<<q, i>>]
        BY <1>10, <2>1, <3>1, Zenon
      <4>2. QED
        BY <1>3, <2>1, <2>2, <2>5, <3>1, <4>1, Zenon DEF CostInv, Resolved
    <3>2. CASE q \in batch
      <4>1. q \in crashed /\ phase[q] # "answered" /\ \A i \in Indices : times[<<q, i>>] = 0
        BY <1>3, <2>1, <2>2, <3>2, Zenon DEF ClaimInv, CostInv, Resolved
      <4>2. \A i \in Indices : i \in DurableCost(q) => result[<<q, i>>] = "priced"
        BY Zenon DEF DurableCost, Priced
      <4>3. \A i \in Indices :
              /\ claim'[q] # "settled" => times'[<<q, i>>] = 0
              /\ times'[<<q, i>>] # 0 => times'[<<q, i>>] = 1 /\ result[<<q, i>>] = "priced"
        <5>1. \A i \in Indices :
                times'[<<q, i>>] = IF i \in DurableCost(q) THEN 1 ELSE 0
          BY <1>10, <2>1, <3>2, <4>1
        <5>2. QED
          BY <2>2, <3>2, <4>2, <5>1, Zenon
      <4>4. claim'[q] \in {"settled", "released"}
        BY <2>2, <3>2, Zenon
      <4>5. QED
        BY <1>3, <2>1, <2>2, <2>5, <3>2, <4>1, <4>3, <4>4, Zenon DEF CostInv, Resolved
    <3>3. QED
      BY <3>1, <3>2, Zenon
  <2>8. QED
    BY <2>6, <2>7, Zenon
<1>8. ASSUME NEW q \in Plain PROVE PlainInv(q)'
  <2>1. q \notin batch /\ q \in Requests /\ PlainInv(q)
    BY <1>2, QuotaAssumption, Zenon DEF Reserved, Requests, IInv
  <2>2. \A i \in Indices : times'[<<q, i>>] = times[<<q, i>>]
    BY <1>10, <2>1, Zenon
  <2>3. QED
    BY <1>3, <2>1, <2>2, PlainFrame, Zenon
<1>9. QED
  BY <1>5, <1>6, <1>7, <1>8, Zenon DEF IInv

\* A batch of requests left in flight is discarded.
LEMMA RecoverInFlightKeepsIInv ==
  ASSUME IInv, RecoverInFlight
  PROVE  IInv'
<1> USE DEF db, handlers, ledger, usage, history
<1>1. TypeOK
  BY Zenon DEF IInv
<1>2. PICK batch \in SUBSET InFlight :
        /\ gapped' = gapped \union batch
        /\ logical' = [r \in Requests |-> IF r \in batch THEN "deleted" ELSE logical[r]]
        /\ rows' = {a \in rows : a[1] \notin batch}
        /\ stage' = IF Cardinality(batch) < RecoveryBatch THEN "serving" ELSE stage
  BY Zenon DEF RecoverInFlight
<1>3. /\ stage = "recover_in_flight"
      /\ UNCHANGED <<claim, marked, times, handlers, ledger, usage, history>>
  BY Zenon DEF RecoverInFlight
<1>4. stage' \in {"recover_in_flight", "serving"}
  BY <1>2, <1>3, Zenon
<1>5. TypeOK'
  <2>1. /\ gapped' \in SUBSET Requests
        /\ rows' \in SUBSET Attempts
        /\ logical' \in [Requests -> {"none", "in_progress", "terminal", "deleted"}]
    BY <1>1, <1>2, Zenon DEF TypeOK, InFlight
  <2>2. QED
    BY <1>1, <1>3, <1>4, <2>1, Zenon DEF TypeOK
<1>6. ProcessInv'
  BY <1>3, <1>4, Zenon DEF IInv, ProcessInv
<1>7. ASSUME NEW q \in Finite PROVE ClaimInv(q)' /\ CostInv(q)'
  <2>1. ClaimInv(q) /\ CostInv(q)
    BY Zenon DEF IInv
  <2>2. claim[q] # "reserved"
    BY <1>3, <2>1, Zenon DEF ClaimInv
  <2>3. (InLedger(q)' <=> InLedger(q)) /\ (Held(q)' <=> Held(q)) /\ ConfirmedOf(q)' = ConfirmedOf(q)
    BY <1>3, Zenon DEF Held, InLedger, Queued, ConfirmedOf
  <2>4. ClaimInv(q)'
    BY <1>3, <1>4, <2>1, <2>2, <2>3, Zenon DEF ClaimInv, Resolved
  <2>5. CostInv(q)'
    BY <1>3, <2>1, <2>3, Zenon DEF CostInv, Resolved
  <2>6. QED
    BY <2>4, <2>5, Zenon
<1>8. ASSUME NEW q \in Plain PROVE PlainInv(q)'
  <2>1. SUFFICES ASSUME NEW i \in Indices, times[<<q, i>>] # 0
                 PROVE  /\ times[<<q, i>>] = 1 /\ result[<<q, i>>] = "priced"
                        /\ <<q, i>> \in rows' \/ logical'[q] = "deleted"
    BY <1>3, Zenon DEF PlainInv
  <2>2. q \in Requests /\ <<q, i>>[1] = q
    BY Zenon DEF Requests
  <2>3. /\ times[<<q, i>>] = 1 /\ result[<<q, i>>] = "priced"
        /\ <<q, i>> \in rows \/ logical[q] = "deleted"
    BY <2>1, Zenon DEF IInv, PlainInv
  <2>4. QED
    BY <1>2, <2>2, <2>3, Zenon
<1>9. QED
  BY <1>5, <1>6, <1>7, <1>8, Zenon DEF IInv

-----------------------------------------------------------------------------
LEMMA InitIInv ==
  ASSUME Init
  PROVE  IInv
<1>1. TypeOK
  <2>1. /\ entries \in Seq(Finite) /\ facts \in Seq(Fact) /\ Len(facts) <= UsageCapacity
        /\ crashes \in 0..MaxCrashes
    BY QuotaAssumption DEF Init
  <2>3. healthy \in BOOLEAN /\ flushing \in BOOLEAN
    BY Zenon DEF Init
  <2>2. QED
    BY <2>1, <2>3, Zenon DEF Init, TypeOK, Phases, Results
<1>2. ProcessInv
  BY Zenon DEF Init, ProcessInv, Attempts
<1>3. \A r \in Finite : ClaimInv(r)
  BY DEF Init, ClaimInv, Held, InLedger, Queued, Resolved, Tracked, Requests
<1>4. \A r \in Finite : CostInv(r)
  BY Zenon DEF Init, CostInv, Held, InLedger, Queued, Resolved, ConfirmedOf, Confirmed,
     Attempts, Requests
<1>5. \A r \in Plain : PlainInv(r)
  BY Zenon DEF Init, PlainInv, Attempts, Requests
<1>6. QED
  BY <1>1, <1>2, <1>3, <1>4, <1>5, Zenon DEF IInv

LEMMA StutterKeepsIInv ==
  ASSUME IInv, UNCHANGED vars
  PROVE  IInv'
<1> USE DEF vars, db, handlers, ledger, usage, history
<1>1. TypeOK'
  BY Zenon DEF IInv, TypeOK
<1>2. ProcessInv'
  BY Zenon DEF IInv, ProcessInv
<1>3. ASSUME NEW q \in Finite PROVE ClaimInv(q)' /\ CostInv(q)'
  <2>1. Same(q)
    BY Zenon DEF Same, InLedger, Queued, Exists
  <2>2. QED
    BY <2>1, FiniteFrame, Zenon DEF IInv
<1>4. ASSUME NEW q \in Plain PROVE PlainInv(q)'
  BY Zenon DEF IInv, PlainInv
<1>5. QED
  BY <1>1, <1>2, <1>3, <1>4, Zenon DEF IInv

LEMMA NextKeepsIInv ==
  ASSUME IInv, [Next]_vars
  PROVE  IInv'
<1>1. CASE HandlerNext
  <2>1. ASSUME NEW r \in Finite,
               \/ Reserve(r) \/ TakePermit(r) \/ BeginClaim(r) \/ BeginFails(r)
               \/ AdmitQuota(r) \/ MarkDispatched(r) \/ Answer(r)
        PROVE  IInv'
    BY Zenon, <2>1, ReserveKeepsIInv, TakePermitKeepsIInv, BeginClaimKeepsIInv,
       BeginFailsKeepsIInv, AdmitQuotaKeepsIInv, MarkDispatchedKeepsIInv, AnswerKeepsIInv
  <2>2. ASSUME NEW r \in Plain, BeginPlain(r) PROVE IInv'
    BY <2>2, BeginPlainKeepsIInv, Zenon
  <2>3. ASSUME NEW r \in Requests, NEW i \in Indices, OpenAttempt(r, i) PROVE IInv'
    BY <2>3, OpenAttemptKeepsIInv, Zenon
  <2>4. ASSUME NEW r \in Requests, NEW i \in Indices,
               NEW res \in {"unsent", "unpriced", "priced"}, CloseAttempt(r, i, res)
        PROVE  IInv'
    BY <2>4, CloseAttemptKeepsIInv, Zenon
  <2>5. ASSUME NEW r \in Requests, Finish(r) PROVE IInv'
    BY <2>5, FinishKeepsIInv, Zenon
  <2>6. QED
    BY <1>1, <2>1, <2>2, <2>3, <2>4, <2>5, Zenon DEF HandlerNext
<1>2. CASE WriterNext
  <2>1. ASSUME NEW r \in Finite, NEW i \in Indices, LedgerRecord(r, i) PROVE IInv'
    BY <2>1, LedgerRecordKeepsIInv, Zenon
  <2>2. ASSUME NEW r \in Finite, LedgerFail(r) \/ LedgerSettle(r) \/ LedgerSettleUnreported(r)
        PROVE  IInv'
    BY <2>2, LedgerFailKeepsIInv, LedgerSettleKeepsIInv, Zenon
  <2>3. QED
    BY Zenon, <1>2, <2>1, <2>2, LedgerRecvKeepsIInv, UsageApplyKeepsIInv, UsageFlushKeepsIInv
    DEF WriterNext
<1>3. CASE RecoveryNext
  BY <1>3, CrashKeepsIInv, RecoverQuotaKeepsIInv, RecoverInFlightKeepsIInv, Zenon DEF RecoveryNext
<1>4. CASE UNCHANGED vars
  BY <1>4, StutterKeepsIInv, Zenon
<1>5. QED
  BY <1>1, <1>2, <1>3, <1>4, Zenon DEF Next

(***************************************************************************)
(* The inductive invariant holds in every state the handlers, the two      *)
(* writers, a crash and the recovery can reach.                            *)
(***************************************************************************)
THEOREM InductiveInvariant == Spec => []IInv
<1>1. Init => IInv
  BY InitIInv, Zenon
<1>2. IInv /\ [Next]_vars => IInv'
  BY NextKeepsIInv, Zenon
<1>3. QED
  BY <1>1, <1>2, PTL DEF Spec

(***************************************************************************)
(* Type correctness of the quota ledger; in particular the usage queue     *)
(* never holds more than its capacity.                                     *)
(***************************************************************************)
THEOREM TypeCorrect == Spec => []TypeOK
<1>1. IInv => TypeOK
  BY Zenon DEF IInv
<1>2. QED
  BY <1>1, InductiveInvariant, PTL

(***************************************************************************)
(* The usage writer, the ledger writer's retries and the recovery never    *)
(* charge an attempt twice, nor one without a complete cost.               *)
(***************************************************************************)
THEOREM NoDoubleCharge == Spec => []ChargedAtMostOnce
<1>1. IInv => ChargedAtMostOnce
  <2>1. SUFFICES ASSUME IInv, NEW r \in Requests, NEW i \in Indices, times[<<r, i>>] # 0
                 PROVE  times[<<r, i>>] = 1 /\ result[<<r, i>>] = "priced"
    BY DEF ChargedAtMostOnce, Attempts
  <2>2. CASE r \in Finite
    BY <2>1, <2>2, Zenon DEF IInv, CostInv
  <2>3. CASE r \in Plain
    BY <2>1, <2>3, Zenon DEF IInv, PlainInv
  <2>4. QED
    BY <2>2, <2>3, Zenon DEF Requests
<1>2. QED
  BY <1>1, InductiveInvariant, PTL

(***************************************************************************)
(* Without a crash, the ledger settles a claim with every complete cost of *)
(* its request, and releases only a claim that has none.                   *)
(***************************************************************************)
THEOREM ExactSettlement == Spec => []SettledExactly
<1>1. IInv => SettledExactly
  <2>1. SUFFICES ASSUME IInv, NEW r \in Finite, r \notin crashed
                 PROVE  /\ claim[r] = "settled" => \A i \in Priced(r) : times[<<r, i>>] = 1
                        /\ claim[r] = "released" => Priced(r) = {}
    BY Zenon DEF SettledExactly
  <2>2. \A i \in Indices :
          /\ Resolved(r) /\ result[<<r, i>>] = "priced" => times[<<r, i>>] = 1
          /\ claim[r] # "settled" => times[<<r, i>>] = 0
    BY <2>1, Zenon DEF IInv, CostInv
  <2>3. QED
    BY <2>2 DEF Priced, Resolved
<1>2. QED
  BY <1>1, InductiveInvariant, PTL

(***************************************************************************)
(* Whoever has the terminal of a finite request has been charged for it,   *)
(* durably: the answer waits for the receipt of the ledger writer.         *)
(***************************************************************************)
THEOREM AnswerAfterCharge == Spec => []AnsweredIsCharged
<1>1. IInv => AnsweredIsCharged
  BY Zenon DEF IInv, CostInv, AnsweredIsCharged, Resolved, Priced
<1>2. QED
  BY <1>1, InductiveInvariant, PTL

(***************************************************************************)
(* While the process serves, a reserved claim is held by a permit, queued  *)
(* or being written, unless its handler was dropped during the commit.     *)
(***************************************************************************)
THEOREM ClaimHasRoute == Spec => []RouteToSettlement
<1>1. IInv => RouteToSettlement
  BY Zenon DEF IInv, ClaimInv, RouteToSettlement, Reserved, Held, InLedger
<1>2. QED
  BY <1>1, InductiveInvariant, PTL

(***************************************************************************)
(* The ledger writer is unhealthy only while it retries an entry, so the   *)
(* refusal of finite requests is never permanent for lack of work.         *)
(***************************************************************************)
THEOREM UnhealthyRetries == Spec => []UnhealthyMeansRetrying
<1>1. IInv => UnhealthyMeansRetrying
  BY Zenon DEF IInv, ProcessInv, UnhealthyMeansRetrying
<1>2. QED
  BY <1>1, InductiveInvariant, PTL

(***************************************************************************)
(* The ledger of the finite requests is sound, for every number of         *)
(* requests, attempts and crashes and all capacities.                      *)
(***************************************************************************)
THEOREM LedgerIsSound == Spec => []LedgerSound
BY NoDoubleCharge, ExactSettlement, AnswerAfterCharge, ClaimHasRoute, UnhealthyRetries, PTL
DEF LedgerSound

(***************************************************************************)
(* No step deletes the attempt rows of a reserved claim: recovery discards *)
(* requests in flight only once no claim is left.                          *)
(***************************************************************************)
LEMMA StepKeepsReservedRows ==
  ASSUME IInv, Next
  PROVE  ReservedRowsKept
<1>1. SUFFICES ASSUME NEW a \in rows, a[1] \in Reserved
               PROVE  a \in rows'
  BY Zenon DEF ReservedRowsKept
<1>2. stage # "recover_in_flight"
  BY <1>1, Zenon DEF IInv, ClaimInv, Reserved
<1>3. ~RecoverInFlight
  BY <1>2, Zenon DEF RecoverInFlight
<1>4. CASE HandlerNext
  BY <1>4, Zenon
  DEF HandlerNext, Reserve, TakePermit, BeginClaim, BeginFails, AdmitQuota,
      MarkDispatched, Answer, BeginPlain, OpenAttempt, CloseAttempt, Finish, db
<1>5. CASE WriterNext
  BY <1>1, <1>5, Zenon
  DEF WriterNext, LedgerRecv, LedgerRecord, LedgerFail, LedgerSettle,
      LedgerSettleUnreported, UsageApply, UsageFlush, ApplyWrite, ApplyGap,
      RecordAttempt, db
<1>6. CASE Crash \/ RecoverQuota
  BY <1>6, Zenon DEF Crash, RecoverQuota, db
<1>7. QED
  BY <1>1, <1>3, <1>4, <1>5, <1>6, Zenon DEF Next, RecoveryNext

(***************************************************************************)
(* The spend of the key contains the cost of every attempt whose client    *)
(* was answered.                                                           *)
(***************************************************************************)
LEMMA AnswersAreSpent ==
  ASSUME IInv
  PROVE  /\ Cardinality(AnsweredCosts) * Cost \in Nat /\ Spent \in Nat
         /\ Cardinality(AnsweredCosts) * Cost <= Spent
<1> DEFINE f == [a \in AnsweredCosts |-> <<a, 1>>]
<1>1. times \in [Attempts -> Nat] /\ \A a \in Attempts : times[a] \in {0, 1}
  <2>1. times \in [Attempts -> Nat]
    BY Zenon DEF IInv, TypeOK
  <2>2. ASSUME NEW r \in Requests, NEW i \in Indices PROVE times[<<r, i>>] \in {0, 1}
    BY Zenon DEF IInv, CostInv, PlainInv, Requests
  <2>3. QED
    BY <2>1, <2>2 DEF Attempts
<1>2. \A a \in AnsweredCosts : a \in Attempts /\ times[a] = 1
  <2>1. ASSUME NEW r \in Finite, NEW i \in Indices,
               phase[r] = "answered", result[<<r, i>>] = "priced"
        PROVE  times[<<r, i>>] = 1
    BY <2>1, Zenon DEF IInv, CostInv
  <2>2. QED
    BY <2>1 DEF AnsweredCosts, Attempts
<1>3. Charged = {a \in Attempts : times[a] = 1} \X {1}
  <2>1. ASSUME NEW c \in Charged PROVE c \in {a \in Attempts : times[a] = 1} \X {1}
    <3>1. PICK a \in Attempts : c \in {a} \X (1..times[a])
      BY Zenon DEF Charged
    <3>2. QED
      BY <1>1, <3>1
  <2>2. ASSUME NEW a \in Attempts, times[a] = 1 PROVE <<a, 1>> \in Charged
    <3>1. <<a, 1>> \in {a} \X (1..times[a])
      BY <2>2
    <3>2. QED
      BY <3>1, Zenon DEF Charged
  <2>3. QED
    BY <2>1, <2>2
<1>4. IsFiniteSet(Charged)
  <2>1. IsFiniteSet(Requests) /\ IsFiniteSet(Indices)
    <3>1. IsFiniteSet(Requests)
      BY QuotaAssumption, FS_Union, Zenon DEF Requests
    <3>2. IsFiniteSet(Indices)
      BY QuotaAssumption, FS_Interval DEF Indices
    <3>3. QED
      BY <3>1, <3>2, Zenon
  <2>2. IsFiniteSet(Attempts)
    BY <2>1, FS_Product, Zenon DEF Attempts
  <2>3. IsFiniteSet({a \in Attempts : times[a] = 1})
    BY <2>2, FS_Subset, Zenon
  <2>4. QED
    BY <1>3, <2>3, FS_Singleton, FS_Product, Zenon
<1>5. f \in Injection(AnsweredCosts, Charged)
  BY <1>2, <1>3, Zenon DEF Injection, IsInjective
<1>6. /\ Cardinality(AnsweredCosts) <= Cardinality(Charged)
      /\ Cardinality(AnsweredCosts) \in Nat /\ Cardinality(Charged) \in Nat
  BY <1>4, <1>5, FS_Injection, FS_CardinalityType, Zenon
<1>7. ASSUME NEW m \in Nat, NEW n \in Nat, m <= n, NEW c \in Nat
      PROVE  m * c \in Nat /\ n * c \in Nat /\ m * c <= n * c
  BY <1>7
<1>8. QED
  BY <1>6, <1>7, QuotaAssumption, Zenon DEF Spent

(***************************************************************************)
(* Only AdmitQuota admits a request, and it reads the spend as it is.      *)
(***************************************************************************)
LEMMA StepSeesAnswers ==
  ASSUME IInv, Next
  PROVE  AdmissionSeesAnswers
<1>1. SUFFICES ASSUME NEW r \in Finite, phase[r] = "claimed", phase'[r] = "admitted"
               PROVE  Cardinality(AnsweredCosts) * Cost < Limit
  BY Zenon DEF AdmissionSeesAnswers
<1>2. phase \in [Requests -> Phases] /\ r \in Requests
  BY Zenon DEF IInv, TypeOK, Requests
<1>3. Spent < Limit
  <2>1. CASE HandlerNext
    BY Zenon, <1>1, <1>2, <2>1
    DEF HandlerNext, Reserve, TakePermit, BeginClaim, BeginFails, AdmitQuota,
        MarkDispatched, Answer, BeginPlain, OpenAttempt, CloseAttempt, Finish, Enter
  <2>2. CASE WriterNext
    BY <1>1, <2>2, Zenon
    DEF WriterNext, LedgerRecv, LedgerRecord, LedgerFail, LedgerSettle,
        LedgerSettleUnreported, UsageApply, UsageFlush, handlers
  <2>3. CASE RecoveryNext
    BY <1>1, <1>2, <2>3, Zenon DEF RecoveryNext, Crash, RecoverQuota, RecoverInFlight, handlers
  <2>4. QED
    BY <2>1, <2>2, <2>3, Zenon DEF Next
<1>4. QED
  BY <1>3, AnswersAreSpent, QuotaAssumption

(***************************************************************************)
(* What later steps rely on stays visible: the rows of a reserved claim to *)
(* recovery, the costs of the answered requests to admission.              *)
(***************************************************************************)
THEOREM EvidenceIsKept == Spec => EvidenceKept
<1>1. IInv /\ [Next]_vars => [ReservedRowsKept /\ AdmissionSeesAnswers]_vars
  BY StepKeepsReservedRows, StepSeesAnswers, Zenon
<1>2. QED
  BY <1>1, InductiveInvariant, PTL DEF Spec, EvidenceKept

-----------------------------------------------------------------------------
(***************************************************************************)
(* Plain requests.  LossInv follows a charge from the queue of the usage   *)
(* writer to the database or to one of the places that admit its loss: an  *)
(* attempt is written only after it closed, so a row that is there already *)
(* was charged when it was inserted.                                       *)
(***************************************************************************)
InFacts(a) == \E n \in DOMAIN facts : facts[n] = <<"attempt", a>>
Admitted(r) == r \in tally \union gapped \union unrecorded \union crashed
LossInv(r) ==
  \A i \in Indices :
    LET a == <<r, i>> IN
    /\ a \in rows \/ InFacts(a) => result[a] \notin {"unopened", "open"}
    /\ a \in rows /\ result[a] = "priced" => times[a] = 1
    /\ result[a] = "priced" => times[a] = 1 \/ InFacts(a) \/ Admitted(r)

\* An attempt a step leaves alone.
LEMMA LossFrame ==
  ASSUME NEW r \in Plain, LossInv(r), Admitted(r) => Admitted(r)',
         \A i \in Indices :
           /\ result'[<<r, i>>] = result[<<r, i>>] /\ times'[<<r, i>>] = times[<<r, i>>]
           /\ <<r, i>> \in rows' => <<r, i>> \in rows
           /\ InFacts(<<r, i>>)' <=> InFacts(<<r, i>>)
  PROVE  LossInv(r)'
  BY Zenon DEF LossInv

\* Submitting a fact: it is in the queue, or its request is tallied.
LEMMA SubmitLoses ==
  ASSUME TypeOK, NEW fact \in Fact, Submit(fact)
  PROVE  /\ \A a \in Attempts :
              /\ InFacts(a) => InFacts(a)'
              /\ InFacts(a)' => InFacts(a) \/ fact = <<"attempt", a>>
              /\ fact = <<"attempt", a>> => InFacts(a)' \/ a[1] \in tally'
         /\ tally \subseteq tally' /\ unrecorded' = unrecorded
<1>1. facts \in Seq(Fact)
  BY Zenon DEF TypeOK
<1>2. CASE facts' = Append(facts, fact) /\ tally' = tally
  <2>1. \A a : InFacts(a)' <=> InFacts(a) \/ <<"attempt", a>> = fact
    <3>1. \A x : (\E n \in DOMAIN Append(facts, fact) : Append(facts, fact)[n] = x)
                 <=> (\E n \in DOMAIN facts : facts[n] = x) \/ x = fact
      BY <1>1, AppendQueued
    <3>2. QED
      BY <1>2, <3>1, Zenon DEF InFacts
  <2>2. QED
    BY <1>2, <2>1, Zenon DEF Submit
<1>3. CASE facts' = facts /\ tally' = tally \union {RequestOf(fact)}
  BY <1>3 DEF Submit, InFacts, RequestOf
<1>4. QED
  BY <1>2, <1>3, Zenon DEF Submit

\* The handlers of all requests.
LEMMA HandlerKeepsLossInv ==
  ASSUME IInv, NEW r \in Plain, LossInv(r), HandlerNext
  PROVE  LossInv(r)'
<1>1. TypeOK /\ r \in Requests /\ r \notin Finite
  BY QuotaAssumption, Zenon DEF IInv, Requests
<1>2. \A i \in Indices : <<r, i>> \in Attempts
  BY <1>1, Zenon DEF Attempts
<1>3. ASSUME NEW q \in Finite,
             \/ Reserve(q) \/ TakePermit(q) \/ BeginClaim(q) \/ BeginFails(q)
             \/ AdmitQuota(q) \/ MarkDispatched(q) \/ Answer(q)
      PROVE  LossInv(r)'
  <2>1. UNCHANGED <<result, times, rows, facts, tally, gapped, unrecorded, crashed>>
    BY Zenon, <1>3 DEF Reserve, TakePermit, BeginClaim, BeginFails, AdmitQuota, MarkDispatched,
       Answer, db, usage, history
  <2>2. QED
    BY <2>1, LossFrame, Zenon DEF InFacts, Admitted
<1>4. ASSUME NEW q \in Plain, BeginPlain(q) PROVE LossInv(r)'
  <2>1. UNCHANGED <<result, times, rows, facts, tally, gapped, unrecorded, crashed>>
    BY <1>4, Zenon DEF BeginPlain, usage, history
  <2>2. QED
    BY <2>1, LossFrame, Zenon DEF InFacts, Admitted
<1>5. ASSUME NEW q \in Requests, NEW j \in Indices, OpenAttempt(q, j) PROVE LossInv(r)'
  <2>1. UNCHANGED <<times, rows, facts, tally, gapped, unrecorded, crashed>>
    BY <1>5, Zenon DEF OpenAttempt, db, usage, history
  <2>2. \A i \in Indices :
          \/ result'[<<r, i>>] = result[<<r, i>>]
          \/ result[<<r, i>>] = "unopened" /\ result'[<<r, i>>] = "open"
    BY <1>1, <1>2, <1>5, Zenon DEF OpenAttempt, TypeOK
  <2>3. QED
    BY <2>1, <2>2, Zenon DEF LossInv, InFacts, Admitted
<1>6. ASSUME NEW q \in Requests, NEW j \in Indices,
             NEW res \in {"unsent", "unpriced", "priced"}, CloseAttempt(q, j, res)
      PROVE  LossInv(r)'
  <2>1. UNCHANGED <<times, rows, gapped, crashed>> /\ Submit(<<"attempt", <<q, j>>>>)
    BY <1>6, Zenon DEF CloseAttempt, db, history
  <2>2. <<q, j>> \in Attempts /\ <<"attempt", <<q, j>>>> \in Fact
    BY FactTypes, Zenon DEF Attempts
  <2>3. \A i \in Indices :
          /\ InFacts(<<r, i>>) => InFacts(<<r, i>>)'
          /\ InFacts(<<r, i>>)' => InFacts(<<r, i>>) \/ <<r, i>> = <<q, j>>
          /\ <<r, i>> = <<q, j>> => InFacts(<<r, i>>)' \/ r \in tally'
    BY <1>1, <1>2, <2>1, <2>2, SubmitLoses, Zenon
  <2>4. Admitted(r) => Admitted(r)'
    BY <1>1, <2>1, <2>2, SubmitLoses, Zenon DEF Admitted
  <2>5. \A i \in Indices :
          IF <<r, i>> = <<q, j>>
          THEN result[<<r, i>>] = "open" /\ result'[<<r, i>>] \notin {"unopened", "open"}
          ELSE result'[<<r, i>>] = result[<<r, i>>]
    BY <1>1, <1>2, <1>6, Zenon DEF CloseAttempt, TypeOK
  <2>6. QED
    BY <2>1, <2>3, <2>4, <2>5, Zenon DEF LossInv, Admitted
<1>7. ASSUME NEW q \in Requests, Finish(q) PROVE LossInv(r)'
  <2>1. UNCHANGED <<result, times, rows, gapped, crashed>> /\ Submit(<<"terminal", q>>)
    BY <1>7, Zenon DEF Finish, db, history
  <2>2. <<"terminal", q>> \in Fact /\ \A a : <<"terminal", q>> # <<"attempt", a>>
    BY FactTypes, Zenon
  <2>3. \A i \in Indices : InFacts(<<r, i>>)' <=> InFacts(<<r, i>>)
    BY <1>1, <1>2, <2>1, <2>2, SubmitLoses, Zenon
  <2>4. Admitted(r) => Admitted(r)'
    BY <1>1, <2>1, <2>2, SubmitLoses, Zenon DEF Admitted
  <2>5. QED
    BY <2>1, <2>3, <2>4, LossFrame, Zenon
<1>8. QED
  BY <1>3, <1>4, <1>5, <1>6, <1>7, Zenon DEF HandlerNext

\* The quota ledger writes only the attempts of finite requests.
LEMMA LedgerWritesFinite ==
  ASSUME TypeOK, NEW r \in Plain, NEW i \in Indices, NEW q \in Finite,
         \/ \E j \in Indices : LedgerRecord(q, j)
         \/ LedgerSettle(q) \/ LedgerSettleUnreported(q)
  PROVE  times'[<<r, i>>] = times[<<r, i>>] /\ (<<r, i>> \in rows' => <<r, i>> \in rows)
<1>1. /\ <<r, i>> \in Attempts /\ <<r, i>>[1] # q
      /\ times \in [Attempts -> Nat]
  BY QuotaAssumption, SMTT(60) DEF TypeOK, Attempts, Requests
<1>2. ASSUME NEW j \in Indices, LedgerRecord(q, j)
      PROVE  times'[<<r, i>>] = times[<<r, i>>] /\ (<<r, i>> \in rows' => <<r, i>> \in rows)
  <2>1. <<r, i>> # <<q, j>>
    BY QuotaAssumption, Zenon
  <2>2. /\ rows' = rows \union {<<q, j>>}
        /\ times' = IF Charges(<<q, j>>) THEN [times EXCEPT ![<<q, j>>] = @ + 1] ELSE times
    BY <1>2, Zenon DEF LedgerRecord, RecordAttempt
  <2>3. QED
    BY <1>1, <2>1, <2>2, Zenon
<1>3. CASE LedgerSettle(q) \/ LedgerSettleUnreported(q)
  <2>1. rows' = rows
    BY <1>3, Zenon DEF LedgerSettle, LedgerSettleUnreported
  <2>2. \/ times' = times
        \/ \E is : Charge(q, is)
    BY <1>3, Zenon DEF LedgerSettle, LedgerSettleUnreported, ResolveClaim
  <2>3. QED
    BY <1>1, <2>1, <2>2, Zenon DEF Charge
<1>4. QED
  BY <1>2, <1>3, Zenon

\* What applying a queued fact does to one attempt of a plain request.
LEMMA ApplySeesAttempt ==
  ASSUME TypeOK, NEW r \in Plain, NEW i \in Indices, NEW fact \in Fact,
         ApplyWrite(fact) \/ ApplyGap(RequestOf(fact))
  PROVE  /\ <<r, i>> \in rows' => <<r, i>> \in rows \/ <<"attempt", <<r, i>>>> = fact
         /\ <<r, i>> \in rows => times'[<<r, i>>] = times[<<r, i>>]
         /\ times'[<<r, i>>] \in {times[<<r, i>>], times[<<r, i>>] + 1}
         /\ <<r, i>> \in rows' /\ <<r, i>> \notin rows /\ result[<<r, i>>] = "priced"
              => times'[<<r, i>>] = times[<<r, i>>] + 1
         /\ <<"attempt", <<r, i>>>> = fact => Admitted(r)' \/ <<r, i>> \in rows'
<1>1. <<r, i>> \in Attempts /\ <<r, i>>[1] = r /\ times \in [Attempts -> Nat]
  BY QuotaAssumption, Zenon DEF TypeOK, Attempts, Requests
<1>2. CASE ApplyGap(RequestOf(fact))
  <2>1. rows' = rows /\ times' = times
    BY <1>2, Zenon DEF ApplyGap
  <2>2. RequestOf(fact) \in gapped' \union unrecorded'
    BY <1>2, Zenon DEF ApplyGap
  <2>3. <<"attempt", <<r, i>>>> = fact => RequestOf(fact) = r
    BY <1>1, FactTypes, Zenon
  <2>4. <<"attempt", <<r, i>>>> = fact => Admitted(r)'
    BY <2>2, <2>3, Zenon DEF Admitted
  <2>5. QED
    BY <2>1, <2>4, Zenon
<1>3. CASE ApplyWrite(fact) /\ fact[1] = "attempt"
  <2>1. PICK a \in Attempts : fact = <<"attempt", a>> /\ RecordAttempt(a)
    BY <1>3 DEF ApplyWrite, Fact
  <2>2. Charges(<<r, i>>) <=> <<r, i>> \notin rows /\ result[<<r, i>>] = "priced"
    BY QuotaAssumption, <1>1, Zenon DEF Charges
  <2>3. <<"attempt", <<r, i>>>> = fact <=> <<r, i>> = a
    BY <2>1, Zenon
  <2>4. times'[<<r, i>>] = IF <<r, i>> = a /\ Charges(<<r, i>>)
                           THEN times[<<r, i>>] + 1 ELSE times[<<r, i>>]
    BY <1>1, <2>1, Zenon DEF RecordAttempt
  <2>5. <<r, i>> \in rows' <=> <<r, i>> \in rows \/ <<r, i>> = a
    BY <2>1, Zenon DEF RecordAttempt
  <2>6. QED
    BY <2>2, <2>3, <2>4, <2>5, Zenon
<1>4. CASE ApplyWrite(fact) /\ fact[1] = "terminal"
  <2>1. rows' = rows /\ times' = times /\ fact[1] # "attempt"
    BY <1>4, Zenon DEF ApplyWrite
  <2>2. <<"attempt", <<r, i>>>> # fact
    BY <2>1
  <2>3. QED
    BY <2>1, <2>2, Zenon
<1>5. QED
  BY <1>2, <1>3, <1>4, Zenon DEF ApplyWrite

\* The usage writer takes the oldest fact.
LEMMA ApplyKeepsLossInv ==
  ASSUME TypeOK, TypeOK', NEW r \in Plain, PlainInv(r)', LossInv(r), UsageApply
  PROVE  LossInv(r)'
<1> DEFINE fact == Head(facts)
<1>1. UNCHANGED <<result, tally, crashed>>
  BY Zenon DEF UsageApply, handlers, history
<1>2. /\ facts \in Seq(Fact) /\ facts # <<>> /\ facts' = Tail(facts) /\ fact \in Fact
      /\ ApplyWrite(fact) \/ ApplyGap(RequestOf(fact))
  BY DEF UsageApply, TypeOK
<1>3. \A a : InFacts(a) <=> InFacts(a)' \/ <<"attempt", a>> = fact
  <2>1. \A x : (\E n \in DOMAIN facts : facts[n] = x)
               <=> (\E n \in DOMAIN Tail(facts) : Tail(facts)[n] = x) \/ x = fact
    BY <1>2, TailQueued, Zenon
  <2>2. QED
    BY <1>2, <2>1, Zenon DEF InFacts
<1>4. gapped \subseteq gapped' /\ unrecorded \subseteq unrecorded'
  BY <1>2, Zenon DEF ApplyGap, ApplyWrite
<1>5. Admitted(r) => Admitted(r)'
  BY <1>1, <1>4, Zenon DEF Admitted
<1>6. SUFFICES ASSUME NEW i \in Indices
               PROVE  LET a == <<r, i>> IN
                      /\ a \in rows' \/ InFacts(a)' => result'[a] \notin {"unopened", "open"}
                      /\ a \in rows' /\ result'[a] = "priced" => times'[a] = 1
                      /\ result'[a] = "priced" => times'[a] = 1 \/ InFacts(a)' \/ Admitted(r)'
  BY Zenon DEF LossInv
<1> DEFINE a == <<r, i>>
<1>7. /\ a \in rows' => a \in rows \/ <<"attempt", a>> = fact
      /\ a \in rows => times'[a] = times[a]
      /\ times'[a] \in {times[a], times[a] + 1}
      /\ a \in rows' /\ a \notin rows /\ result[a] = "priced" => times'[a] = times[a] + 1
      /\ <<"attempt", a>> = fact => Admitted(r)' \/ a \in rows'
  BY <1>2, ApplySeesAttempt, Zenon
<1>8. times[a] \in Nat /\ (times'[a] # 0 => times'[a] = 1)
  BY QuotaAssumption, Zenon DEF PlainInv, TypeOK, Attempts, Requests
<1>9. /\ a \in rows \/ InFacts(a) => result[a] \notin {"unopened", "open"}
      /\ a \in rows /\ result[a] = "priced" => times[a] = 1
      /\ result[a] = "priced" => times[a] = 1 \/ InFacts(a) \/ Admitted(r)
  BY Zenon DEF LossInv
<1>10. result'[a] = result[a] /\ (InFacts(a) <=> InFacts(a)' \/ <<"attempt", a>> = fact)
  BY <1>1, <1>3, Zenon
<1> HIDE DEF a
<1>11. times[a] = 1 => times'[a] = 1
  BY <1>7, <1>8
<1>12. a \in rows' /\ result[a] = "priced" => times'[a] = 1
  BY <1>7, <1>8, <1>9
<1>13. QED
  BY <1>5, <1>7, <1>9, <1>10, <1>11, <1>12, Zenon DEF a

\* The two writers.
LEMMA WriterKeepsLossInv ==
  ASSUME IInv, IInv', NEW r \in Plain, LossInv(r), WriterNext
  PROVE  LossInv(r)'
<1>1. TypeOK /\ TypeOK' /\ PlainInv(r)'
  BY Zenon DEF IInv
<1>2. CASE \/ LedgerRecv
           \/ \E q \in Finite :
                \/ \E j \in Indices : LedgerRecord(q, j)
                \/ LedgerFail(q) \/ LedgerSettle(q) \/ LedgerSettleUnreported(q)
  <2>1. UNCHANGED <<result, facts, tally, gapped, unrecorded, crashed>>
    BY <1>2, Zenon DEF LedgerRecv, LedgerRecord, LedgerFail, LedgerSettle, LedgerSettleUnreported,
       db, handlers, usage, history
  <2>2. ASSUME NEW i \in Indices
        PROVE  /\ times'[<<r, i>>] = times[<<r, i>>]
               /\ <<r, i>> \in rows' => <<r, i>> \in rows
    <3>1. CASE LedgerRecv \/ \E q \in Finite : LedgerFail(q)
      BY <3>1, Zenon DEF LedgerRecv, LedgerFail, db
    <3>2. QED
      BY <1>1, <1>2, <3>1, LedgerWritesFinite, Zenon
  <2>3. Admitted(r) => Admitted(r)'
    BY <2>1, Zenon DEF Admitted
  <2>4. \A i \in Indices : InFacts(<<r, i>>)' <=> InFacts(<<r, i>>)
    BY <2>1, Zenon DEF InFacts
  <2>5. QED
    BY <2>1, <2>2, <2>3, <2>4, LossFrame, Zenon
<1>3. CASE UsageApply
  BY <1>1, <1>3, ApplyKeepsLossInv, Zenon
<1>4. CASE UsageFlush
  <2>1. UNCHANGED <<result, times, rows, facts, crashed>>
    BY <1>4, Zenon DEF UsageFlush, handlers, history
  <2>2. Admitted(r) => Admitted(r)'
    BY <1>4, <2>1, Zenon DEF UsageFlush, Admitted
  <2>3. QED
    BY <2>1, <2>2, LossFrame, Zenon DEF InFacts
<1>5. QED
  BY <1>2, <1>3, <1>4, Zenon DEF WriterNext

\* A crash empties the queue and interrupts whoever had a fact in it.
LEMMA RecoveryKeepsLossInv ==
  ASSUME IInv, NEW r \in Plain, LossInv(r), RecoveryNext
  PROVE  LossInv(r)'
<1>1. TypeOK /\ ProcessInv /\ r \in Requests /\ r \notin Finite
  BY QuotaAssumption, Zenon DEF IInv, Requests
<1>2. \A i \in Indices : <<r, i>> \in Attempts /\ <<r, i>>[1] = r
  BY <1>1, Zenon DEF Attempts
<1>3. CASE Crash
  <2>1. UNCHANGED <<rows, times, gapped>> /\ facts' = <<>>
    BY <1>3, Zenon DEF Crash, db
  <2>2. \A i \in Indices :
          result'[<<r, i>>] = IF result[<<r, i>>] = "open" THEN "unsent" ELSE result[<<r, i>>]
    BY <1>2, <1>3, Zenon DEF Crash
  <2>3. ASSUME NEW i \in Indices, result[<<r, i>>] = "priced",
               InFacts(<<r, i>>) \/ Admitted(r)
        PROVE  Admitted(r)'
    <3>1. phase[r] # "new"
      BY <1>1, <2>3, Zenon DEF ProcessInv
    <3>2. InFacts(<<r, i>>) => \E n \in DOMAIN facts : RequestOf(facts[n]) = r
      BY <1>2, FactTypes, Zenon DEF InFacts
    <3>3. InFacts(<<r, i>>) \/ r \in tally \union unrecorded => r \in Interrupted
      BY <1>1, <3>1, <3>2, Zenon DEF Interrupted
    <3>4. QED
      BY <1>3, <2>1, <2>3, <3>3, Zenon DEF Admitted, Crash
  <2>4. \A a : ~InFacts(a)'
    BY <2>1 DEF InFacts
  <2>5. QED
    BY <2>1, <2>2, <2>3, <2>4, Zenon DEF LossInv
<1>4. CASE RecoverQuota
  <2>1. UNCHANGED <<result, rows, facts, tally, gapped, unrecorded, crashed>>
    BY <1>4, Zenon DEF RecoverQuota, handlers, usage, history
  <2>2. \A i \in Indices : times'[<<r, i>>] = times[<<r, i>>]
    BY <1>1, <1>2, <1>4, Zenon DEF RecoverQuota, Reserved
  <2>3. QED
    BY <2>1, <2>2, LossFrame, Zenon DEF InFacts, Admitted
<1>5. CASE RecoverInFlight
  <2>1. UNCHANGED <<result, times, facts, tally, unrecorded, crashed>>
    BY <1>5, Zenon DEF RecoverInFlight, handlers, usage, history
  <2>2. gapped \subseteq gapped' /\ rows' \subseteq rows
    BY <1>5, Zenon DEF RecoverInFlight
  <2>3. QED
    BY <2>1, <2>2, LossFrame, Zenon DEF InFacts, Admitted
<1>6. QED
  BY <1>3, <1>4, <1>5, Zenon DEF RecoveryNext

(***************************************************************************)
(* The cost of a plain request's answer is charged, or on its way, or the  *)
(* loss is admitted: a gap, a tally of shed facts, or a crash.             *)
(***************************************************************************)
THEOREM PlainLossIsAdmitted == Spec => []PlainLossAdmitted
<1> DEFINE J == \A r \in Plain : LossInv(r)
<1>1. Init => J
  BY DEF Init, LossInv, InFacts, Attempts, Requests
<1>2. IInv /\ J /\ [Next]_vars => J'
  <2>1. SUFFICES ASSUME IInv, J, [Next]_vars, NEW r \in Plain PROVE LossInv(r)'
    BY Zenon
  <2>2. IInv' /\ LossInv(r)
    BY <2>1, NextKeepsIInv, Zenon
  <2>3. CASE UNCHANGED vars
    BY <2>2, <2>3, LossFrame, Zenon DEF vars, db, handlers, usage, history, InFacts, Admitted
  <2>4. QED
    BY Zenon, <2>1, <2>2, <2>3, HandlerKeepsLossInv, WriterKeepsLossInv, RecoveryKeepsLossInv
    DEF Next
<1>3. J => PlainLossAdmitted
  BY Zenon DEF LossInv, PlainLossAdmitted, Priced, InFacts, Admitted
<1>4. QED
  BY <1>1, <1>2, <1>3, InductiveInvariant, PTL DEF Spec
=============================================================================
