--------------------------- MODULE ManagementProofs ---------------------------
(***************************************************************************)
(* Proofs about Management: the runtime serves what the row says, quota    *)
(* data belongs to the login it was fetched with and a forced view of it   *)
(* is new, and a login session takes effect once or not at all, for any    *)
(* handlers, models, configurations and operations.                        *)
(***************************************************************************)
EXTENDS Management, TLAPS

-----------------------------------------------------------------------------
(* The inductive invariant. *)

\* What columns, entries, objects and processes hold.
Visibilities == {"private", "shared"}
ModelRow == [enabled : BOOLEAN, available : BOOLEAN, price : {"catalog", "none", "manual"}]
ModelRows == UNION {[S -> ModelRow] : S \in SUBSET Models}
Patch == [visibility : Visibilities, priority : Nat, config : Configs]
Row == [present : {TRUE}, revision : Nat, identity : Nat, auth : {"active", "reauth"},
        enabled : BOOLEAN, visibility : Visibilities, priority : Nat, config : Configs,
        models : ModelRows]
RouteRow == [visibility : Visibilities, priority : Nat, config : Configs, models : ModelRows]
Observation == [revision : Int, generation : Nat, identity : Nat]
Object == [revision : Nat, identity : Nat, seen : Observation]
Flight == [revision : Nat, current : BOOLEAN]
Snapshot == [fetch : Nat \ {0}, identity : Nat, merged : Nat]
Entry == [revision : Nat, fetched : Nat, tried : Nat, error : BOOLEAN, attempt : Nat,
          generation : Nat, snapshot : Snapshot \cup {NoSnapshot}]
Cached == Entry \cup {NoEntry}
Result == [revision : Nat, identity : Nat]

Editing == {"update", "both", "replace", "enable", "disable", "refresh", "delete", "sweep"}
EditJob == [pc : {"gate", "loaded", "publish", "remove"}, op : Editing, patch : Patch,
            current : Row \cup {NoRow}]
ModelJob == [pc : {"gate", "loaded", "publish"}, op : {"model"}, model : Models, enabled : BOOLEAN,
             price : {"same", "none", "manual"}, current : Row \cup {NoRow}]
QuotaJob == [pc : {"gate", "fetch", "store"}, op : {"quota"}, mode : {"automatic", "force"},
             now : Nat, revision : Nat, attempt : Nat, fetches : Nat,
             current : Row \cup {NoRow}, cached : Cached, base : Nat, result : Result \cup {NoObject}]
ListJob == [pc : {"listing"}, op : {"list"}, revision : Nat, identity : Nat]
CreateJob == [pc : {"prepared"}, op : {"create"}, patch : Patch]
InstallJob == [pc : {"install"}, op : Editing \cup {"create"}, row : Row]
Job == {Idle} \cup EditJob \cup ModelJob \cup QuotaJob \cup ListJob \cup CreateJob \cup InstallJob

Stages == {"callback", "asking", "polling", "exchange", "user", "project", "onboard"} \cup FlowEnds
Flow == [kind : FlowKinds, stage : Stages, late : BOOLEAN, queued : BOOLEAN, tries : Nat,
         listens : BOOLEAN]
Session == [status : {"pending", "provisioning", "completed", "failed", "cancelled"},
            target : {"create", "reauth"}, flow : Flow, dead : BOOLEAN, effects : Nat]

TypeOK ==
  /\ row \in Row \cup {NoRow} /\ known \in BOOLEAN
  /\ object \in Object \cup {NoObject} /\ route \in RouteRow \cup {NoRoute}
  /\ cache \in Cached /\ fetches \in Nat /\ now \in Nat
  /\ flight \in Flight \cup {NoFlight}
  /\ login \in Session \cup {NoLogin}
  /\ proc \in [Processes -> Job]

\* The login a credential revision belongs to; it is never rewritten.
Backed(revision, identity) ==
  revision \in DOMAIN identityOf /\ identityOf[revision] = identity
IdentityInv ==
  /\ identityOf \in [DOMAIN identityOf -> Nat] /\ DOMAIN identityOf \subseteq Nat
  /\ row # NoRow => /\ Backed(row.revision, row.identity)
                    /\ \A v \in DOMAIN identityOf : v <= row.revision

\* The object has a credential of the account and observes with it; a refresh under way
\* belongs to the object or to one that was replaced.
ObjectInv ==
  /\ object # NoObject =>
       /\ Backed(object.revision, object.identity)
       /\ object.seen.revision # -1 =>
            object.seen.revision = object.revision /\ object.seen.identity = object.identity
  /\ flight # NoFlight /\ flight.current => object # NoObject /\ object.revision = flight.revision

\* A quota entry: what it knows is of the login of its revision.
EntryOK(e) ==
  e # NoEntry =>
    /\ e.snapshot = NoSnapshot => e.error
    /\ e.snapshot # NoSnapshot =>
         /\ e.snapshot.fetch <= fetches
         /\ Backed(e.revision, e.snapshot.identity) /\ Backed(e.revision, e.snapshot.merged)
QuotaInv == EntryOK(cache) /\ ~misfiled /\ ~outdated

\* The rows while an operation that loaded them holds the gate: another process writes
\* only the credential, with a newer revision of the same login, and its state.
Current(current) ==
  /\ row # NoRow /\ current # NoRow /\ Backed(current.revision, current.identity)
  /\ PatchOf(current) = PatchOf(row) /\ current.identity = row.identity
  /\ current.revision <= row.revision
Written(committed) ==
  row # NoRow /\ row.enabled = committed.enabled /\ RouteOf(row) = RouteOf(committed)

\* A view that is not new when p asks for it is one that p will not be answered with.
Outrun(p) ==
  cache # NoEntry /\ ~cache.error /\ cache.snapshot.fetch <= p.fetches =>
    cache.attempt <= p.attempt /\ cache.revision <= p.revision
Asked(p) ==
  /\ p.fetches <= fetches /\ Outrun(p)
  /\ row # NoRow => p.revision <= row.revision

\* What each process knows of the account.
JobOK(p) ==
  /\ p.pc \in {"loaded", "fetch", "store"} => Current(p.current)
  /\ p.pc = "publish" => row # NoRow /\ p.op \in {"update", "model"}
  /\ p.pc = "remove" => row = NoRow
  /\ p.pc = "listing" => Backed(p.revision, p.identity)
  /\ p.pc = "install" => /\ Backed(p.row.revision, p.row.identity)
                         /\ p.op # "create" => Written(p.row)
  /\ p.pc \in {"gate", "fetch", "store"} /\ p.op = "quota" => Asked(p)
  /\ p.pc \in {"fetch", "store"} => EntryOK(p.cached)
  /\ p.pc = "store" /\ p.result # NoObject => Backed(p.result.revision, p.result.identity)

\* An operation works on the account only with its gate, but for create_account.
Holds(p) ==
  p.pc \in {"loaded", "publish", "remove", "fetch", "store"} \/ (p.pc = "install" /\ p.op # "create")
JobInv == \A x \in Processes : JobOK(proc[x]) /\ (Holds(proc[x]) => gate = x)

\* Nothing but a creation happens before the account is there.
KnownInv ==
  ~known => /\ row = NoRow /\ DOMAIN identityOf = {}
            /\ \A x \in Processes : proc[x].pc \in {"idle", "prepared"}
            /\ login # NoLogin => login.target = "create"

\* What Publish makes of the route.
Published(p) ==
  IF route = NoRoute THEN route
  ELSE IF p.op = "model"
  THEN IF row.enabled THEN [route EXCEPT !.models = row.models] ELSE route
  ELSE IF p.current.visibility # p.patch.visibility
  THEN [route EXCEPT !.visibility = row.visibility] ELSE route

\* The runtime serves the row, or will once what is under way is published.
RunInv ==
  ~behind /\ ~broken /\ (\A x \in Processes : proc[x].pc \notin {"install", "remove"}) =>
    /\ \A x \in Processes : At(x, "publish") => Serves(row, object, Published(proc[x]))
    /\ (\A x \in Processes : ~At(x, "publish")) => Serves(row, object, route)

\* The task of a login session runs while the session is provisioning, and has had its
\* effect once it installs the account.
LoginInv ==
  /\ proc[Login].pc \in {"idle", "prepared", "gate", "loaded", "install"}
  /\ proc[Login].pc \in {"gate", "loaded"} => proc[Login].op = "replace"
  /\ login = NoLogin => At(Login, "idle")
  /\ login # NoLogin =>
       /\ login.status = "provisioning" <=> ~At(Login, "idle")
       /\ login.effects = IF login.status = "completed" \/ At(Login, "install") THEN 1 ELSE 0

IInv == TypeOK /\ IdentityInv /\ ObjectInv /\ QuotaInv /\ JobInv /\ KnownInv /\ RunInv /\ LoginInv

-----------------------------------------------------------------------------
(* The rows. *)

\* A row that is there is a Row, and so on for the other optional values.
LEMMA Absent ==
  /\ NoRow \notin Row /\ ~NoRow.present /\ \A r \in Row : r.present
  /\ NoObject \notin Object /\ NoObject \notin Result /\ NoFlight \notin Flight
  /\ NoEntry \notin Entry /\ NoSnapshot \notin Snapshot /\ NoLogin \notin Session
  /\ NoRoute \notin RouteRow
<1>1. NoRow \notin Row /\ ~NoRow.present /\ \A r \in Row : r.present
  BY DEF NoRow, Row
<1>2. NoObject \notin Object /\ NoObject \notin Result
  BY DEF NoObject, Object, Result
<1>3. NoFlight \notin Flight
  BY DEF NoFlight, Flight
<1>4. NoEntry \notin Entry
  BY DEF NoEntry, Entry
<1>5. NoSnapshot \notin Snapshot
  BY DEF NoSnapshot, Snapshot
<1>6. NoLogin \notin Session
  BY DEF NoLogin, Session
<1>7. NoRoute \notin RouteRow
  BY DEF NoRoute, RouteRow
<1> QED
  BY <1>1, <1>2, <1>3, <1>4, <1>5, <1>6, <1>7

LEMMA Columns ==
  \A r \in Row : r.revision \in Nat /\ r.identity \in Nat /\ r.enabled \in BOOLEAN
BY DEF Row

\* What commit_provider_snapshot writes for the models are model rows.
LEMMA ModelsWritten ==
  ASSUME NEW models \in ModelRows, NEW found \in SUBSET Models, NEW write \in BOOLEAN,
         NEW reset \in BOOLEAN
  PROVE  WriteModels(models, found, write, reset) \in ModelRows
<1> DEFINE old == IF reset THEN NoModels
                  ELSE [m \in DOMAIN models |-> [models[m] EXCEPT !.available = FALSE]]
           new == [m \in DOMAIN old \cup found |->
                     IF m \notin DOMAIN old THEN NewModel
                     ELSE IF m \in found THEN Upserted(old[m]) ELSE old[m]]
<1>1. PICK S \in SUBSET Models : models \in [S -> ModelRow]
  BY Zenon DEF ModelRows
<1>2. \A m \in S : [models[m] EXCEPT !.available = FALSE] \in ModelRow
  BY <1>1, Zenon DEF ModelRow
<1>3. DOMAIN old \in SUBSET Models /\ \A m \in DOMAIN old : old[m] \in ModelRow
  BY <1>1, <1>2, Zenon DEF NoModels
<1>4. \A m \in DOMAIN old : Upserted(old[m]) \in ModelRow
  <2> TAKE m \in DOMAIN old
  <2> DEFINE one == old[m]
  <2>1. one \in ModelRow
    BY <1>3, Zenon
  <2>2. Upserted(one) \in ModelRow
    <3> HIDE DEF one
    <3> QED
      BY <2>1, Zenon DEF ModelRow, Upserted
  <2> QED
    BY <2>2, Zenon
<1>5. NewModel \in ModelRow
  BY Zenon DEF NewModel, ModelRow
<1>6. new \in [DOMAIN old \cup found -> ModelRow]
  <2> HIDE DEF old
  <2> QED
    BY <1>3, <1>4, <1>5, Zenon
<1>7. new \in ModelRows
  <2> HIDE DEF old, new
  <2> QED
    BY <1>3, <1>6, Zenon DEF ModelRows
<1> QED
  BY <1>1, <1>7, Zenon DEF WriteModels

\* What the statements do to a row keeps the type of its columns.
LEMMA RowWritten ==
  ASSUME NEW r \in Row
  PROVE  /\ \A patch \in Patch :
              /\ Patched(r, patch) \in Row /\ PatchOf(Patched(r, patch)) = PatchOf(patch)
              /\ Patched(r, patch).models = r.models /\ Patched(r, patch).enabled = r.enabled
              /\ Patched(r, patch).revision = r.revision /\ Patched(r, patch).identity = r.identity
         /\ /\ ReplacementCredential(r) \in Row /\ RouteOf(ReplacementCredential(r)) = RouteOf(r)
            /\ ReplacementCredential(r).revision = r.revision + 1
         /\ \A enabled \in BOOLEAN :
              LET set == [r EXCEPT !.enabled = enabled]
              IN set \in Row /\ set.revision = r.revision /\ set.identity = r.identity
         /\ /\ Swapped(r) \in Row /\ RouteOf(Swapped(r)) = RouteOf(r)
            /\ Swapped(r).revision = r.revision + 1 /\ Swapped(r).identity = r.identity
            /\ Swapped(r).enabled = r.enabled
         /\ /\ Marked(r) \in Row /\ RouteOf(Marked(r)) = RouteOf(r)
            /\ Marked(r).revision = r.revision /\ Marked(r).identity = r.identity
            /\ Marked(r).enabled = r.enabled
         /\ RouteOf(r) \in RouteRow /\ PatchOf(r) \in Patch
<1>1. ASSUME NEW patch \in Patch
      PROVE /\ Patched(r, patch) \in Row /\ PatchOf(Patched(r, patch)) = PatchOf(patch)
            /\ Patched(r, patch).models = r.models /\ Patched(r, patch).enabled = r.enabled
            /\ Patched(r, patch).revision = r.revision /\ Patched(r, patch).identity = r.identity
  <2>1. Patched(r, patch) \in Row
    BY Zenon DEF Row, Patch, Patched
  <2> QED
    BY <2>1, Zenon DEF Row, Patch, Patched, PatchOf
<1>2. /\ ReplacementCredential(r) \in Row /\ RouteOf(ReplacementCredential(r)) = RouteOf(r)
      /\ ReplacementCredential(r).revision = r.revision + 1
  <2>1. r.revision + 1 \in Nat /\ r.identity + 1 \in Nat
    BY DEF Row
  <2>2. ReplacementCredential(r) \in Row
    BY <2>1, Zenon DEF Row, ReplacementCredential
  <2> QED
    BY <2>2, Zenon DEF Row, ReplacementCredential, RouteOf
<1>3. ASSUME NEW enabled \in BOOLEAN
      PROVE LET set == [r EXCEPT !.enabled = enabled]
            IN set \in Row /\ set.revision = r.revision /\ set.identity = r.identity
  BY Zenon DEF Row
<1>4. /\ Swapped(r) \in Row /\ RouteOf(Swapped(r)) = RouteOf(r)
      /\ Swapped(r).revision = r.revision + 1 /\ Swapped(r).identity = r.identity
      /\ Swapped(r).enabled = r.enabled
  <2>1. r.revision + 1 \in Nat
    BY DEF Row
  <2>2. Swapped(r) \in Row
    BY <2>1, Zenon DEF Row, Swapped
  <2> QED
    BY <2>2, Zenon DEF Row, Swapped, RouteOf
<1>5. /\ Marked(r) \in Row /\ RouteOf(Marked(r)) = RouteOf(r)
      /\ Marked(r).revision = r.revision /\ Marked(r).identity = r.identity
      /\ Marked(r).enabled = r.enabled
  BY Zenon DEF Row, Marked, RouteOf
<1>6. RouteOf(r) \in RouteRow /\ PatchOf(r) \in Patch
  BY Zenon DEF RouteOf, PatchOf, Row, RouteRow, Patch
<1> QED
  BY <1>1, <1>2, <1>3, <1>4, <1>5, <1>6, Zenon

\* The candidate of a commit: the row that was loaded, edited, with the credential it had
\* or the next one.
LEMMA CandidateMade ==
  ASSUME NEW p \in EditJob, p.current \in Row, p.op # "delete"
  PROVE  /\ Candidate(p) \in Row
         /\ \/ /\ Candidate(p).revision = p.current.revision
               /\ Candidate(p).identity = p.current.identity
            \/ Candidate(p).revision = p.current.revision + 1
<1> DEFINE made(r) == /\ r \in Row
                      /\ \/ /\ r.revision = p.current.revision
                            /\ r.identity = p.current.identity
                         \/ r.revision = p.current.revision + 1
<1>1. p.patch \in Patch /\ p.op \in Editing
  BY Zenon DEF EditJob
<1>2. made(UpdateAccount(p)) /\ UpdateAccount(p).revision = p.current.revision
  BY <1>1, RowWritten, Zenon DEF UpdateAccount
<1>3. made(UpdateAccountWithCredential(p))
  BY <1>2, RowWritten, ZenonT(60) DEF UpdateAccountWithCredential
<1>4. made(UpdateCredential(p))
  BY RowWritten, Zenon DEF UpdateCredential
<1>5. made(SetAccountEnabled(p, TRUE)) /\ made(SetAccountEnabled(p, FALSE))
  BY RowWritten, Zenon DEF SetAccountEnabled
<1>6. made(RefreshModels(p))
  BY Zenon DEF RefreshModels
<1>7. made(Candidate(p))
  <2> HIDE DEF made
  <2> QED
    BY <1>1, <1>2, <1>3, <1>4, <1>5, <1>6, Zenon DEF Candidate, Editing
<1> QED
  BY <1>7, Zenon

\* commit_provider_snapshot writes the candidate, but for its models and, without a new
\* credential, the authentication state.
LEMMA SnapshotWritten ==
  ASSUME NEW r \in Row, NEW candidate \in Row, NEW expected, NEW found \in SUBSET Models,
         NEW write \in BOOLEAN, NEW reset \in BOOLEAN,
         NEW new, new = Committed(r, candidate, expected, found, write, reset)
  PROVE  /\ new \in Row /\ new.revision = candidate.revision
         /\ new.identity = candidate.identity
<1> DEFINE auth == IF candidate.revision > expected THEN candidate.auth ELSE r.auth
           models == WriteModels(r.models, found, write, reset)
           written == [candidate EXCEPT !.auth = auth, !.models = models]
<1>1. models \in ModelRows
  BY ModelsWritten, Zenon DEF Row
<1>2. auth \in {"active", "reauth"}
  BY Zenon DEF Row
<1>3. Committed(r, candidate, expected, found, write, reset) = written
  BY Zenon DEF Committed
<1>4. /\ written \in Row /\ written.revision = candidate.revision
      /\ written.identity = candidate.identity
  <2> HIDE DEF auth, models
  <2> QED
    BY <1>1, <1>2, Zenon DEF Row
<1> QED
  BY <1>3, <1>4, Zenon

\* update_model changes nothing but the models.
LEMMA OverrideWritten ==
  ASSUME NEW r \in Row, NEW model \in DOMAIN r.models, NEW enabled \in BOOLEAN,
         NEW price \in {"same", "none", "manual"}
  PROVE  LET written == WriteOverride(r, model, enabled, price)
         IN /\ written \in Row /\ PatchOf(written) = PatchOf(r)
            /\ written.enabled = r.enabled /\ written.revision = r.revision
            /\ written.identity = r.identity
<1> DEFINE old == r.models
           one == [old[model] EXCEPT !.enabled = enabled,
                                     !.price = IF price = "same" THEN @ ELSE price]
           models == [old EXCEPT ![model] = one]
<1>1. PICK S \in SUBSET Models : old \in [S -> ModelRow]
  BY Zenon DEF Row, ModelRows
<1>2. one \in ModelRow
  BY <1>1, Zenon DEF ModelRow
<1>3. models \in [S -> ModelRow]
  <2> HIDE DEF one
  <2> QED
    BY <1>1, <1>2, Zenon
<1>4. models \in ModelRows
  <2> HIDE DEF models
  <2> QED
    BY <1>3, Zenon DEF ModelRows
<1>5. WriteOverride(r, model, enabled, price) = [r EXCEPT !.models = models]
  BY Zenon DEF WriteOverride
<1> HIDE DEF models
<1>6. [r EXCEPT !.models = models] \in Row
  BY <1>4, Zenon DEF Row
<1> QED
  BY <1>5, <1>6, Zenon DEF Row, PatchOf

\* create_account's row: revision 0 of login 0.
LEMMA AccountInserted ==
  ASSUME NEW patch \in Patch, NEW found \in SUBSET Models
  PROVE  LET written == [NewAccount(patch) EXCEPT !.models = WriteModels(@, found, TRUE, TRUE)]
         IN /\ written \in Row /\ written.revision = 0 /\ written.identity = 0
            /\ written.enabled
<1> DEFINE new == NewAccount(patch)
<1>1. NoModels \in ModelRows
  BY DEF NoModels, ModelRows
<1>2. new \in Row /\ new.revision = 0 /\ new.identity = 0 /\ new.enabled
  BY <1>1, Zenon DEF NewAccount, Row, Patch
<1>3. WriteModels(new.models, found, TRUE, TRUE) \in ModelRows
  BY <1>2, ModelsWritten, Zenon DEF Row
<1> DEFINE models == WriteModels(new.models, found, TRUE, TRUE)
<1>4. [new EXCEPT !.models = models] \in Row
  <2> HIDE DEF new, models
  <2> QED
    BY <1>2, <1>3, Zenon DEF Row, models
<1> HIDE DEF new
<1>5. /\ [new EXCEPT !.models = models].revision = 0 /\ [new EXCEPT !.models = models].identity = 0
      /\ [new EXCEPT !.models = models].enabled
  BY <1>2, Zenon DEF Row
<1> QED
  BY <1>4, <1>5, Zenon DEF new

LEMMA FirstPatchMade == FirstPatch \in Patch /\ Patches \subseteq Patch
<1>1. FirstPatch.config \in Configs
  BY ManagementAssumption, Zenon DEF FirstPatch
<1>2. FirstPatch \in Patch
  BY <1>1, Zenon DEF FirstPatch, Patch, Visibilities
<1>3. Patches \subseteq Patch
  BY DEF Patches, Patch, Visibilities
<1> QED
  BY <1>2, <1>3, Zenon

\* A rebuilt or a refreshed object has the credential of its row.
LEMMA ObjectMade ==
  ASSUME NEW r \in Row
  PROVE  /\ ObjectOf(r) \in Object /\ ObjectOf(r).revision = r.revision
         /\ ObjectOf(r).identity = r.identity /\ ObjectOf(r).seen.revision = -1
BY DEF ObjectOf, Row, Object, Observation

-----------------------------------------------------------------------------
(* What a step may do to the account while another process works on it. *)

\* Where a process is, and what it does, tell what it holds.
LEMMA JobKinds ==
  ASSUME NEW p \in Job
  PROVE  /\ p.pc = "idle" => p = Idle
         /\ p.pc \in {"gate", "loaded", "publish", "remove"} /\ p.op \in Editing => p \in EditJob
         /\ p.pc \in {"gate", "loaded", "publish"} /\ p.op = "model" => p \in ModelJob
         /\ p.pc = "gate" /\ p.op = "quota" => p \in QuotaJob
         /\ p.pc = "gate" => p \in EditJob \cup ModelJob \cup QuotaJob
         /\ p.pc \in {"loaded", "publish"} => p \in EditJob \cup ModelJob
         /\ p.pc = "remove" => p \in EditJob
         /\ p.pc \in {"fetch", "store"} => p \in QuotaJob
         /\ p.pc = "listing" => p \in ListJob
         /\ p.pc = "prepared" => p \in CreateJob
         /\ p.pc = "install" => p \in InstallJob
<1>1. p = Idle => p.pc = "idle"
  BY DEF Idle
<1>2. p \in EditJob => p.pc \in {"gate", "loaded", "publish", "remove"} /\ p.op \in Editing
  BY Zenon DEF EditJob
<1>3. p \in ModelJob => p.pc \in {"gate", "loaded", "publish"} /\ p.op = "model"
  BY Zenon DEF ModelJob
<1>4. p \in QuotaJob => p.pc \in {"gate", "fetch", "store"} /\ p.op = "quota"
  BY Zenon DEF QuotaJob
<1>5. p \in ListJob => p.pc = "listing"
  BY Zenon DEF ListJob
<1>6. p \in CreateJob => p.pc = "prepared"
  BY Zenon DEF CreateJob
<1>7. p \in InstallJob => p.pc = "install"
  BY Zenon DEF InstallJob
<1>8. p = Idle \/ p \in EditJob \/ p \in ModelJob \/ p \in QuotaJob \/ p \in ListJob
        \/ p \in CreateJob \/ p \in InstallJob
  BY Zenon DEF Job
<1> QED
  BY <1>1, <1>2, <1>3, <1>4, <1>5, <1>6, <1>7, <1>8, Zenon DEF Editing

\* The login of a credential revision is never rewritten.
Grows ==
  \A v \in DOMAIN identityOf : v \in DOMAIN identityOf' /\ identityOf'[v] = identityOf[v]

\* What the processes without the gate may do to the row.
SameAccount ==
  \/ row' = row
  \/ /\ row \in Row /\ row' \in Row
     /\ row'.enabled = row.enabled /\ RouteOf(row') = RouteOf(row)
     /\ row'.identity = row.identity /\ row.revision <= row'.revision

\* What every step but create_account's commit may do to it.
RowGrows == row' \in Row => row \in Row /\ row.revision <= row'.revision

\* A view that becomes known is a new one.
CacheMoves ==
  \/ cache' = NoEntry \/ cache'.error \/ cache'.snapshot.fetch > fetches
  \/ /\ cache \in Entry /\ cache'.error = cache.error /\ cache'.attempt = cache.attempt
     /\ cache'.revision = cache.revision /\ cache'.snapshot.fetch = cache.snapshot.fetch

Fetches == fetches' \in Nat /\ fetches <= fetches'

LEMMA BackedKeeps ==
  ASSUME NEW revision, NEW identity, Grows, Backed(revision, identity)
  PROVE  Backed(revision, identity)'
BY Zenon DEF Grows, Backed

LEMMA EntryKeeps ==
  ASSUME NEW e \in Cached, TypeOK, Grows, Fetches, EntryOK(e)
  PROVE  EntryOK(e)'
<1>1. CASE e = NoEntry \/ e.snapshot = NoSnapshot
  BY <1>1, Zenon DEF EntryOK
<1>2. CASE e # NoEntry /\ e.snapshot # NoSnapshot
  <2>1. e.snapshot \in Snapshot
    BY <1>2, Zenon DEF Cached, Entry
  <2>2. e.snapshot.fetch <= fetches'
    BY <1>2, <2>1 DEF EntryOK, Snapshot, TypeOK, Fetches
  <2> QED
    BY <1>2, <2>2, BackedKeeps, Zenon DEF EntryOK
<1> QED
  BY <1>1, <1>2, Zenon

\* A process that does not move keeps what it knows of the account.
LEMMA JobKeeps ==
  ASSUME NEW p \in Job, TypeOK, TypeOK', JobOK(p), Grows, Fetches, RowGrows, CacheMoves,
         Holds(p) => SameAccount
  PROVE  JobOK(p)'
<1> USE DEF Fetches
<1>1. p.pc \in {"loaded", "fetch", "store"} => Current(p.current)'
  <2> SUFFICES ASSUME p.pc \in {"loaded", "fetch", "store"}
               PROVE  Current(p.current)'
    BY Zenon
  <2>1. Current(p.current) /\ SameAccount
    BY Zenon DEF Holds, JobOK
  <2>2. Backed(p.current.revision, p.current.identity)'
    BY <2>1, BackedKeeps, Zenon DEF Current
  <2>3. p.current \in Row
    BY <2>1, JobKinds, Zenon DEF Current, EditJob, ModelJob, QuotaJob
  <2>4. CASE row' = row
    BY <2>1, <2>2, <2>4, Zenon DEF Current
  <2>5. CASE row' # row
    <3>1. /\ row' # NoRow /\ PatchOf(row') = PatchOf(row) /\ row'.identity = row.identity
          /\ row.revision <= row'.revision /\ row \in Row /\ row' \in Row
      BY <2>1, <2>5, Absent, Zenon DEF SameAccount, RouteOf, PatchOf
    <3>2. p.current.revision <= row'.revision
      BY <2>1, <2>3, <3>1, Columns DEF Current
    <3> QED
      BY <2>1, <2>2, <3>1, <3>2, Zenon DEF Current
  <2> QED
    BY <2>4, <2>5, Zenon
<1>2. p.pc = "publish" => row' # NoRow /\ p.op \in {"update", "model"}
  BY Absent, Zenon DEF JobOK, Holds, SameAccount
<1>3. p.pc = "remove" => row' = NoRow
  BY Absent, Zenon DEF JobOK, Holds, SameAccount
<1>4. p.pc = "listing" => Backed(p.revision, p.identity)'
  BY BackedKeeps, Zenon DEF JobOK
<1>5. p.pc = "install" => /\ Backed(p.row.revision, p.row.identity)'
                          /\ p.op # "create" => Written(p.row)'
  <2>1. p.pc = "install" => Backed(p.row.revision, p.row.identity)'
    BY BackedKeeps, Zenon DEF JobOK
  <2>2. p.pc = "install" /\ p.op # "create" => Written(p.row)'
    BY Absent, Zenon DEF JobOK, Holds, SameAccount, Written
  <2> QED
    BY <2>1, <2>2, Zenon
<1>6. p.pc \in {"gate", "fetch", "store"} /\ p.op = "quota" => Asked(p)'
  <2> SUFFICES ASSUME p.pc \in {"gate", "fetch", "store"}, p.op = "quota"
               PROVE  Asked(p)'
    BY Zenon
  <2>1. Asked(p) /\ p.fetches \in Nat /\ p.revision \in Nat /\ p.attempt \in Nat
    BY JobKinds, Zenon DEF JobOK, QuotaJob
  <2>2. p.fetches <= fetches'
    BY <2>1 DEF Asked, TypeOK
  <2>3. row' # NoRow => p.revision <= row'.revision
    <3> SUFFICES ASSUME row' # NoRow
                 PROVE  p.revision <= row'.revision
      BY Zenon
    <3>1. row' \in Row /\ row \in Row /\ row # NoRow /\ row.revision <= row'.revision
      BY Absent, Zenon DEF TypeOK, RowGrows
    <3> QED
      BY <2>1, <3>1, Columns DEF Asked
  <2>4. Outrun(p)'
    <3> SUFFICES ASSUME cache' # NoEntry, ~cache'.error, cache'.snapshot.fetch <= p.fetches
                 PROVE  cache'.attempt <= p.attempt /\ cache'.revision <= p.revision
      BY Zenon DEF Outrun
    <3>1. cache' \in Entry /\ cache'.snapshot \in Snapshot \cup {NoSnapshot}
      BY Zenon DEF TypeOK, Cached, Entry
    <3>2. cache'.snapshot.fetch \in Nat
      BY <3>1 DEF Snapshot, NoSnapshot
    <3>3. ~(cache'.snapshot.fetch > fetches)
      BY <2>1, <3>2 DEF Asked, TypeOK
    <3> QED
      BY <2>1, <3>3, Absent, Zenon DEF CacheMoves, Asked, Outrun
  <2> QED
    BY <2>2, <2>3, <2>4, Zenon DEF Asked
<1>7. p.pc \in {"fetch", "store"} => EntryOK(p.cached)'
  BY JobKinds, EntryKeeps, Zenon DEF JobOK, QuotaJob
<1>8. p.pc = "store" /\ p.result # NoObject => Backed(p.result.revision, p.result.identity)'
  BY BackedKeeps, Zenon DEF JobOK
<1> QED
  BY <1>1, <1>2, <1>3, <1>4, <1>5, <1>6, <1>7, <1>8, Zenon DEF JobOK

\* The row's credential is the newest of the account: what is written next is newer still.
LEMMA Revised ==
  ASSUME IdentityInv, row \in Row \cup {NoRow}, row' \in Row, identityOf' = Revision(row'),
         \/ row \in Row /\ row'.revision = row.revision /\ row'.identity = row.identity
         \/ row \in Row /\ row'.revision = row.revision + 1
         \/ DOMAIN identityOf = {}
  PROVE  IdentityInv' /\ Grows
<1> DEFINE old == identityOf
           n == row'.revision
           i == row'.identity
           D == DOMAIN old \cup {n}
<1>1. n \in Nat /\ i \in Nat
  BY Columns, Zenon
<1>2. identityOf' = [v \in D |-> IF v = n THEN i ELSE old[v]]
  BY Zenon DEF Revision
<1>3. \A v \in DOMAIN old : v \in Nat /\ old[v] \in Nat
  BY Zenon DEF IdentityInv
<1>4. \A v \in DOMAIN old : v <= n /\ (v = n => old[v] = i)
  <2>1. CASE row \in Row
    <3>1. /\ row # NoRow /\ row.revision \in Nat /\ Backed(row.revision, row.identity)
          /\ \A v \in DOMAIN old : v <= row.revision
      BY <2>1, Absent, Columns, Zenon DEF IdentityInv
    <3>2. CASE n = row.revision /\ i = row.identity
      BY <3>1, <3>2, Zenon DEF Backed
    <3>3. CASE n = row.revision + 1
      BY <1>3, <3>1, <3>3
    <3> QED
      BY <3>1, <3>2, <3>3, Zenon
  <2>2. CASE DOMAIN old = {}
    BY <2>2, Zenon
  <2> QED
    BY <2>1, <2>2, Zenon
<1> HIDE DEF n, i
<1>5. Grows
  BY <1>2, <1>4, Zenon DEF Grows
<1>6. DOMAIN identityOf' = D /\ identityOf' \in [D -> Nat] /\ D \subseteq Nat
  BY <1>1, <1>2, <1>3, Zenon
<1>7. Backed(row.revision, row.identity)'
  BY <1>2, Zenon DEF Backed, n, i
<1>8. \A v \in DOMAIN identityOf' : v <= n
  BY <1>1, <1>4, <1>6
<1> QED
  BY <1>5, <1>6, <1>7, <1>8, Zenon DEF IdentityInv, n

\* A step that writes no credential.
LEMMA SameCredential ==
  ASSUME IdentityInv, identityOf' = identityOf,
         \/ row' = row \/ row' = NoRow
         \/ row # NoRow /\ row'.revision = row.revision /\ row'.identity = row.identity
  PROVE  IdentityInv' /\ Grows
BY Zenon DEF IdentityInv, Grows, Backed

LEMMA ObjectKeeps ==
  ASSUME ObjectInv, Grows, UNCHANGED <<object, flight>>
  PROVE  ObjectInv'
BY BackedKeeps, Zenon DEF ObjectInv

\* An object built from a row, or none.
LEMMA ObjectBuilt ==
  ASSUME NEW r \in Row, Backed(r.revision, r.identity)', object' \in {ObjectOf(r), NoObject},
         flight' = NoFlight \/ ~flight'.current
  PROVE  ObjectInv'
BY ObjectMade, Zenon DEF ObjectInv

LEMMA QuotaKeeps ==
  ASSUME TypeOK, QuotaInv, Grows, Fetches, UNCHANGED <<misfiled, outdated>>, cache' \in {cache, NoEntry}
  PROVE  QuotaInv' /\ (cache' = cache => CacheMoves) /\ (cache' = NoEntry => CacheMoves)
<1>1. PICK e : e = cache
  BY Zenon
<1>2. EntryOK(e)'
  BY <1>1, EntryKeeps, Zenon DEF TypeOK, QuotaInv
<1>3. EntryOK(NoEntry)'
  BY Zenon DEF EntryOK
<1> QED
  BY <1>1, <1>2, <1>3 DEF QuotaInv, TypeOK, Cached, CacheMoves, EntryOK

\* One process holds the gate.
LEMMA OneHolder ==
  ASSUME JobInv, NEW x \in Processes, Holds(proc[x])
  PROVE  \A y \in Processes \ {x} : ~Holds(proc[y])
BY Zenon DEF JobInv

\* One process moves.
LEMMA JobsKeep ==
  ASSUME TypeOK, TypeOK', JobInv, Grows, Fetches, RowGrows, CacheMoves,
         NEW x \in Processes, NEW p \in Job, proc' = [proc EXCEPT ![x] = p],
         JobOK(p)', Holds(p) => gate' = x,
         \A y \in Processes \ {x} : Holds(proc[y]) /\ gate = y => gate' = y /\ SameAccount
  PROVE  JobInv'
<1> SUFFICES ASSUME NEW y \in Processes
             PROVE  (JobOK(proc[y]) /\ (Holds(proc[y]) => gate = y))'
  BY Zenon DEF JobInv
<1>1. PICK q : q = proc'[y]
  BY Zenon
<1>2. CASE y = x
  <2>1. q = p
    BY <1>1, <1>2, Zenon DEF TypeOK
  <2> QED
    BY <1>1, <1>2, <2>1, Zenon
<1>3. CASE y # x
  <2>1. q = proc[y] /\ q \in Job
    BY <1>1, <1>3, Zenon DEF TypeOK
  <2>2. JobOK(q) /\ (Holds(q) => gate = y)
    BY <2>1, Zenon DEF JobInv
  <2>3. Holds(q) => SameAccount /\ gate' = y
    BY <1>3, <2>1, <2>2, Zenon
  <2>4. JobOK(q)'
    BY <2>1, <2>2, <2>3, JobKeeps, Zenon
  <2> QED
    BY <1>1, <2>3, <2>4, Zenon
<1> QED
  BY <1>2, <1>3, Zenon

\* No process moves.
LEMMA JobsStay ==
  ASSUME TypeOK, TypeOK', JobInv, Grows, Fetches, RowGrows, CacheMoves, SameAccount,
         proc' = proc, gate' = gate
  PROVE  JobInv'
<1> SUFFICES ASSUME NEW y \in Processes
             PROVE  (JobOK(proc[y]) /\ (Holds(proc[y]) => gate = y))'
  BY Zenon DEF JobInv
<1>1. PICK q : q = proc[y]
  BY Zenon
<1>2. q \in Job /\ JobOK(q) /\ (Holds(q) => gate = y)
  BY <1>1, Zenon DEF TypeOK, JobInv
<1>3. JobOK(q)'
  BY <1>2, JobKeeps, Zenon
<1> QED
  BY <1>1, <1>2, <1>3, Zenon

\* An operation ends: the result of a login is that of its last step.
LEMMA Ended ==
  ASSUME TypeOK, LoginInv, NEW x \in Processes, NEW result, End(x, result), ~At(x, "idle"),
         x = Login => result = IF At(Login, "install") THEN "completed" ELSE "failed"
  PROVE  /\ proc' = [proc EXCEPT ![x] = Idle] /\ proc' \in [Processes -> Job]
         /\ login' \in Session \cup {NoLogin} /\ LoginInv'
         /\ login' # NoLogin => login # NoLogin /\ login'.target = login.target
         /\ \A y \in Processes \ {x} : gate = y => gate' = y
<1>1. proc' = [proc EXCEPT ![x] = Idle] /\ proc' \in [Processes -> Job]
  BY Zenon DEF End, TypeOK, Job
<1>2. \A y \in Processes \ {x} : gate = y => gate' = y
  BY Zenon DEF End, Release
<1>3. Login \in Processes
  BY Zenon DEF Processes
<1>4. CASE x # Login
  <2>1. login' = login /\ proc'[Login] = proc[Login]
    BY <1>1, <1>3, <1>4, Zenon DEF End, TypeOK
  <2> QED
    BY <1>1, <1>2, <2>1, Zenon DEF LoginInv, TypeOK, At
<1>5. CASE x = Login
  <2>1. login \in Session /\ login # NoLogin /\ login.status = "provisioning"
    BY <1>5, Zenon DEF LoginInv, TypeOK
  <2>2. login' = [login EXCEPT !.status = result]
    BY <1>5, <2>1, Zenon DEF End, Finished
  <2>3. result \in {"completed", "failed"}
    BY <1>5, Zenon
  <2>4. /\ login' \in Session /\ login' # NoLogin /\ login'.status = result
        /\ login'.effects = login.effects /\ login'.target = login.target
    BY <2>1, <2>2, <2>3, Absent, Zenon DEF Session
  <2>5. proc'[Login] = Idle /\ Idle.pc = "idle"
    BY <1>1, <1>3, <1>5, Zenon DEF TypeOK, Idle
  <2>6. LoginInv'
    BY <1>5, <2>1, <2>3, <2>4, <2>5, Zenon DEF LoginInv, At
  <2> QED
    BY <1>1, <1>2, <2>1, <2>4, <2>6, Zenon
<1> QED
  BY <1>4, <1>5, Zenon

\* Nothing happens to the login session.
LEMMA LoginKeeps ==
  ASSUME LoginInv, login' = login, proc'[Login] = proc[Login]
  PROVE  LoginInv'
BY Zenon DEF LoginInv, At

\* Between its commit and its installation an operation is not quiet.
Quiet(p) == p.pc \notin {"install", "publish", "remove"}

\* The runtime and what it is to serve stay as they are.
LEMMA RunKeeps ==
  ASSUME TypeOK, TypeOK', RunInv, SameAccount, UNCHANGED <<route, broken>>, behind => behind',
         object' = NoObject <=> object = NoObject,
         \A y \in Processes : proc'[y] = proc[y] \/ (Quiet(proc[y]) /\ Quiet(proc'[y]))
  PROVE  RunInv'
<1> SUFFICES ASSUME ~behind', ~broken',
                    \A x \in Processes : proc'[x].pc \notin {"install", "remove"}
             PROVE  /\ \A x \in Processes : At(x, "publish")' => Serves(row, object, Published(proc[x]))'
                    /\ (\A x \in Processes : ~At(x, "publish")') => Serves(row, object, route)'
  BY Zenon DEF RunInv
<1>1. \A x \in Processes : proc[x].pc \notin {"install", "remove"}
  BY Zenon DEF Quiet
<1>2. /\ \A x \in Processes : At(x, "publish") => Serves(row, object, Published(proc[x]))
      /\ (\A x \in Processes : ~At(x, "publish")) => Serves(row, object, route)
  BY <1>1, Zenon DEF RunInv
<1>3. ASSUME NEW t, Serves(row, object, t)
      PROVE  Serves(row', object', t)
  BY <1>3, Absent, Zenon DEF SameAccount, Serves, TypeOK
<1>4. ASSUME NEW x \in Processes, At(x, "publish")'
      PROVE  Serves(row, object, Published(proc[x]))'
  <2>1. proc'[x] = proc[x] /\ At(x, "publish")
    BY <1>4, Zenon DEF At, Quiet
  <2>2. PICK t : t = Published(proc[x])
    BY Zenon
  <2>3. Published(proc[x])' = t
    BY <2>1, <2>2, Zenon DEF Published, SameAccount, RouteOf
  <2> QED
    BY <1>2, <1>3, <2>1, <2>2, <2>3, Zenon
<1>5. ASSUME \A x \in Processes : ~At(x, "publish")'
      PROVE  Serves(row, object, route)'
  <2>1. \A x \in Processes : ~At(x, "publish")
    BY <1>5, Zenon DEF At, Quiet
  <2>2. PICK t : t = route
    BY Zenon
  <2> QED
    BY <1>2, <1>3, <2>1, <2>2, Zenon
<1> QED
  BY <1>4, <1>5, Zenon

\* An operation that gives up, is answered or is dropped: whoever it was, the runtime is
\* left behind only if it had written the row.
LEMMA Quits ==
  ASSUME IInv, NEW x \in Processes, NEW result, End(x, result), ~At(x, "idle"),
         x = Login => result = "failed" /\ ~At(Login, "install"),
         UNCHANGED <<row, known, object, route, broken, flight, now, identityOf>>,
         cache' \in Cached, Fetches, CacheMoves, QuotaInv',
         behind \/ ~Quiet(proc[x]) => behind'
  PROVE  IInv'
<1> USE DEF IInv
<1>1. /\ proc' = [proc EXCEPT ![x] = Idle] /\ proc' \in [Processes -> Job]
      /\ login' \in Session \cup {NoLogin} /\ LoginInv'
      /\ login' # NoLogin => login # NoLogin /\ login'.target = login.target
      /\ \A y \in Processes \ {x} : gate = y => gate' = y
  BY Ended, Zenon
<1>2. TypeOK'
  BY <1>1, Zenon DEF TypeOK, Fetches
<1>3. IdentityInv' /\ Grows
  BY SameCredential, Zenon
<1>4. ObjectInv'
  BY <1>3, ObjectKeeps, Zenon
<1>5. JobInv'
  <2>1. Idle \in Job /\ ~Holds(Idle) /\ JobOK(Idle)'
    BY Zenon DEF Idle, Job, Holds, JobOK
  <2>2. RowGrows /\ SameAccount
    BY <1>2, Columns DEF RowGrows, SameAccount
  <2> QED
    BY <1>1, <1>2, <1>3, <2>1, <2>2, JobsKeep, Zenon
<1>6. KnownInv'
  BY <1>1, Zenon DEF KnownInv, TypeOK, Idle
<1>7. RunInv'
  <2>1. CASE ~Quiet(proc[x])
    BY <2>1, Zenon DEF RunInv
  <2>2. CASE Quiet(proc[x])
    <3>1. \A y \in Processes : proc'[y] = proc[y] \/ (Quiet(proc[y]) /\ Quiet(proc'[y]))
      BY <1>1, <2>2, Zenon DEF TypeOK, Quiet, Idle
    <3> QED
      BY <1>2, <3>1, RunKeeps, Zenon DEF SameAccount
  <2> QED
    BY <2>1, <2>2, Zenon
<1> QED
  BY <1>1, <1>2, <1>3, <1>4, <1>5, <1>6, <1>7, Zenon

LEMMA QuittersKeep ==
  ASSUME IInv, NEW x \in Processes, NotFound(x) \/ GiveUp(x) \/ Drop(x)
  PROVE  IInv'
<1>1. /\ UNCHANGED <<row, known, object, route, broken, flight, now, identityOf, cache, fetches,
                     misfiled, outdated>>
      /\ End(x, "failed") /\ ~At(x, "idle") /\ (x = Login => ~At(Login, "install"))
  <2>1. CASE NotFound(x)
    BY <2>1, Zenon DEF NotFound, Gated, At, runtime, bounds, history
  <2>2. CASE GiveUp(x)
    BY <2>2, Zenon DEF GiveUp, At, runtime, bounds, history
  <2>3. CASE Drop(x)
    BY <2>3, ManagementAssumption, Zenon DEF Drop, runtime, bounds, history
  <2> QED
    BY <2>1, <2>2, <2>3, Zenon
<1>2. behind \/ ~Quiet(proc[x]) => behind'
  <2>1. CASE NotFound(x)
    BY <2>1, Zenon DEF NotFound, Gated, At, Quiet
  <2>2. CASE GiveUp(x)
    BY <2>2, Zenon DEF GiveUp, At, Quiet
  <2>3. CASE Drop(x)
    BY <2>3, Zenon DEF Drop, Quiet
  <2> QED
    BY <2>1, <2>2, <2>3, Zenon
<1>3. Fetches /\ Grows
  BY <1>1 DEF Fetches, Grows, IInv, TypeOK
<1>4. cache' \in Cached /\ CacheMoves /\ QuotaInv'
  BY <1>1, <1>3, QuotaKeeps, Zenon DEF IInv, TypeOK
<1> QED
  BY <1>1, <1>2, <1>3, <1>4, Quits, Zenon

-----------------------------------------------------------------------------
(* Operations start, and go on without writing what the runtime serves. *)

LEMMA Goes ==
  ASSUME IInv, NEW x \in Processes, NEW p \in Job, proc' = [proc EXCEPT ![x] = p],
         Quiet(proc[x]), Quiet(p), known \/ p.pc = "prepared",
         UNCHANGED <<known, object, route, broken, login, flight, now, behind>>,
         row' \in Row \cup {NoRow}, SameAccount, known \/ UNCHANGED <<row, identityOf>>,
         IdentityInv', Grows, cache' \in Cached, Fetches, CacheMoves, QuotaInv',
         JobOK(p)', Holds(p) => gate' = x,
         \A y \in Processes \ {x} : Holds(proc[y]) /\ gate = y => gate' = y,
         LoginInv'
  PROVE  IInv'
<1> USE DEF IInv
<1>1. TypeOK'
  BY Zenon DEF TypeOK, Fetches
<1>2. ObjectInv'
  BY ObjectKeeps, Zenon
<1>3. JobInv'
  <2>1. RowGrows
    BY Absent, Columns DEF SameAccount, RowGrows
  <2> QED
    BY <1>1, <2>1, JobsKeep, Zenon
<1>4. KnownInv'
  BY Zenon DEF KnownInv, TypeOK
<1>5. RunInv'
  <2>1. \A y \in Processes : proc'[y] = proc[y] \/ (Quiet(proc[y]) /\ Quiet(proc'[y]))
    BY Zenon DEF TypeOK
  <2> QED
    BY <1>1, <2>1, RunKeeps, Zenon
<1> QED
  BY <1>1, <1>2, <1>3, <1>4, <1>5, Zenon

\* An operation that starts works on an account that is there, or creates it; it holds
\* nothing yet.
LEMMA Starting ==
  ASSUME IInv, NEW x \in Handlers \cup {Sweep}, NEW p \in Job, Start(x, p),
         row.present \/ p.pc = "prepared", p.pc \in {"gate", "listing", "prepared"},
         fetches' = fetches, cache' \in Cached, CacheMoves, QuotaInv', JobOK(p)'
  PROVE  IInv'
<1> USE DEF IInv
<1>1. x \in Processes /\ x # Login
  BY ManagementAssumption, Zenon DEF Processes, Login, Sweep
<1>2. /\ proc' = [proc EXCEPT ![x] = p] /\ At(x, "idle")
      /\ UNCHANGED <<row, known, object, route, broken, gate, login, flight, now, behind, identityOf>>
  BY Zenon DEF Start, runtime, bounds, history
<1>3. known \/ p.pc = "prepared"
  BY Absent, Zenon DEF KnownInv, TypeOK
<1>4. Quiet(proc[x]) /\ Quiet(p) /\ ~Holds(p)
  BY <1>2, Zenon DEF Quiet, At, Holds
<1>5. proc'[Login] = proc[Login]
  BY <1>1, <1>2, Zenon DEF TypeOK, Processes
<1>6. LoginInv'
  BY <1>2, <1>5, LoginKeeps, Zenon
<1>7. IdentityInv' /\ Grows
  BY <1>2, SameCredential, Zenon
<1>8. Fetches /\ SameAccount /\ row' \in Row \cup {NoRow}
  BY <1>2 DEF Fetches, TypeOK, SameAccount
<1> QED
  BY <1>1, <1>2, <1>3, <1>4, <1>6, <1>7, <1>8, Goes, Zenon

\* The editing operations, create_account and list_accounts.
LEMMA StartsKeep ==
  ASSUME IInv,
         \/ \E h \in Handlers : \/ StartUpdate(h) \/ StartEdit(h) \/ StartUpdateModel(h)
                                \/ StartCreate(h) \/ StartList(h)
         \/ StartSweep
  PROVE  IInv'
<1>1. PICK x \in Handlers \cup {Sweep}, p \in EditJob \cup ModelJob \cup CreateJob \cup ListJob :
        /\ Start(x, p) /\ UNCHANGED <<cache, fetches>>
        /\ row.present \/ p.pc = "prepared"
        /\ \/ /\ p.pc = "gate" /\ p.op # "quota" /\ p \in EditJob \cup ModelJob
           \/ p.pc = "prepared" /\ p \in CreateJob
           \/ p.pc = "listing" /\ p \in ListJob /\ p.revision = row.revision /\ p.identity = row.identity
  <2>1. row.present => row \in Row /\ PatchOf(row) \in Patch
    BY Absent, RowWritten, Zenon DEF IInv, TypeOK
  <2>2. ASSUME NEW op \in Editing, NEW patch \in Patch
        PROVE  [pc |-> "gate", op |-> op, patch |-> patch, current |-> NoRow] \in EditJob
    BY Zenon DEF EditJob
  <2>3. CASE \E h \in Handlers : StartUpdate(h)
    <3>1. PICK h \in Handlers, op \in {"update", "both"}, patch \in Patches :
            /\ row.present
            /\ Start(h, [pc |-> "gate", op |-> op, patch |-> patch, current |-> NoRow])
            /\ UNCHANGED <<cache, fetches>>
      BY <2>3, Zenon DEF StartUpdate
    <3>2. op \in Editing /\ patch \in Patch /\ op # "quota"
      BY FirstPatchMade, Zenon DEF Editing
    <3> QED
      BY <2>2, <3>1, <3>2, Zenon
  <2>4. CASE \E h \in Handlers : StartEdit(h)
    <3>1. PICK h \in Handlers, op \in {"replace", "enable", "disable", "refresh", "delete"} :
            /\ row.present
            /\ Start(h, [pc |-> "gate", op |-> op, patch |-> PatchOf(row), current |-> NoRow])
            /\ UNCHANGED <<cache, fetches>>
      BY <2>4, Zenon DEF StartEdit
    <3>2. op \in Editing /\ op # "quota"
      BY Zenon DEF Editing
    <3> QED
      BY <2>1, <2>2, <3>1, <3>2, Zenon
  <2>5. CASE \E h \in Handlers : StartUpdateModel(h)
    <3>1. PICK h \in Handlers, m \in Models, enabled \in BOOLEAN, price \in {"same", "none", "manual"} :
            /\ row.present
            /\ Start(h, [pc |-> "gate", op |-> "model", model |-> m, enabled |-> enabled,
                         price |-> price, current |-> NoRow])
            /\ UNCHANGED <<cache, fetches>>
      BY <2>5, Zenon DEF StartUpdateModel
    <3>2. [pc |-> "gate", op |-> "model", model |-> m, enabled |-> enabled,
           price |-> price, current |-> NoRow] \in ModelJob
      BY Zenon DEF ModelJob
    <3> QED
      BY <3>1, <3>2, Zenon
  <2>6. CASE \E h \in Handlers : StartCreate(h)
    <3>1. [pc |-> "prepared", op |-> "create", patch |-> FirstPatch] \in CreateJob
      BY FirstPatchMade, Zenon DEF CreateJob
    <3> QED
      BY <2>6, <3>1, Zenon DEF StartCreate
  <2>7. CASE \E h \in Handlers : StartList(h)
    <3>1. PICK h \in Handlers :
            /\ row.present
            /\ Start(h, [pc |-> "listing", op |-> "list", revision |-> row.revision,
                         identity |-> row.identity])
            /\ UNCHANGED <<cache, fetches>>
      BY <2>7, Zenon DEF StartList
    <3>2. [pc |-> "listing", op |-> "list", revision |-> row.revision,
           identity |-> row.identity] \in ListJob
      BY <2>1, <3>1, Columns, Zenon DEF ListJob
    <3> QED
      BY <3>1, <3>2
  <2>8. CASE StartSweep
    <3>1. [pc |-> "gate", op |-> "sweep", patch |-> PatchOf(row), current |-> NoRow] \in EditJob
      BY <2>1, <2>2, <2>8, Zenon DEF StartSweep, Editing
    <3> QED
      BY <2>8, <3>1, Zenon DEF StartSweep
  <2> QED
    BY <2>3, <2>4, <2>5, <2>6, <2>7, <2>8, Zenon
<1>2. p \in Job
  BY <1>1, Zenon DEF Job
<1>3. fetches' \in Nat /\ fetches <= fetches' /\ UNCHANGED <<identityOf, misfiled, outdated>>
  BY <1>1 DEF Start, history, IInv, TypeOK
<1>4. Grows /\ Fetches
  BY <1>3, Zenon DEF Grows, Fetches
<1>5. cache' \in Cached /\ CacheMoves /\ QuotaInv'
  BY <1>1, <1>3, <1>4, QuotaKeeps, Zenon DEF IInv, TypeOK
<1>6. JobOK(p)'
  <2>1. CASE p.pc \in {"gate", "prepared"} /\ p.op # "quota"
    BY <2>1, Zenon DEF JobOK
  <2>2. CASE p.pc = "listing" /\ row.present
    <3>1. Backed(p.revision, p.identity)
      BY <1>1, <2>2, Absent, Zenon DEF IInv, IdentityInv, TypeOK
    <3> QED
      BY <1>4, <2>2, <3>1, BackedKeeps, Zenon DEF JobOK
  <2> QED
    BY <1>1, <2>1, <2>2, Zenon DEF CreateJob
<1> QED
  BY <1>1, <1>2, <1>4, <1>5, <1>6, Starting, Zenon

-----------------------------------------------------------------------------
(* The quota of the account. *)

\* The object's observation is of the login of its revision.
LEMMA SeenSound ==
  ASSUME IInv, NEW v \in Nat, Seen.revision = v
  PROVE  /\ Seen.generation \in Nat /\ Seen.identity \in Nat /\ Backed(v, Seen.identity)
<1>1. object \in Object /\ Seen = object.seen
  BY DEF Seen, NoObservation, IInv, TypeOK
<1>2. object.seen \in Observation /\ object.seen.revision # -1
  BY <1>1 DEF Object
<1>3. Backed(v, Seen.identity)
  BY <1>1, <1>2, Absent, Zenon DEF IInv, ObjectInv
<1> QED
  BY <1>1, <1>2, <1>3, Zenon DEF Observation

\* cached_quota_entry_with_observation: the entry of the revision, or none.
LEMMA CachedRead ==
  ASSUME IInv, NEW v \in Nat, NEW e, e = CachedEntry(cache, v, Seen)
  PROVE  /\ e \in Cached /\ EntryOK(e)
         /\ \/ e = NoEntry
            \/ /\ cache \in Entry /\ e \in Entry /\ cache.revision = v /\ e.revision = v
               /\ e.error = cache.error /\ e.attempt = cache.attempt
               /\ e.snapshot.fetch = cache.snapshot.fetch
               /\ e.snapshot = NoSnapshot <=> cache.snapshot = NoSnapshot
<1>1. CASE cache.revision # v
  BY <1>1, Zenon DEF CachedEntry, Cached, EntryOK
<1>2. CASE cache.revision = v /\ ~Applies(cache, Seen)
  <2>1. e = cache
    BY <1>2, Zenon DEF CachedEntry, Applied
  <2>2. cache \in Entry
    BY <1>2 DEF IInv, TypeOK, Cached, NoEntry
  <2> QED
    BY <1>2, <2>1, <2>2, Zenon DEF IInv, QuotaInv, Cached
<1>3. CASE cache.revision = v /\ Applies(cache, Seen)
  <2>1. cache \in Entry /\ EntryOK(cache) /\ cache # NoEntry
    BY <1>3 DEF IInv, QuotaInv, TypeOK, Cached, NoEntry
  <2>2. Seen.generation \in Nat /\ Seen.identity \in Nat /\ Backed(v, Seen.identity)
    BY <1>3, SeenSound, Zenon DEF Applies
  <2> DEFINE s == cache.snapshot
             t == IF s = NoSnapshot THEN s ELSE [s EXCEPT !.merged = Seen.identity]
  <2>3. e = [cache EXCEPT !.generation = Seen.generation, !.snapshot = t]
    BY <1>3, Zenon DEF CachedEntry, Applied
  <2>4. /\ t \in Snapshot \cup {NoSnapshot} /\ t.fetch = s.fetch
        /\ t = NoSnapshot <=> s = NoSnapshot
        /\ s # NoSnapshot => t.identity = s.identity /\ t.merged = Seen.identity
    <3>1. CASE s = NoSnapshot
      BY <3>1, Zenon
    <3>2. CASE s # NoSnapshot
      <4>1. s \in Snapshot
        BY <2>1, <3>2, Zenon DEF Entry
      <4>2. [s EXCEPT !.merged = Seen.identity] \in Snapshot
        BY <2>2, <4>1, Zenon DEF Snapshot
      <4> QED
        BY <3>2, <4>1, <4>2, Absent, Zenon DEF Snapshot
    <3> QED
      BY <3>1, <3>2, Zenon
  <2> HIDE DEF t
  <2>5. e \in Entry
    BY <2>1, <2>2, <2>3, <2>4, Zenon DEF Entry
  <2>6. /\ e.revision = v /\ e.error = cache.error /\ e.attempt = cache.attempt /\ e.snapshot = t
    BY <1>3, <2>1, <2>3, Zenon DEF Entry
  <2>7. EntryOK(e)
    BY <1>3, <2>1, <2>2, <2>4, <2>6, Zenon DEF EntryOK
  <2> QED
    BY <1>3, <2>1, <2>4, <2>5, <2>6, <2>7, Zenon DEF Cached
<1> QED
  BY <1>1, <1>2, <1>3, Zenon

\* The cache takes in what CachedEntry makes of it.
LEMMA ReadsKeep ==
  ASSUME IInv, NEW v \in Nat, cache' = CachedEntry(cache, v, Seen), Grows, Fetches,
         ~misfiled', ~outdated'
  PROVE  cache' \in Cached /\ CacheMoves /\ QuotaInv'
<1>1. PICK e : e = CachedEntry(cache, v, Seen)
  BY Zenon
<1>2. /\ e \in Cached /\ EntryOK(e)
      /\ \/ e = NoEntry
         \/ /\ cache \in Entry /\ e.revision = cache.revision /\ e.error = cache.error
            /\ e.attempt = cache.attempt /\ e.snapshot.fetch = cache.snapshot.fetch
  BY <1>1, CachedRead
<1>3. EntryOK(e)'
  BY <1>2, EntryKeeps, Zenon DEF IInv
<1> QED
  BY <1>1, <1>2, <1>3, Zenon DEF CacheMoves, QuotaInv

\* An observation is persisted under the login of the revision it is applied to.
LEMMA FiledRight ==
  ASSUME IInv, NEW entry, NEW identity, Filed(entry, Seen, identity),
         entry # NoEntry => entry.revision \in Nat /\ Backed(entry.revision, identity)
  PROVE  ~misfiled'
<1>1. ASSUME entry # NoEntry, Applies(entry, Seen)
      PROVE  Seen.identity = identity
  <2>1. Backed(entry.revision, Seen.identity)
    BY <1>1, SeenSound, Zenon DEF Applies
  <2> QED
    BY <1>1, <2>1, Zenon DEF Backed
<1> QED
  BY <1>1, Zenon DEF Filed, IInv, QuotaInv

\* fetch_quota_view before the gate.
LEMMA StartQuotaKeeps ==
  ASSUME IInv, NEW h \in Handlers, StartQuota(h)
  PROVE  IInv'
<1>1. PICK e, mode :
        /\ mode \in {"automatic", "force"}
        /\ e = CachedEntry(cache, row.revision, Seen) /\ row.present
        /\ Start(h, [pc |-> "gate", op |-> "quota", mode |-> mode, now |-> now,
                     revision |-> row.revision, attempt |-> Attempt(e),
                     fetches |-> fetches, current |-> NoRow, cached |-> NoEntry, base |-> 0,
                     result |-> NoObject])
        /\ cache' = e /\ fetches' = fetches
  BY Zenon DEF StartQuota
<1>2. row \in Row /\ row.revision \in Nat
  BY <1>1, Absent, Columns, Zenon DEF IInv, TypeOK
<1>3. PICK p : p = [pc |-> "gate", op |-> "quota", mode |-> mode, now |-> now,
                    revision |-> row.revision, attempt |-> Attempt(e),
                    fetches |-> fetches, current |-> NoRow, cached |-> NoEntry, base |-> 0,
                    result |-> NoObject]
  BY Zenon
<1>4. /\ e \in Cached /\ EntryOK(e)
      /\ e = NoEntry \/ (e \in Entry /\ e.revision = row.revision)
  BY <1>1, <1>2, CachedRead, Zenon
<1>5. Attempt(e) \in Nat /\ (e # NoEntry => Attempt(e) = e.attempt)
  BY <1>4, Zenon DEF Attempt, Entry
<1>6. p \in QuotaJob
  BY <1>1, <1>2, <1>3, <1>5, Zenon DEF QuotaJob, IInv, TypeOK, Cached
<1>7. p \in Job /\ p.pc = "gate" /\ p.op = "quota"
  BY <1>3, <1>6, Zenon DEF Job
<1>8. UNCHANGED <<row, identityOf, misfiled, outdated>>
  BY <1>1, Zenon DEF Start, history
<1>9. Grows /\ Fetches
  BY <1>1, <1>8 DEF Grows, Fetches, IInv, TypeOK
<1>10. cache' \in Cached /\ CacheMoves /\ QuotaInv'
  BY <1>1, <1>2, <1>8, <1>9, ReadsKeep, Zenon DEF IInv, QuotaInv
<1>11. JobOK(p)'
  <2>1. p.fetches = fetches /\ p.revision = row.revision /\ p.attempt = Attempt(e)
    BY <1>3, Zenon
  <2>2. Asked(p)'
    BY <1>1, <1>2, <1>4, <1>5, <1>8, <2>1 DEF Asked, Outrun, IInv, TypeOK
  <2> QED
    BY <1>7, <2>2, Zenon DEF JobOK
<1> QED
  BY <1>1, <1>3, <1>7, <1>10, <1>11, Starting, Zenon

\* cached_quota of list_accounts.
LEMMA ListQuotaKeeps ==
  ASSUME IInv, NEW x \in Processes, ListQuota(x)
  PROVE  IInv'
<1>1. proc[x] \in ListJob /\ Backed(proc[x].revision, proc[x].identity)
  BY JobKinds, Zenon DEF ListQuota, At, IInv, TypeOK, JobInv, JobOK
<1>2. proc[x].revision \in Nat
  BY <1>1, Zenon DEF ListJob
<1>3. /\ UNCHANGED <<row, known, object, route, broken, flight, now, identityOf, fetches, outdated,
                     behind>>
      /\ cache' = CachedEntry(cache, proc[x].revision, Seen) /\ End(x, "failed")
      /\ Filed(IF cache.revision = proc[x].revision THEN cache ELSE NoEntry, Seen, proc[x].identity)
      /\ ~At(x, "idle") /\ Quiet(proc[x])
  BY Zenon DEF ListQuota, runtime, bounds, At, Quiet
<1>4. PICK entry, v, i : /\ entry = IF cache.revision = v THEN cache ELSE NoEntry
                         /\ v = proc[x].revision /\ i = proc[x].identity
  BY Zenon
<1>5. ~misfiled'
  <2>1. entry # NoEntry => entry.revision = v
    BY <1>4, Zenon
  <2> QED
    BY <1>1, <1>2, <1>3, <1>4, <2>1, FiledRight, Zenon
<1>6. Grows /\ Fetches /\ ~outdated'
  BY <1>3, SMTT(60) DEF Grows, Fetches, IInv, TypeOK, QuotaInv
<1>7. cache' \in Cached /\ CacheMoves /\ QuotaInv'
  BY <1>2, <1>3, <1>4, <1>5, <1>6, ReadsKeep, Zenon
<1>8. x = Login => ~At(Login, "install")
  BY Zenon DEF ListQuota, At
<1> QED
  BY <1>3, <1>6, <1>7, <1>8, Quits, Zenon

\* The gate is taken by one process: nobody else holds it.
LEMMA GateTaken ==
  ASSUME JobInv, gate = Free
  PROVE  \A y \in Processes : ~Holds(proc[y])
<1>1. Free \notin Processes
  BY ManagementAssumption, Zenon DEF Processes, Login, Sweep, Free
<1> QED
  BY <1>1, Zenon DEF JobInv

\* What a process reads once it has the gate is current.
LEMMA Loaded ==
  ASSUME IInv, row.present, UNCHANGED <<row, identityOf>>
  PROVE  row \in Row /\ known /\ Current(row)'
<1>1. row \in Row /\ row # NoRow
  BY Absent, Zenon DEF IInv, TypeOK
<1>2. row.revision \in Nat
  BY <1>1, Columns, Zenon
<1> QED
  BY <1>1, <1>2, Zenon DEF IInv, KnownInv, IdentityInv, Current, Backed

LEMMA EnterKeeps ==
  ASSUME IInv, NEW x \in Processes, Enter(x)
  PROVE  IInv'
<1>1. /\ UNCHANGED <<row, known, object, route, broken, cache, fetches, login, flight, now,
                     identityOf, misfiled, outdated, behind>>
      /\ row.present /\ gate = Free /\ gate' = x /\ proc[x].pc = "gate" /\ proc[x].op # "quota"
  BY Zenon DEF Enter, Gated, At, runtime, bounds, history
<1>2. PICK p : p = [proc[x] EXCEPT !.pc = "loaded", !.current = row]
  BY Zenon
<1>3. proc' = [proc EXCEPT ![x] = p]
  BY <1>2, Zenon DEF Enter
<1>4. row \in Row /\ known /\ Current(row)'
  BY <1>1, Loaded, Zenon
<1>5. proc[x] \in EditJob \cup ModelJob
  BY <1>1, JobKinds, Zenon DEF IInv, TypeOK, QuotaJob
<1>6. p \in EditJob \cup ModelJob /\ p.pc = "loaded" /\ p.current = row /\ p.op = proc[x].op
  <2>1. CASE proc[x] \in EditJob
    <3>1. p \in EditJob
      BY <1>2, <1>4, <2>1, Zenon DEF EditJob
    <3> QED
      BY <1>2, <2>1, <3>1, Zenon DEF EditJob
  <2>2. CASE proc[x] \in ModelJob
    <3>1. p \in ModelJob
      BY <1>2, <1>4, <2>2, Zenon DEF ModelJob
    <3> QED
      BY <1>2, <2>2, <3>1, Zenon DEF ModelJob
  <2> QED
    BY <1>5, <2>1, <2>2, Zenon
<1>7. p \in Job /\ Quiet(p) /\ Quiet(proc[x])
  BY <1>1, <1>6, Zenon DEF Job, Quiet
<1>8. JobOK(p)'
  BY <1>1, <1>4, <1>6, Zenon DEF JobOK
<1>9. Grows /\ Fetches /\ IdentityInv' /\ SameAccount /\ row' \in Row \cup {NoRow}
  BY <1>1, <1>4, SameCredential DEF Fetches, IInv, TypeOK, SameAccount
<1>10. cache' \in Cached /\ CacheMoves /\ QuotaInv'
  BY <1>1, <1>9, QuotaKeeps, Zenon DEF IInv, TypeOK
<1>11. \A y \in Processes \ {x} : Holds(proc[y]) /\ gate = y => gate' = y
  BY <1>1, GateTaken, Zenon DEF IInv
<1>12. LoginInv'
  <2>1. CASE x # Login
    <3>1. proc'[Login] = proc[Login]
      BY <1>3, <2>1, Zenon DEF IInv, TypeOK, Processes
    <3> QED
      BY <1>1, <3>1, LoginKeeps, Zenon DEF IInv
  <2>2. CASE x = Login
    <3>1. proc'[Login] = p
      BY <1>3, <2>2, Zenon DEF IInv, TypeOK
    <3> QED
      BY <1>1, <1>6, <2>2, <3>1, Zenon DEF IInv, LoginInv, At
  <2> QED
    BY <2>1, <2>2, Zenon
<1> QED
  BY <1>1, <1>3, <1>4, <1>7, <1>8, <1>9, <1>10, <1>11, <1>12, Goes, Zenon

\* The early returns of fetch_quota_view: a forced request is not answered with a view
\* that was cached before it.
LEMMA AnswersKeep ==
  ASSUME IInv, NEW x \in Processes, EnterQuota(x),
         AnswersFromCache(CachedEntry(cache, row.revision, Seen), proc[x].mode,
                          row.revision # proc[x].revision, proc[x].attempt, proc[x].now)
  PROVE  IInv'
<1> DEFINE e == CachedEntry(cache, row.revision, Seen)
           asked == proc[x]
<1>1. /\ UNCHANGED <<row, known, object, route, broken, fetches, flight, now, identityOf, behind>>
      /\ row.present /\ asked.pc = "gate" /\ asked.op = "quota" /\ cache' = e
      /\ Filed(IF e = NoEntry THEN e ELSE cache, Seen, row.identity)
      /\ Viewed(x, QuotaCacheView(e, asked.now)) /\ End(x, "completed")
  BY Zenon DEF EnterQuota, Gated, At, runtime, bounds
<1>2. row \in Row /\ row # NoRow /\ row.revision \in Nat /\ Backed(row.revision, row.identity)
  BY <1>1, Absent, Columns, Zenon DEF IInv, TypeOK, IdentityInv
<1>3. asked \in QuotaJob /\ Asked(asked)
  BY <1>1, JobKinds, Zenon DEF IInv, TypeOK, JobInv, JobOK
<1>4. /\ e \in Cached /\ EntryOK(e)
      /\ \/ e = NoEntry
         \/ /\ cache \in Entry /\ e \in Entry /\ cache.revision = row.revision
            /\ e.revision = row.revision
            /\ e.error = cache.error /\ e.attempt = cache.attempt
            /\ e.snapshot.fetch = cache.snapshot.fetch
            /\ e.snapshot = NoSnapshot <=> cache.snapshot = NoSnapshot
  BY <1>2, CachedRead
<1>5. ~misfiled'
  <2>1. PICK entry, i : entry = (IF e = NoEntry THEN e ELSE cache) /\ i = row.identity
    BY Zenon
  <2>2. entry # NoEntry => entry.revision \in Nat /\ Backed(entry.revision, i)
    BY <1>2, <1>4, <2>1, Zenon
  <2> QED
    BY <1>1, <2>1, <2>2, FiledRight, Zenon
<1>6. ~outdated'
  <2> SUFFICES ASSUME outdated'
               PROVE  FALSE
    BY Zenon
  <2> DEFINE view == QuotaCacheView(e, asked.now)
  <2>1. asked.mode = "force" /\ ~view.error /\ view.fetch # 0 /\ view.fetch <= asked.fetches
    BY <1>1, Zenon DEF Viewed, IInv, QuotaInv
  <2>2. e # NoEntry
    BY Zenon DEF AnswersFromCache
  <2>3. ~e.error /\ e.snapshot.fetch = view.fetch
    BY <2>1, <2>2, Zenon DEF QuotaCacheView
  <2>4. row.revision # asked.revision \/ e.attempt > asked.attempt
    BY <2>1, <2>3, Zenon DEF AnswersFromCache
  <2>5. cache # NoEntry /\ cache.attempt <= asked.attempt /\ cache.revision <= asked.revision
    BY <1>3, <1>4, <2>1, <2>2, <2>3, Absent, Zenon DEF Asked, Outrun
  <2>6. asked.revision <= row.revision
    BY <1>2, <1>3, Zenon DEF Asked
  <2>7. e.attempt = cache.attempt /\ cache.revision = row.revision
    BY <1>4, <2>2, Zenon
  <2>8. e.attempt \in Nat /\ asked.attempt \in Nat /\ asked.revision \in Nat
    BY <1>3, <1>4, <2>2, Zenon DEF Entry, QuotaJob
  <2> HIDE DEF e, asked
  <2> QED
    BY <1>2, <2>4, <2>5, <2>6, <2>7, <2>8
<1>7. Grows /\ Fetches
  BY <1>1 DEF Grows, Fetches, IInv, TypeOK
<1>8. cache' \in Cached /\ CacheMoves /\ QuotaInv'
  BY <1>1, <1>2, <1>5, <1>6, <1>7, ReadsKeep, Zenon
<1>9. x # Login
  BY <1>1, Zenon DEF IInv, LoginInv
<1> QED
  BY <1>1, <1>7, <1>8, <1>9, Quits, Zenon DEF At, Quiet

\* observation_generation_at_start.
LEMMA BaselineTyped ==
  ASSUME IInv, NEW e \in Cached, NEW v \in Nat
  PROVE  Baseline(e, v, Seen) \in Nat
<1>1. Seen.revision = v => Seen.generation \in Nat
  BY SeenSound, Zenon
<1>2. e # NoEntry => e.generation \in Nat
  BY Zenon DEF Cached, Entry
<1> QED
  BY <1>1, <1>2, Zenon DEF Baseline

\* fetch_quota_view goes on to the fetch.
LEMMA AsksKeep ==
  ASSUME IInv, NEW x \in Processes, EnterQuota(x),
         ~AnswersFromCache(CachedEntry(cache, row.revision, Seen), proc[x].mode,
                           row.revision # proc[x].revision, proc[x].attempt, proc[x].now)
  PROVE  IInv'
<1>1. PICK e : e = CachedEntry(cache, row.revision, Seen)
  BY Zenon
<1>2. PICK p : p = [proc[x] EXCEPT !.pc = "fetch", !.current = row, !.cached = e,
                                   !.base = Baseline(e, row.revision, Seen)]
  BY Zenon
<1>3. /\ UNCHANGED <<row, known, object, route, broken, fetches, login, flight, now, identityOf,
                     outdated, behind>>
      /\ row.present /\ proc[x].pc = "gate" /\ proc[x].op = "quota" /\ cache' = e
      /\ Filed(IF e = NoEntry THEN e ELSE cache, Seen, row.identity)
      /\ gate = Free /\ gate' = x /\ proc' = [proc EXCEPT ![x] = p]
  BY <1>1, <1>2, Zenon DEF EnterQuota, Gated, At, runtime, bounds
<1>4. row \in Row /\ known /\ Current(row)'
  BY <1>3, Loaded, Zenon
<1>5. row # NoRow /\ row.revision \in Nat /\ Backed(row.revision, row.identity)
  BY <1>4, Absent, Columns, Zenon DEF IInv, IdentityInv
<1>6. proc[x] \in QuotaJob /\ Asked(proc[x])
  BY <1>3, JobKinds, Zenon DEF IInv, TypeOK, JobInv, JobOK
<1>7. e \in Cached /\ EntryOK(e) /\ (e # NoEntry => cache.revision = row.revision)
  BY <1>1, <1>5, CachedRead, Zenon
<1>8. Baseline(e, row.revision, Seen) \in Nat
  BY <1>5, <1>7, BaselineTyped, Zenon
<1>9. p \in QuotaJob
  BY <1>2, <1>4, <1>6, <1>7, <1>8, Zenon DEF QuotaJob
<1>10. /\ p.pc = "fetch" /\ p.op = "quota" /\ p.current = row /\ p.cached = e
       /\ p.fetches = proc[x].fetches /\ p.revision = proc[x].revision
       /\ p.attempt = proc[x].attempt
  BY <1>2, <1>6, Zenon DEF QuotaJob
<1>11. ~misfiled'
  <2>1. PICK entry, i : entry = (IF e = NoEntry THEN e ELSE cache) /\ i = row.identity
    BY Zenon
  <2>2. entry # NoEntry => entry.revision \in Nat /\ Backed(entry.revision, i)
    BY <1>5, <1>7, <2>1, Zenon
  <2> QED
    BY <1>3, <2>1, <2>2, FiledRight, Zenon
<1>12. Grows /\ Fetches /\ IdentityInv' /\ SameAccount /\ row' \in Row \cup {NoRow} /\ ~outdated'
  BY <1>3, <1>4, SameCredential DEF Fetches, IInv, TypeOK, SameAccount, QuotaInv
<1>13. cache' \in Cached /\ CacheMoves /\ QuotaInv'
  BY <1>1, <1>3, <1>5, <1>11, <1>12, ReadsKeep, Zenon
<1>14. JobOK(p)'
  <2>1. PICK q : q = proc[x]
    BY Zenon
  <2>2. JobOK(q)'
    <3>1. q \in Job /\ JobOK(q) /\ ~Holds(q)
      BY <1>3, <2>1, Zenon DEF IInv, TypeOK, JobInv, Holds
    <3>2. RowGrows /\ TypeOK'
      <4>1. p \in Job
        BY <1>9, Zenon DEF Job
      <4> QED
        BY <1>3, <1>4, <1>5, <1>12, <1>13, <4>1 DEF RowGrows, IInv, TypeOK, Fetches
    <3> QED
      BY <1>12, <1>13, <3>1, <3>2, JobKeeps, Zenon DEF IInv
  <2>3. Asked(q)'
    BY <1>3, <2>1, <2>2, Zenon DEF JobOK
  <2>4. Asked(p)'
    BY <1>10, <2>1, <2>3, Zenon DEF Asked, Outrun
  <2>5. EntryOK(e)'
    BY <1>7, <1>12, EntryKeeps, Zenon DEF IInv
  <2>6. Current(p.current)'
    BY <1>3, <1>4, <1>10, Zenon DEF Current
  <2> QED
    BY <1>10, <2>4, <2>5, <2>6, Zenon DEF JobOK
<1>15. \A y \in Processes \ {x} : Holds(proc[y]) /\ gate = y => gate' = y
  BY <1>3, GateTaken, Zenon DEF IInv
<1>16. LoginInv'
  <2>1. x # Login
    BY <1>3, Zenon DEF IInv, LoginInv
  <2>2. proc'[Login] = proc[Login]
    BY <1>3, <2>1, Zenon DEF IInv, TypeOK, Processes
  <2> QED
    BY <1>3, <2>2, LoginKeeps, Zenon DEF IInv
<1>17. p \in Job /\ Quiet(p) /\ Quiet(proc[x])
  BY <1>3, <1>9, <1>10, Zenon DEF Job, Quiet
<1> QED
  BY <1>3, <1>4, <1>12, <1>13, <1>14, <1>15, <1>16, <1>17, Goes, Zenon

\* fetch_account_quota and fetch_detached_quota: what comes back is of the login of the
\* credential it was fetched with, and only that credential may have been refreshed.
LEMMA FetchKeeps ==
  ASSUME IInv, NEW x \in Processes, Fetch(x)
  PROVE  IInv'
<1>1. PICK current, result :
        /\ current = proc[x].current /\ proc[x].pc = "fetch"
        /\ result \in {NoObject} \cup FetchLive(current) \cup FetchDetached(current)
        /\ proc' = [proc EXCEPT ![x] = [@ EXCEPT !.pc = "store", !.result = result]]
        /\ row' = IF ~current.enabled /\ result.revision > current.revision THEN Swapped(row) ELSE row
  BY Zenon DEF Fetch, At
<1>2. /\ UNCHANGED <<known, object, route, broken, cache, fetches, gate, login, flight, now,
                     misfiled, outdated, behind>>
      /\ identityOf' = IF row.present THEN Revision(row') ELSE identityOf
  BY Zenon DEF Fetch, runtime, bounds
<1>3. /\ proc[x] \in QuotaJob /\ JobOK(proc[x]) /\ Current(current) /\ EntryOK(proc[x].cached)
      /\ Asked(proc[x]) /\ Holds(proc[x]) /\ gate = x
  BY <1>1, JobKinds DEF IInv, TypeOK, JobInv, JobOK, QuotaJob, Holds
<1>4. /\ row \in Row /\ row # NoRow /\ row.present /\ known /\ row.revision \in Nat
      /\ Backed(row.revision, row.identity)
  BY <1>3, Absent, Columns, Zenon DEF Current, IInv, TypeOK, KnownInv, IdentityInv
<1>5. /\ current \in Row /\ current.revision \in Nat /\ Backed(current.revision, current.identity)
      /\ current.identity = row.identity
  BY <1>1, <1>3, Columns, Zenon DEF Current, QuotaJob
<1>6. \/ result = NoObject
      \/ /\ object \in Object /\ result = [revision |-> object.revision, identity |-> object.identity]
         /\ current.enabled
      \/ result = [revision |-> current.revision, identity |-> current.identity]
      \/ /\ result = [revision |-> current.revision + 1, identity |-> current.identity]
         /\ ~current.enabled /\ row.revision = current.revision
  <2>1. object = NoObject \/ object \in Object
    BY Zenon DEF IInv, TypeOK
  <2> QED
    BY <1>1, <2>1, Zenon DEF FetchLive, FetchDetached, Commits
<1>7. result \in Result \cup {NoObject}
  <2>1. current.identity \in Nat /\ current.revision + 1 \in Nat
    BY <1>5, Columns
  <2> QED
    BY <1>5, <1>6, <2>1 DEF Result, Object
<1>8. \/ row' = row
      \/ /\ row' = Swapped(row)
         /\ result = [revision |-> row.revision + 1, identity |-> row.identity]
  <2>1. CASE result = NoObject
    BY <1>1, <1>5, <2>1 DEF NoObject
  <2>2. CASE current.enabled
    BY <1>1, <2>2, Zenon
  <2>3. CASE result = [revision |-> current.revision, identity |-> current.identity]
    BY <1>1, <1>5, <2>3
  <2>4. CASE /\ result = [revision |-> current.revision + 1, identity |-> current.identity]
             /\ row.revision = current.revision
    BY <1>1, <1>5, <2>4, Zenon
  <2> QED
    BY <1>6, <2>1, <2>2, <2>3, <2>4, Zenon
<1>9. /\ row' \in Row /\ SameAccount
      /\ \/ row'.revision = row.revision /\ row'.identity = row.identity
         \/ row'.revision = row.revision + 1
      /\ row' # row => row'.revision = result.revision /\ row'.identity = result.identity
  <2>1. CASE row' = row
    BY <1>4, <2>1, Zenon DEF SameAccount
  <2>2. CASE row' # row
    <3>1. /\ Swapped(row) \in Row /\ RouteOf(Swapped(row)) = RouteOf(row)
          /\ Swapped(row).revision = row.revision + 1 /\ Swapped(row).identity = row.identity
          /\ Swapped(row).enabled = row.enabled
      BY <1>4, RowWritten, Zenon
    <3>2. row' = Swapped(row) /\ result.revision = row.revision + 1 /\ result.identity = row.identity
      BY <1>8, <2>2
    <3> QED
      BY <1>4, <3>1, <3>2 DEF SameAccount
  <2> QED
    BY <2>1, <2>2, Zenon
<1>10. IdentityInv' /\ Grows
  BY <1>2, <1>4, <1>9, Revised, Zenon DEF IInv
<1>11. result # NoObject => Backed(result.revision, result.identity)'
  <2>1. CASE row' = Swapped(row) /\ row' # row
    <3>1. Backed(row.revision, row.identity)'
      BY <1>9, <1>10, Absent, Zenon DEF IdentityInv
    <3> QED
      BY <1>9, <2>1, <3>1, Zenon DEF Backed
  <2>2. CASE row' = row
    <3>1. CASE object \in Object /\ result = [revision |-> object.revision, identity |-> object.identity]
      <4>1. Backed(object.revision, object.identity)
        BY <3>1, Absent, Zenon DEF IInv, ObjectInv
      <4>2. Backed(result.revision, result.identity)
        BY <3>1, <4>1, Zenon
      <4> QED
        BY <1>10, <4>2, BackedKeeps, Zenon
    <3>2. CASE result = [revision |-> current.revision, identity |-> current.identity]
      BY <1>5, <1>10, <3>2, BackedKeeps, Zenon
    <3>3. CASE /\ result = [revision |-> current.revision + 1, identity |-> current.identity]
               /\ ~current.enabled /\ row.revision = current.revision
      <4>1. result.revision > current.revision
        BY <1>5, <3>3
      <4>2. row'.revision = row.revision + 1
        BY <1>1, <1>4, <3>3, <4>1, RowWritten, Zenon
      <4>3. row'.revision = row.revision
        BY <2>2, Zenon
      <4> QED
        BY <1>4, <4>2, <4>3
    <3> QED
      BY <1>6, <3>1, <3>2, <3>3, Zenon
  <2> QED
    BY <1>8, <2>1, <2>2, Zenon
<1>12. PICK q, p : q = proc[x] /\ p = [q EXCEPT !.pc = "store", !.result = result]
  BY Zenon
<1>13. p \in QuotaJob
  BY <1>3, <1>7, <1>12, Zenon DEF QuotaJob
<1>14. /\ p.pc = "store" /\ p.op = "quota" /\ p.current = q.current /\ p.cached = q.cached
       /\ p.fetches = q.fetches /\ p.revision = q.revision /\ p.attempt = q.attempt
       /\ p.result = result
  BY <1>3, <1>12, Zenon DEF QuotaJob
<1>15. p \in Job /\ q \in Job /\ proc' = [proc EXCEPT ![x] = p] /\ Quiet(p) /\ Quiet(q)
  BY <1>1, <1>3, <1>12, <1>13, <1>14, Zenon DEF Job, Quiet
<1>16. Fetches
  BY <1>2 DEF Fetches, IInv, TypeOK
<1>17. cache' \in Cached /\ CacheMoves /\ QuotaInv'
  BY <1>2, <1>10, <1>16, QuotaKeeps, Zenon DEF IInv, TypeOK
<1>18. JobOK(q)'
  <2>1. RowGrows
    BY <1>4, <1>9, Columns DEF RowGrows
  <2>2. TypeOK'
    BY <1>2, <1>9, <1>15, <1>17, Zenon DEF IInv, TypeOK
  <2> QED
    BY <1>3, <1>9, <1>10, <1>12, <1>15, <1>16, <1>17, <2>1, <2>2, JobKeeps, Zenon DEF IInv
<1>19. JobOK(p)'
  <2>1. q.pc = "fetch" /\ q.op = "quota"
    BY <1>1, <1>3, <1>12, Zenon DEF QuotaJob
  <2>2. Current(q.current)' /\ Asked(q)' /\ EntryOK(q.cached)'
    BY <1>18, <2>1, Zenon DEF JobOK
  <2>3. Asked(p)'
    BY <1>14, <2>2, Zenon DEF Asked, Outrun
  <2> QED
    BY <1>11, <1>14, <2>2, <2>3, Zenon DEF JobOK
<1>20. LoginInv'
  <2>1. x # Login
    BY <1>1, Zenon DEF IInv, LoginInv
  <2>2. proc'[Login] = proc[Login]
    BY <1>1, <2>1, Zenon DEF IInv, TypeOK, Processes
  <2> QED
    BY <1>2, <2>2, LoginKeeps, Zenon DEF IInv
<1> QED
  BY <1>2, <1>3, <1>4, <1>9, <1>10, <1>12, <1>15, <1>16, <1>17, <1>19, <1>20, Goes, Zenon

\* The entry of a successful fetch, with what was observed since, is of one login.
LEMMA FetchedTyped ==
  ASSUME IInv, NEW p \in QuotaJob, NEW n \in Nat \ {0}, NEW attempt \in Nat,
         p.result \in Result, Backed(p.result.revision, p.result.identity)
  PROVE  LET e == FetchedEntry(n, p.result.revision, p.result.identity, p.base, Seen, p.now, attempt)
         IN /\ e \in Entry /\ e.revision = p.result.revision /\ ~e.error
            /\ e.snapshot \in Snapshot /\ e.snapshot.fetch = n
            /\ e.snapshot.identity = p.result.identity /\ e.snapshot.merged = p.result.identity
<1> DEFINE v == p.result.revision
           i == p.result.identity
           newer == Seen.revision = v /\ Seen.generation > p.base
           g == IF newer THEN Seen.generation ELSE p.base
           m == IF newer THEN Seen.identity ELSE i
           s == [fetch |-> n, identity |-> i, merged |-> m]
<1>1. v \in Nat /\ i \in Nat /\ p.base \in Nat /\ p.now \in Nat
  BY Zenon DEF Result, QuotaJob
<1>2. Seen.revision = v => Seen.generation \in Nat /\ Seen.identity = i
  BY <1>1, SeenSound, Zenon DEF Backed
<1>3. g \in Nat /\ m = i
  BY <1>1, <1>2, Zenon
<1> HIDE DEF v, i, g, m
<1>4. s \in Snapshot
  BY <1>1, <1>3, Zenon DEF Snapshot
<1>5. FetchedEntry(n, v, i, p.base, Seen, p.now, attempt) =
        [revision |-> v, fetched |-> p.now, tried |-> p.now, error |-> FALSE,
         attempt |-> attempt, generation |-> g, snapshot |-> s]
  BY Zenon DEF FetchedEntry, g, m
<1> HIDE DEF s
<1>6. [revision |-> v, fetched |-> p.now, tried |-> p.now, error |-> FALSE,
       attempt |-> attempt, generation |-> g, snapshot |-> s] \in Entry
  BY <1>1, <1>3, <1>4, Zenon DEF Entry
<1>7. s.fetch = n /\ s.identity = i /\ s.merged = i
  BY <1>3, Zenon DEF s
<1> QED
  BY <1>4, <1>5, <1>6, <1>7 DEF v, i

\* The entry of a failed one keeps the snapshot of the revision.
LEMMA FailedTyped ==
  ASSUME NEW c \in Cached, EntryOK(c), NEW v \in Nat, NEW at \in Nat, NEW attempt \in Nat
  PROVE  LET e == FailedEntry(c, v, at, attempt)
         IN e \in Entry /\ e.error /\ EntryOK(e)
<1>1. CASE c.revision = v
  <2>1. c \in Entry /\ c # NoEntry
    BY <1>1 DEF Cached, NoEntry
  <2> DEFINE e == [c EXCEPT !.error = TRUE, !.tried = at, !.attempt = attempt]
  <2>2. e \in Entry
    BY <2>1, Zenon DEF Entry
  <2>3. e.error /\ e.snapshot = c.snapshot /\ e.revision = c.revision
    BY <2>1, Zenon DEF Entry
  <2>4. EntryOK(e)
    BY <2>1, <2>3, Zenon DEF EntryOK
  <2> QED
    BY <1>1, <2>2, <2>3, <2>4, Zenon DEF FailedEntry
<1>2. CASE c.revision # v
  <2> DEFINE e == [revision |-> v, fetched |-> at, tried |-> at, error |-> TRUE,
                   attempt |-> attempt, generation |-> 0, snapshot |-> NoSnapshot]
  <2>1. e \in Entry /\ e.error /\ EntryOK(e)
    BY Zenon DEF Entry, EntryOK
  <2> QED
    BY <1>2, <2>1, Zenon DEF FailedEntry
<1> QED
  BY <1>1, <1>2, Zenon

\* The result of a fetch is cached, under the revision of the row.
LEMMA StoreKeeps ==
  ASSUME IInv, NEW x \in Processes, Store(x)
  PROVE  IInv'
<1>1. PICK p, attempt : p = proc[x] /\ attempt = Attempt(p.cached) + 1
  BY Zenon
<1> DEFINE result == p.result
           failed == FailedEntry(p.cached, row.revision, p.now, attempt)
           fetched == FetchedEntry(fetches + 1, result.revision, result.identity, p.base, Seen,
                                   p.now, attempt)
           stored == IF result = NoObject THEN failed ELSE fetched
           kept == result # NoObject /\ result.revision # row.revision
<1>2. /\ UNCHANGED <<row, known, object, route, broken, flight, now, identityOf, behind>>
      /\ End(x, "completed") /\ p.pc = "store"
  BY <1>1, Zenon DEF Store, At, runtime, bounds
<1>3. IF kept
      THEN UNCHANGED <<cache, fetches, misfiled, outdated>>
      ELSE /\ cache' = stored
           /\ fetches' = IF result = NoObject THEN fetches ELSE fetches + 1
           /\ misfiled' = (misfiled \/ /\ result # NoObject
                                       /\ {result.identity, stored.snapshot.merged} #
                                            {p.current.identity})
           /\ Viewed(x, QuotaCacheView(stored, p.now))
  BY <1>1, Zenon DEF Store
<1>4. /\ p \in QuotaJob /\ Current(p.current) /\ Asked(p) /\ EntryOK(p.cached)
      /\ result # NoObject => Backed(result.revision, result.identity)
  <2>1. p \in QuotaJob
    BY <1>1, <1>2, JobKinds, Zenon DEF IInv, TypeOK
  <2>2. p.op = "quota" /\ JobOK(p)
    BY <1>1, <2>1, Zenon DEF IInv, JobInv, QuotaJob
  <2> QED
    BY <1>2, <2>1, <2>2, Zenon DEF JobOK
<1>5. /\ p.cached \in Cached /\ p.now \in Nat /\ p.fetches \in Nat
      /\ result \in Result \cup {NoObject} /\ attempt \in Nat /\ p.mode \in {"automatic", "force"}
  <2>1. p.cached \in Cached /\ p.now \in Nat /\ p.fetches \in Nat
        /\ result \in Result \cup {NoObject} /\ p.mode \in {"automatic", "force"}
    BY <1>4, Zenon DEF QuotaJob
  <2>2. Attempt(p.cached) \in Nat
    BY <2>1, Zenon DEF Attempt, Cached, Entry
  <2> QED
    BY <1>1, <2>1, <2>2
<1>6. /\ row \in Row /\ row # NoRow /\ row.revision \in Nat
      /\ Backed(row.revision, row.identity) /\ p.current.identity = row.identity
  BY <1>4, Columns, Zenon DEF Current, IInv, TypeOK, IdentityInv
<1>7. fetches \in Nat /\ p.fetches <= fetches /\ ~misfiled /\ ~outdated
  BY <1>4, Zenon DEF Asked, IInv, TypeOK, QuotaInv
<1>8. Grows
  BY <1>2, Zenon DEF Grows
<1>9. Fetches /\ cache' \in Cached /\ CacheMoves /\ QuotaInv'
  <2>1. CASE kept
    <3>1. UNCHANGED <<cache, fetches, misfiled, outdated>>
      BY <1>3, <2>1, Zenon
    <3>2. Fetches
      BY <1>7, <3>1 DEF Fetches
    <3> QED
      BY <1>8, <3>1, <3>2, QuotaKeeps, Zenon DEF IInv, TypeOK
  <2>2. CASE result = NoObject
    <3>1. failed \in Entry /\ failed.error /\ EntryOK(failed)
      BY <1>4, <1>5, <1>6, FailedTyped, Zenon
    <3>2. /\ cache' = failed /\ fetches' = fetches /\ misfiled' = (misfiled \/ FALSE)
          /\ Viewed(x, QuotaCacheView(failed, p.now))
      BY <1>3, <2>2, Zenon
    <3>3. PICK e : e = failed
      BY Zenon
    <3>4. e # NoEntry
      BY <3>1, <3>3, Absent, Zenon
    <3>5. QuotaCacheView(e, p.now).error
      BY <3>1, <3>3, <3>4, Zenon DEF QuotaCacheView
    <3>6. ~misfiled' /\ ~outdated'
      BY <1>7, <3>2, <3>3, <3>5, Zenon DEF Viewed
    <3>7. Fetches
      BY <1>7, <3>2 DEF Fetches
    <3>8. EntryOK(e)'
      BY <1>8, <3>1, <3>3, <3>7, EntryKeeps, Zenon DEF IInv, Cached
    <3> HIDE DEF failed
    <3> QED
      BY <3>1, <3>2, <3>3, <3>6, <3>7, <3>8, Zenon DEF Cached, CacheMoves, QuotaInv
  <2>3. CASE result # NoObject /\ result.revision = row.revision
    <3>1. /\ fetched \in Entry /\ fetched.revision = result.revision /\ ~fetched.error
          /\ fetched.snapshot \in Snapshot /\ fetched.snapshot.fetch = fetches + 1
          /\ fetched.snapshot.identity = result.identity
          /\ fetched.snapshot.merged = result.identity
      BY <1>4, <1>5, <1>7, <2>3, FetchedTyped, SMTT(60)
    <3>2. PICK e : e = fetched
      BY Zenon
    <3>3. /\ cache' = e /\ fetches' = fetches + 1
          /\ misfiled' = (misfiled \/ {result.identity, e.snapshot.merged} # {p.current.identity})
          /\ Viewed(x, QuotaCacheView(e, p.now))
      BY <1>3, <2>3, <3>2, Zenon
    <3> HIDE DEF fetched
    <3>4. result.identity = p.current.identity
      BY <1>4, <1>6, <2>3, Zenon DEF Backed
    <3>5. ~misfiled'
      BY <1>7, <3>1, <3>2, <3>3, <3>4, Zenon
    <3>6. ~outdated'
      <4>1. e # NoEntry
        BY <3>1, <3>2, Absent, Zenon
      <4>2. QuotaCacheView(e, p.now).fetch \in {0, fetches + 1}
        BY <3>1, <3>2, <4>1, Zenon DEF QuotaCacheView
      <4>3. ~(QuotaCacheView(e, p.now).fetch # 0 /\ QuotaCacheView(e, p.now).fetch <= p.fetches)
        BY <1>5, <1>7, <4>2
      <4> QED
        BY <1>1, <1>7, <3>3, <4>3, Zenon DEF Viewed
    <3>7. Fetches
      BY <1>7, <3>3 DEF Fetches
    <3>8. EntryOK(e)'
      <4>1. Backed(e.revision, e.snapshot.identity) /\ Backed(e.revision, e.snapshot.merged)
        BY <1>4, <2>3, <3>1, <3>2, Zenon
      <4>2. e.snapshot.fetch <= fetches'
        BY <1>7, <3>1, <3>2, <3>3
      <4>3. e.snapshot # NoSnapshot
        BY <3>1, <3>2, Absent, Zenon
      <4> QED
        BY <1>8, <4>1, <4>2, <4>3, BackedKeeps, Zenon DEF EntryOK
    <3>9. CacheMoves
      BY <1>7, <3>1, <3>2, <3>3 DEF CacheMoves
    <3> QED
      BY <3>1, <3>2, <3>3, <3>5, <3>6, <3>7, <3>8, <3>9, Zenon DEF Cached, QuotaInv
  <2> QED
    BY <2>1, <2>2, <2>3, Zenon
<1>10. x # Login /\ ~At(x, "idle") /\ Quiet(proc[x])
  BY <1>1, <1>2, Zenon DEF IInv, LoginInv, At, Quiet
<1> QED
  BY <1>2, <1>9, <1>10, Quits, Zenon

-----------------------------------------------------------------------------
(* The row is written. *)

\* A discovery reports some of the models, or nothing is written.
LEMMA Discovered ==
  ASSUME NEW op, NEW d \in Discovery(op)
  PROVE  d.found \in SUBSET Models /\ d.write \in BOOLEAN
<1>1. (\E s \in SUBSET Models : d = [found |-> s, write |-> TRUE]) \/ d = [found |-> {}, write |-> FALSE]
  BY Zenon DEF Discovery
<1>2. CASE \E s \in SUBSET Models : d = [found |-> s, write |-> TRUE]
  BY <1>2
<1>3. CASE d = [found |-> {}, write |-> FALSE]
  BY <1>3, Zenon
<1> QED
  BY <1>1, <1>2, <1>3, Zenon

\* The commit is the effect of a login.
LEMMA Effects ==
  ASSUME IInv, NEW x \in Processes, proc[x].pc \in {"loaded", "prepared"}, login' = Effect(x),
         NEW p, p.pc = "install", proc' = [proc EXCEPT ![x] = p]
  PROVE  LoginInv' /\ login' \in Session \cup {NoLogin}
<1>1. Login \in Processes /\ proc \in [Processes -> Job]
  BY Zenon DEF Processes, IInv, TypeOK
<1>2. CASE x # Login
  <2>1. login' = login /\ proc'[Login] = proc[Login]
    BY <1>1, <1>2, Zenon DEF Effect
  <2> QED
    BY <2>1, LoginKeeps, Zenon DEF IInv, TypeOK
<1>3. CASE x = Login
  <2>1. /\ login \in Session /\ login # NoLogin /\ login.status = "provisioning"
        /\ login.effects = 0
    BY <1>3, Zenon DEF IInv, LoginInv, TypeOK, At
  <2>2. login' = [login EXCEPT !.effects = 1]
    BY <1>3, <2>1 DEF Effect
  <2>3. login' \in Session /\ login'.status = "provisioning" /\ login'.effects = 1
    BY <2>1, <2>2 DEF Session
  <2>4. proc'[Login].pc = "install"
    BY <1>1, <1>3, Zenon
  <2> QED
    BY <2>3, <2>4, Absent, Zenon DEF LoginInv, At
<1> QED
  BY <1>2, <1>3, Zenon

\* The holder of the gate writes the row.
LEMMA Writes ==
  ASSUME IInv, NEW x \in Processes, proc[x].pc = "loaded",
         NEW p \in Job, proc' = [proc EXCEPT ![x] = p], JobOK(p)',
         UNCHANGED <<known, object, route, broken, fetches, gate, flight, now, misfiled, outdated>>,
         cache' \in {cache, NoEntry}, row' \in Row \cup {NoRow}, RowGrows, IdentityInv', Grows,
         login' \in Session \cup {NoLogin}, LoginInv', RunInv'
  PROVE  IInv'
<1> USE DEF IInv
<1>1. Holds(proc[x]) /\ gate = x /\ Current(proc[x].current)
  BY Zenon DEF Holds, JobInv, JobOK
<1>2. Fetches
  BY DEF Fetches, TypeOK
<1>3. QuotaInv' /\ CacheMoves /\ cache' \in Cached
  BY <1>2, QuotaKeeps, Zenon DEF TypeOK, Cached
<1>4. TypeOK'
  BY <1>3, Zenon DEF TypeOK
<1>5. ObjectInv'
  BY ObjectKeeps, Zenon
<1>6. JobInv'
  BY <1>1, <1>2, <1>3, <1>4, OneHolder, JobsKeep, Zenon
<1>7. KnownInv'
  BY <1>1, Zenon DEF KnownInv, Current
<1> QED
  BY <1>3, <1>4, <1>5, <1>6, <1>7, Zenon

\* What an operation that has loaded the row knows.
LEMMA LoadedJob ==
  ASSUME IInv, NEW x \in Processes, NEW p, p = proc[x], p.pc = "loaded"
  PROVE  /\ row \in Row /\ row # NoRow /\ row.present /\ row.revision \in Nat
         /\ p \in EditJob \cup ModelJob /\ p.current \in Row /\ p.current.revision \in Nat
         /\ Current(p.current) /\ Backed(row.revision, row.identity)
<1>1. p \in EditJob \cup ModelJob /\ Current(p.current)
  BY JobKinds, Zenon DEF IInv, TypeOK, JobInv, JobOK
<1>2. p.current \in Row
  BY <1>1, Zenon DEF EditJob, ModelJob, Current
<1>3. row \in Row /\ row # NoRow
  BY <1>1, Zenon DEF Current, IInv, TypeOK
<1> QED
  BY <1>1, <1>2, <1>3, Absent, Columns, Zenon DEF IInv, IdentityInv

\* commit_candidate.
LEMMA CommitKeeps ==
  ASSUME IInv, NEW x \in Processes, Commit(x)
  PROVE  IInv'
<1>1. PICK q : q = proc[x]
  BY Zenon
<1>2. PICK d \in Discovery(q.op) :
        row' = Committed(row, Candidate(q), q.current.revision, d.found, d.write,
                         Resets(q) /\ d.write)
  BY <1>1, Zenon DEF Commit
<1>3. /\ q.pc = "loaded" /\ q.op \notin {"delete", "model"} /\ Commits(row, q.current.revision)
      /\ identityOf' = Revision(row') /\ login' = Effect(x)
      /\ proc' = [proc EXCEPT ![x] = [pc |-> "install", op |-> q.op, row |-> row']]
      /\ UNCHANGED <<known, object, route, broken, cache, fetches, gate, flight, now, behind,
                     misfiled, outdated>>
  BY <1>1, Zenon DEF Commit, At, runtime, bounds
<1>4. /\ row \in Row /\ row # NoRow /\ row.present /\ row.revision \in Nat
      /\ q \in EditJob \cup ModelJob /\ q.current \in Row /\ Current(q.current)
      /\ Backed(row.revision, row.identity)
  BY <1>1, <1>3, LoadedJob, Zenon
<1>5. q \in EditJob /\ q.op \in Editing
  BY <1>3, <1>4, Zenon DEF EditJob, ModelJob
<1>6. q.current.revision = row.revision /\ q.current.identity = row.identity
  BY <1>3, <1>4, Zenon DEF Commits, Current
<1>7. /\ Candidate(q) \in Row
      /\ \/ Candidate(q).revision = row.revision /\ Candidate(q).identity = row.identity
         \/ Candidate(q).revision = row.revision + 1
  BY <1>3, <1>4, <1>5, <1>6, CandidateMade, Zenon
<1>8. d.found \in SUBSET Models /\ d.write \in BOOLEAN
  BY Discovered, Zenon
<1>9. (Resets(q) /\ d.write) \in BOOLEAN
  BY Zenon DEF Resets
<1>10. PICK reset, candidate, found, write :
         /\ reset = (Resets(q) /\ d.write) /\ candidate = Candidate(q) /\ found = d.found
         /\ write = d.write
  BY Zenon
<1>11. PICK old, expected, r : /\ old = row /\ expected = q.current.revision
                               /\ r = Committed(old, candidate, expected, found, write, reset)
  BY Zenon
<1>12. /\ row' = r /\ r \in Row
       /\ \/ r.revision = row.revision /\ r.identity = row.identity
          \/ r.revision = row.revision + 1
  <2>1. row' = r
    BY <1>2, <1>10, <1>11, Zenon
  <2>2. /\ old \in Row /\ candidate \in Row /\ found \in SUBSET Models
        /\ write \in BOOLEAN /\ reset \in BOOLEAN
    BY <1>4, <1>7, <1>8, <1>9, <1>10, <1>11, Zenon
  <2>3. r = Committed(old, candidate, expected, found, write, reset)
    BY <1>11, Zenon
  <2>4. r \in Row /\ r.revision = candidate.revision /\ r.identity = candidate.identity
    BY <2>2, <2>3, SnapshotWritten
  <2> QED
    BY <1>7, <1>10, <2>1, <2>4, Zenon
<1>13. IdentityInv' /\ Grows
  BY <1>3, <1>4, <1>12, Revised, Zenon DEF IInv
<1>14. PICK p : p = [pc |-> "install", op |-> q.op, row |-> r]
  BY Zenon
<1>15. p \in InstallJob /\ p.pc = "install" /\ p.op = q.op /\ p.row = r
  BY <1>5, <1>12, <1>14, Zenon DEF InstallJob
<1>16. p \in Job /\ proc' = [proc EXCEPT ![x] = p]
  BY <1>3, <1>12, <1>14, <1>15, Zenon DEF Job
<1>17. JobOK(p)'
  <2>1. Backed(row.revision, row.identity)'
    BY <1>12, <1>13, Absent, Zenon DEF IdentityInv
  <2>2. Backed(r.revision, r.identity)'
    BY <1>12, <2>1, Zenon
  <2>3. Written(r)'
    BY <1>12, Absent, Zenon DEF Written
  <2> QED
    BY <1>15, <2>2, <2>3, Zenon DEF JobOK
<1>18. LoginInv' /\ login' \in Session \cup {NoLogin}
  BY <1>1, <1>3, <1>15, <1>16, Effects, Zenon
<1>19. RunInv'
  <2>1. proc'[x].pc = "install"
    BY <1>15, <1>16, Zenon DEF IInv, TypeOK
  <2> QED
    BY <2>1, Zenon DEF RunInv
<1>20. RowGrows
  BY <1>4, <1>12 DEF RowGrows
<1> QED
  BY <1>1, <1>3, <1>12, <1>13, <1>16, <1>17, <1>18, <1>19, <1>20, Writes, Zenon

\* delete_account's statement.
LEMMA DeleteRowKeeps ==
  ASSUME IInv, NEW x \in Processes, DeleteRow(x)
  PROVE  IInv'
<1>1. PICK q, p : q = proc[x] /\ p = [q EXCEPT !.pc = "remove"]
  BY Zenon
<1>2. /\ q.pc = "loaded" /\ q.op = "delete" /\ row' = NoRow /\ cache' = NoEntry
      /\ proc' = [proc EXCEPT ![x] = p]
      /\ UNCHANGED <<known, object, route, broken, fetches, gate, login, flight, now, identityOf,
                     misfiled, outdated, behind>>
  BY <1>1, Zenon DEF DeleteRow, Move, At, runtime, bounds, history
<1>3. q \in EditJob
  BY <1>1, <1>2, LoadedJob DEF ModelJob
<1>4. p \in EditJob /\ p.pc = "remove"
  <2>1. p \in EditJob
    BY <1>1, <1>3, Zenon DEF EditJob
  <2> QED
    BY <1>1, <1>3, <2>1, Zenon DEF EditJob
<1>5. p \in Job /\ p.op # "quota"
  BY <1>4, Zenon DEF Job, EditJob, Editing
<1>6. JobOK(p)'
  BY <1>2, <1>4, <1>5, Zenon DEF JobOK
<1>7. IdentityInv' /\ Grows
  BY <1>2, SameCredential, Zenon DEF IInv
<1>8. RowGrows
  BY <1>2, Absent, Zenon DEF RowGrows
<1>9. LoginInv' /\ login' \in Session \cup {NoLogin}
  <2>1. x # Login
    BY <1>1, <1>2, Zenon DEF IInv, LoginInv
  <2>2. proc'[Login] = proc[Login]
    BY <1>2, <2>1, Zenon DEF IInv, TypeOK, Processes
  <2> QED
    BY <1>2, <2>2, LoginKeeps, Zenon DEF IInv, TypeOK
<1>10. RunInv'
  <2>1. proc'[x].pc = "remove"
    BY <1>2, <1>4, Zenon DEF IInv, TypeOK
  <2> QED
    BY <2>1, Zenon DEF RunInv
<1> QED
  BY <1>1, <1>2, <1>5, <1>6, <1>7, <1>8, <1>9, <1>10, Writes, Zenon

\* create_account's commit: nobody else knows the account.
LEMMA CommitCreateKeeps ==
  ASSUME IInv, NEW x \in Processes, CommitCreate(x)
  PROVE  IInv'
<1>1. PICK d \in Discovery("create") :
        row' = [NewAccount(proc[x].patch) EXCEPT !.models = WriteModels(@, d.found, TRUE, TRUE)]
  BY Zenon DEF CommitCreate
<1>2. /\ proc[x].pc = "prepared" /\ ~known /\ known' = TRUE
      /\ identityOf' = Revision(row') /\ login' = Effect(x)
      /\ proc' = [proc EXCEPT ![x] = [pc |-> "install", op |-> "create", row |-> row']]
      /\ UNCHANGED <<object, route, broken, cache, fetches, gate, flight, now, behind,
                     misfiled, outdated>>
  BY Zenon DEF CommitCreate, At, runtime, bounds
<1>3. PICK r : r = row'
  BY Zenon
<1>4. r \in Row /\ row' = r
  <2>1. proc[x] \in CreateJob
    BY <1>2, JobKinds, Zenon DEF IInv, TypeOK
  <2>2. proc[x].patch \in Patch
    BY <2>1, Zenon DEF CreateJob
  <2>3. d.found \in SUBSET Models
    BY Discovered, Zenon
  <2> QED
    BY <1>1, <1>3, <2>2, <2>3, AccountInserted, Zenon
<1>5. /\ row = NoRow /\ DOMAIN identityOf = {}
      /\ \A y \in Processes : proc[y].pc \in {"idle", "prepared"}
  BY <1>2, Zenon DEF IInv, KnownInv
<1>6. IdentityInv' /\ Grows
  BY <1>2, <1>4, <1>5, Revised, Zenon DEF IInv
<1>7. PICK p : p = [pc |-> "install", op |-> "create", row |-> r]
  BY Zenon
<1>8. p \in InstallJob /\ p.pc = "install" /\ p.op = "create" /\ p.row = r
  BY <1>4, <1>7, Zenon DEF InstallJob
<1>9. p \in Job /\ proc' = [proc EXCEPT ![x] = p]
  BY <1>2, <1>3, <1>7, <1>8, Zenon DEF Job
<1>10. LoginInv' /\ login' \in Session \cup {NoLogin}
  BY <1>2, <1>8, <1>9, Effects, Zenon
<1>11. Fetches
  BY <1>2 DEF Fetches, IInv, TypeOK
<1>12. QuotaInv' /\ cache' \in Cached
  BY <1>2, <1>6, <1>11, QuotaKeeps, Zenon DEF IInv, TypeOK
<1>13. TypeOK'
  BY <1>2, <1>4, <1>9, <1>10, <1>12, Zenon DEF IInv, TypeOK
<1>14. ObjectInv'
  BY <1>2, <1>6, ObjectKeeps, Zenon DEF IInv
<1>15. JobInv'
  <2> SUFFICES ASSUME NEW y \in Processes
               PROVE  (JobOK(proc[y]) /\ (Holds(proc[y]) => gate = y))'
    BY Zenon DEF JobInv
  <2>1. PICK q : q = proc'[y]
    BY Zenon
  <2>2. CASE y = x
    <3>1. q = p
      BY <1>9, <2>1, <2>2, Zenon DEF IInv, TypeOK
    <3>2. Backed(row.revision, row.identity)'
      BY <1>4, <1>6, Absent, Zenon DEF IdentityInv
    <3>3. Backed(r.revision, r.identity)'
      BY <1>4, <3>2, Zenon
    <3>4. JobOK(p)' /\ ~Holds(p)
      BY <1>8, <3>3, Zenon DEF JobOK, Holds
    <3> QED
      BY <2>1, <3>1, <3>4, Zenon
  <2>3. CASE y # x
    <3>1. q.pc \in {"idle", "prepared"}
      BY <1>5, <1>9, <2>1, <2>3, Zenon DEF IInv, TypeOK
    <3>2. JobOK(q)' /\ ~Holds(q)
      BY <3>1, Zenon DEF JobOK, Holds
    <3> QED
      BY <2>1, <3>2, Zenon
  <2> QED
    BY <2>2, <2>3, Zenon
<1>16. KnownInv'
  BY <1>2, Zenon DEF KnownInv
<1>17. RunInv'
  <2>1. proc'[x].pc = "install"
    BY <1>8, <1>9, Zenon DEF IInv, TypeOK
  <2> QED
    BY <2>1, Zenon DEF RunInv
<1> QED
  BY <1>6, <1>10, <1>12, <1>13, <1>14, <1>15, <1>16, <1>17, Zenon DEF IInv

\* An operation has written the row and is to publish it: the runtime served the old one.
LEMMA Publishes ==
  ASSUME IInv, NEW x \in Processes, proc[x].pc = "loaded", NEW p, p.pc = "publish",
         proc' = [proc EXCEPT ![x] = p], UNCHANGED <<object, route, broken, behind>>,
         Serves(row, object, route) => Serves(row', object', Published(p)')
  PROVE  RunInv'
<1>1. \A y \in Processes \ {x} : ~Holds(proc[y])
  BY OneHolder, Zenon DEF IInv, Holds
<1>2. \A y \in Processes : y # x => proc'[y] = proc[y] /\ proc[y].pc # "publish"
  BY <1>1, Zenon DEF IInv, TypeOK, Holds
<1>3. proc'[x] = p
  BY Zenon DEF IInv, TypeOK
<1> SUFFICES ASSUME ~behind', ~broken',
                    \A y \in Processes : proc'[y].pc \notin {"install", "remove"}
             PROVE  \A y \in Processes : At(y, "publish")' => Serves(row, object, Published(proc[y]))'
  BY <1>3, Zenon DEF RunInv, At
<1>4. Serves(row, object, route)
  <2>1. \A y \in Processes : proc[y].pc \notin {"install", "remove"} /\ ~At(y, "publish")
    BY <1>2, Zenon DEF At
  <2> QED
    BY <2>1, Zenon DEF IInv, RunInv
<1>5. Serves(row, object, Published(proc[x]))'
  BY <1>3, <1>4, Zenon
<1> QED
  BY <1>2, <1>5, Zenon DEF At

\* update_account without a rebuild: only the visibility changes.
LEMMA WriteRowKeeps ==
  ASSUME IInv, NEW x \in Processes, WriteRow(x)
  PROVE  IInv'
<1>1. PICK q, p : q = proc[x] /\ p = [q EXCEPT !.pc = "publish"]
  BY Zenon
<1>2. /\ q.pc = "loaded" /\ q.op = "update" /\ ~Rebuilds(q) /\ row' = WriteAccount(row, q.patch)
      /\ proc' = [proc EXCEPT ![x] = p]
      /\ UNCHANGED <<known, object, route, broken, cache, fetches, gate, login, flight, now,
                     identityOf, misfiled, outdated, behind>>
  BY <1>1, Zenon DEF WriteRow, Move, At, runtime, bounds, history
<1>3. /\ row \in Row /\ row # NoRow /\ row.present /\ row.revision \in Nat
      /\ q \in EditJob \cup ModelJob /\ q.current \in Row /\ Current(q.current)
  BY <1>1, <1>2, LoadedJob, Zenon
<1>4. q \in EditJob /\ q.patch \in Patch
  BY <1>2, <1>3, Zenon DEF ModelJob, EditJob
<1>5. p \in EditJob
  BY <1>1, <1>4, Zenon DEF EditJob
<1>6. /\ p.pc = "publish" /\ p.op = "update" /\ p.patch = q.patch /\ p.current = q.current
      /\ p \in Job
  BY <1>1, <1>2, <1>4, <1>5, Zenon DEF EditJob, Job
<1>7. PICK r : r = Patched(row, q.patch)
  BY Zenon
<1>8. row' = r
  BY <1>2, <1>3, <1>7, Zenon DEF WriteAccount
<1>9. /\ r \in Row /\ PatchOf(r) = PatchOf(q.patch) /\ r.models = row.models
      /\ r.enabled = row.enabled /\ r.revision = row.revision /\ r.identity = row.identity
  BY <1>3, <1>4, <1>7, RowWritten, Zenon
<1>10. IdentityInv' /\ Grows
  BY <1>2, <1>3, <1>8, <1>9, SameCredential, Zenon DEF IInv
<1>11. JobOK(p)'
  BY <1>6, <1>8, <1>9, Absent, Zenon DEF JobOK
<1>12. RowGrows
  BY <1>3, <1>8, <1>9 DEF RowGrows
<1>13. LoginInv' /\ login' \in Session \cup {NoLogin}
  <2>1. x # Login
    BY <1>1, <1>2, Zenon DEF IInv, LoginInv
  <2>2. proc'[Login] = proc[Login]
    BY <1>2, <2>1, Zenon DEF IInv, TypeOK, Processes
  <2> QED
    BY <1>2, <2>2, LoginKeeps, Zenon DEF IInv, TypeOK
<1>14. Serves(row, object, route) => Serves(row', object', Published(p)')
  <2> SUFFICES ASSUME Serves(row, object, route)
               PROVE  Serves(row', object', Published(p)')
    BY Zenon
  <2>1. CASE ~row.enabled
    BY <1>2, <1>8, <1>9, <2>1, Zenon DEF Serves, Published
  <2>2. CASE row.enabled
    <3>1. object # NoObject /\ route = RouteOf(row) /\ route # NoRoute
      BY <1>3, <2>2, Absent, RowWritten DEF Serves
    <3>2. /\ r.visibility = q.patch.visibility /\ r.priority = row.priority
          /\ r.config = row.config /\ q.current.visibility = row.visibility
      BY <1>2, <1>3, <1>9, Zenon DEF PatchOf, Rebuilds, Current
    <3>3. CASE q.current.visibility # q.patch.visibility
      <4>1. Published(p)' = [route EXCEPT !.visibility = r.visibility]
        BY <1>2, <1>6, <1>8, <3>1, <3>3, Zenon DEF Published
      <4>2. [RouteOf(row) EXCEPT !.visibility = r.visibility] = RouteOf(r)
        BY <1>9, <3>2 DEF RouteOf
      <4> QED
        BY <1>2, <1>8, <1>9, <2>2, <3>1, <4>1, <4>2, Absent, Zenon DEF Serves
    <3>4. CASE q.current.visibility = q.patch.visibility
      <4>1. Published(p)' = route
        BY <1>2, <1>6, <3>1, <3>4, Zenon DEF Published
      <4>2. RouteOf(row) = RouteOf(r)
        BY <1>9, <3>2, <3>4, Zenon DEF RouteOf
      <4> QED
        BY <1>2, <1>8, <1>9, <2>2, <3>1, <4>1, <4>2, Absent, Zenon DEF Serves
    <3> QED
      BY <3>3, <3>4, Zenon
  <2> QED
    BY <1>3, <2>1, <2>2, Columns, Zenon
<1>15. RunInv'
  BY <1>1, <1>2, <1>6, <1>14, Publishes, Zenon
<1> QED
  BY <1>1, <1>2, <1>6, <1>8, <1>9, <1>10, <1>11, <1>12, <1>13, <1>15, Writes, Zenon

\* update_model: only the models change.
LEMMA WriteModelKeeps ==
  ASSUME IInv, NEW x \in Processes, WriteModel(x)
  PROVE  IInv'
<1>1. PICK q, p : q = proc[x] /\ p = [q EXCEPT !.pc = "publish"]
  BY Zenon
<1>2. /\ q.pc = "loaded" /\ q.op = "model"
      /\ UNCHANGED <<known, object, route, broken, cache, fetches, flight, now, identityOf, misfiled,
                     outdated, behind>>
  BY <1>1, Zenon DEF WriteModel, At, runtime, bounds, history
<1>3. /\ row \in Row /\ row # NoRow /\ row.present /\ row.revision \in Nat
      /\ q \in EditJob \cup ModelJob
  BY <1>1, <1>2, LoadedJob, Zenon
<1>4. q \in ModelJob /\ q.enabled \in BOOLEAN /\ q.price \in {"same", "none", "manual"}
  BY <1>2, <1>3, Zenon DEF ModelJob, EditJob, Editing
<1>5. x # Login
  BY <1>1, <1>2, Zenon DEF IInv, LoginInv
<1>6. Fetches /\ Grows
  BY <1>2 DEF Fetches, Grows, IInv, TypeOK
<1>7. CASE q.model \notin DOMAIN row.models
  <2>1. End(x, "failed") /\ row' = row
    BY <1>1, <1>7, Zenon DEF WriteModel
  <2>2. cache' \in Cached /\ CacheMoves /\ QuotaInv'
    BY <1>2, <1>6, QuotaKeeps, Zenon DEF IInv, TypeOK
  <2>3. ~At(x, "idle") /\ Quiet(proc[x])
    BY <1>1, <1>2, Zenon DEF At, Quiet
  <2> QED
    BY <1>2, <1>5, <1>6, <2>1, <2>2, <2>3, Quits, Zenon
<1>8. CASE q.model \in DOMAIN row.models
  <2>1. PICK r : r = WriteOverride(row, q.model, q.enabled, q.price)
    BY Zenon
  <2>2. row' = r /\ proc' = [proc EXCEPT ![x] = p] /\ UNCHANGED <<gate, login>>
    BY <1>1, <1>8, <2>1, Zenon DEF WriteModel, Move
  <2>3. /\ r \in Row /\ PatchOf(r) = PatchOf(row) /\ r.enabled = row.enabled
        /\ r.revision = row.revision /\ r.identity = row.identity
    BY <1>3, <1>4, <1>8, <2>1, OverrideWritten
  <2>4. p \in ModelJob
    BY <1>1, <1>4, Zenon DEF ModelJob
  <2>5. p.pc = "publish" /\ p.op = "model" /\ p \in Job
    BY <1>1, <1>4, <2>4, Zenon DEF ModelJob, Job
  <2>6. IdentityInv' /\ Grows
    BY <1>2, <1>3, <2>2, <2>3, SameCredential, Zenon DEF IInv
  <2>7. JobOK(p)'
    BY <2>2, <2>3, <2>5, Absent, Zenon DEF JobOK
  <2>8. RowGrows
    BY <1>3, <2>2, <2>3 DEF RowGrows
  <2>9. LoginInv' /\ login' \in Session \cup {NoLogin}
    <3>1. proc'[Login] = proc[Login]
      BY <1>5, <2>2, Zenon DEF IInv, TypeOK, Processes
    <3> QED
      BY <2>2, <3>1, LoginKeeps, Zenon DEF IInv, TypeOK
  <2>10. Serves(row, object, route) => Serves(row', object', Published(p)')
    <3> SUFFICES ASSUME Serves(row, object, route)
                 PROVE  Serves(row', object', Published(p)')
      BY Zenon
    <3>1. CASE ~row.enabled
      BY <1>2, <2>2, <2>3, <3>1, Zenon DEF Serves, Published
    <3>2. CASE row.enabled
      <4>1. object # NoObject /\ route = RouteOf(row) /\ route # NoRoute
        BY <1>3, <3>2, Absent, RowWritten, Zenon DEF Serves
      <4>2. Published(p)' = [route EXCEPT !.models = r.models]
        BY <1>2, <2>2, <2>3, <2>5, <3>2, <4>1, Zenon DEF Published
      <4>3. [RouteOf(row) EXCEPT !.models = r.models] = RouteOf(r)
        BY <2>3 DEF RouteOf, PatchOf
      <4> QED
        BY <1>2, <2>2, <2>3, <3>2, <4>1, <4>2, <4>3, Absent, Zenon DEF Serves
    <3> QED
      BY <1>3, <3>1, <3>2, Columns, Zenon
  <2>11. RunInv'
    BY <1>1, <1>2, <2>2, <2>5, <2>10, Publishes, Zenon
  <2> QED
    BY <1>1, <1>2, <2>2, <2>3, <2>5, <2>6, <2>7, <2>8, <2>9, <2>11, Writes, Zenon
<1> QED
  BY <1>7, <1>8, Zenon

-----------------------------------------------------------------------------
(* The runtime follows the row. *)

\* An operation that wrote the row ends with the runtime.
LEMMA Finishes ==
  ASSUME IInv, NEW x \in Processes, End(x, "completed"), ~Quiet(proc[x]),
         UNCHANGED <<row, known, fetches, now, identityOf, misfiled, outdated>>,
         cache' \in {cache, NoEntry}, object' \in Object \cup {NoObject},
         route' \in RouteRow \cup {NoRoute}, flight' \in Flight \cup {NoFlight},
         ObjectInv', RunInv'
  PROVE  IInv'
<1> USE DEF IInv
<1>1. ~At(x, "idle") /\ (x = Login => At(Login, "install"))
  BY Zenon DEF Quiet, At, LoginInv
<1>2. /\ proc' = [proc EXCEPT ![x] = Idle] /\ proc' \in [Processes -> Job]
      /\ login' \in Session \cup {NoLogin} /\ LoginInv'
      /\ login' # NoLogin => login # NoLogin /\ login'.target = login.target
      /\ \A y \in Processes \ {x} : gate = y => gate' = y
  BY <1>1, Ended, Zenon
<1>3. IdentityInv' /\ Grows
  BY SameCredential, Zenon
<1>4. Fetches
  BY DEF Fetches, TypeOK
<1>5. QuotaInv' /\ CacheMoves /\ cache' \in Cached
  BY <1>3, <1>4, QuotaKeeps, Zenon DEF TypeOK, Cached
<1>6. TypeOK'
  BY <1>2, <1>5, Zenon DEF TypeOK
<1>7. JobInv'
  <2>1. Idle \in Job /\ ~Holds(Idle) /\ JobOK(Idle)'
    BY Zenon DEF Idle, Job, Holds, JobOK
  <2>2. RowGrows /\ SameAccount
    BY <1>6, Columns DEF RowGrows, SameAccount
  <2> QED
    BY <1>2, <1>3, <1>4, <1>5, <1>6, <2>1, <2>2, JobsKeep, Zenon
<1>8. KnownInv'
  BY <1>2, Zenon DEF KnownInv, TypeOK, Idle
<1> QED
  BY <1>2, <1>3, <1>5, <1>6, <1>7, <1>8, Zenon

\* The end of an operation that held the gate: nobody else is to publish anything, so the
\* runtime must serve the row now.
LEMMA LastOne ==
  ASSUME IInv, NEW x \in Processes, Holds(proc[x]), proc' = [proc EXCEPT ![x] = Idle],
         ~behind' /\ ~broken' /\ (\A y \in Processes \ {x} : proc[y].pc \notin {"install", "remove"})
           => Serves(row, object, route)'
  PROVE  RunInv'
<1>1. \A y \in Processes \ {x} : proc'[y] = proc[y] /\ proc[y].pc # "publish"
  BY OneHolder, Zenon DEF IInv, TypeOK, Holds
<1>2. proc'[x].pc = "idle"
  BY Zenon DEF IInv, TypeOK, Idle
<1> QED
  BY <1>1, <1>2, Zenon DEF RunInv, At

LEMMA PublishKeeps ==
  ASSUME IInv, NEW x \in Processes, Publish(x)
  PROVE  IInv'
<1>1. /\ proc[x].pc = "publish" /\ route' = Published(proc[x]) /\ End(x, "completed")
      /\ UNCHANGED <<row, known, object, broken, cache, fetches, flight, now, identityOf, misfiled,
                     outdated, behind>>
  BY Zenon DEF Publish, Published, At, bounds, history
<1>2. JobOK(proc[x]) /\ Holds(proc[x])
  BY <1>1, Zenon DEF IInv, JobInv, Holds
<1>3. row \in Row /\ row.models \in ModelRows /\ row.visibility \in Visibilities
  BY <1>1, <1>2, Zenon DEF JobOK, IInv, TypeOK, Row
<1>4. route' \in RouteRow \cup {NoRoute}
  <2>1. CASE route = NoRoute
    BY <1>1, <2>1, Zenon DEF Published
  <2>2. CASE route \in RouteRow
    <3>1. [route EXCEPT !.models = row.models] \in RouteRow
      BY <1>3, <2>2, Zenon DEF RouteRow
    <3>2. [route EXCEPT !.visibility = row.visibility] \in RouteRow
      BY <1>3, <2>2, Zenon DEF RouteRow
    <3> QED
      BY <1>1, <2>2, <3>1, <3>2, Zenon DEF Published
  <2> QED
    BY <2>1, <2>2, Zenon DEF IInv, TypeOK
<1>5. proc' = [proc EXCEPT ![x] = Idle]
  BY <1>1, Zenon DEF End
<1>6. RunInv'
  <2> SUFFICES ASSUME ~behind', ~broken',
                      \A y \in Processes \ {x} : proc[y].pc \notin {"install", "remove"}
               PROVE  Serves(row, object, route)'
    BY <1>2, <1>5, LastOne, Zenon
  <2>1. Serves(row, object, Published(proc[x]))
    BY <1>1, Zenon DEF IInv, RunInv, At
  <2> QED
    BY <1>1, <2>1, Zenon
<1>7. ObjectInv' /\ object' \in Object \cup {NoObject} /\ flight' \in Flight \cup {NoFlight}
  <2>1. Grows
    BY <1>1, Zenon DEF Grows
  <2> QED
    BY <1>1, <2>1, ObjectKeeps, Zenon DEF IInv, TypeOK
<1>8. ~Quiet(proc[x])
  BY <1>1, Zenon DEF Quiet
<1> QED
  BY <1>1, <1>4, <1>6, <1>7, <1>8, Finishes, Zenon

LEMMA Replacing ==
  ASSUME TypeOK, flight' = Replaced
  PROVE  flight' \in Flight \cup {NoFlight} /\ (flight' = NoFlight \/ ~flight'.current)
<1>1. CASE flight = NoFlight
  BY <1>1, Zenon DEF Replaced
<1>2. CASE flight \in Flight /\ flight # NoFlight
  <2>1. flight' = [flight EXCEPT !.current = FALSE]
    BY <1>2, Zenon DEF Replaced
  <2> QED
    BY <1>2, <2>1, Zenon DEF Flight
<1> QED
  BY <1>1, <1>2, Zenon DEF TypeOK

\* What a route is that serves the row, publishing leaves alone.
LEMMA PublishedExact ==
  ASSUME row' \in Row, Serves(row, object, route)', NEW p, p.op \in {"update", "model"}
  PROVE  Published(p)' = route'
<1>1. PICK r, t : r = row' /\ t = route'
  BY Zenon
<1>2. CASE ~r.enabled
  BY <1>1, <1>2, Zenon DEF Serves, Published
<1>3. CASE r.enabled
  <2>1. t = RouteOf(r)
    BY <1>1, <1>3, Absent, Zenon DEF Serves
  <2>2. [RouteOf(r) EXCEPT !.models = r.models] = RouteOf(r)
    BY DEF RouteOf
  <2>3. [RouteOf(r) EXCEPT !.visibility = r.visibility] = RouteOf(r)
    BY DEF RouteOf
  <2> QED
    BY <1>1, <2>1, <2>2, <2>3, Zenon DEF Published
<1> QED
  BY <1>1, <1>2, <1>3, Columns, Zenon

\* install_account or remove_account after a commit.
LEMMA InstallKeeps ==
  ASSUME IInv, NEW x \in Processes, Install(x)
  PROVE  IInv'
<1>1. PICK q, r : q = proc[x] /\ r = q.row
  BY Zenon
<1>2. /\ q.pc = "install"
      /\ object' = IF r.enabled THEN ObjectOf(r) ELSE NoObject
      /\ route' = IF r.enabled THEN RouteOf(r) ELSE NoRoute
      /\ flight' = Replaced /\ cache' \in {cache, NoEntry}
      /\ behind' = (q.op = "create" /\ ~Serves(row, object', route'))
      /\ End(x, "completed")
      /\ UNCHANGED <<row, known, fetches, now, identityOf, misfiled, outdated>>
  BY <1>1, Zenon DEF Install, At, bounds, history
<1>3. q \in InstallJob /\ JobOK(q)
  BY <1>1, <1>2, JobKinds, Zenon DEF IInv, TypeOK, JobInv
<1>4. r \in Row /\ Backed(r.revision, r.identity)
  BY <1>1, <1>2, <1>3, Zenon DEF InstallJob, JobOK
<1>5. object' \in Object \cup {NoObject} /\ route' \in RouteRow \cup {NoRoute}
  BY <1>2, <1>4, ObjectMade, RowWritten, Zenon
<1>6. flight' \in Flight \cup {NoFlight} /\ (flight' = NoFlight \/ ~flight'.current)
  BY <1>2, Replacing, Zenon DEF IInv
<1>7. ObjectInv'
  <2>1. Grows
    BY <1>2, Zenon DEF Grows
  <2>2. Backed(r.revision, r.identity)'
    BY <1>4, <2>1, BackedKeeps, Zenon
  <2> QED
    BY <1>2, <1>4, <1>6, <2>2, ObjectBuilt, Zenon
<1>8. proc' = [proc EXCEPT ![x] = Idle]
  BY <1>2, Zenon DEF End
<1>9. RunInv'
  <2>1. CASE q.op # "create"
    <3>1. Holds(proc[x]) /\ Written(r)
      BY <1>1, <1>2, <1>3, <2>1, Zenon DEF Holds, JobOK
    <3>2. Serves(row, object, route)'
      <4>1. row \in Row /\ row.enabled = r.enabled /\ RouteOf(row) = RouteOf(r) /\ row.present
        BY <3>1, Absent, Zenon DEF Written, IInv, TypeOK
      <4>2. ObjectOf(r) # NoObject
        BY <1>4, Absent, ObjectMade, Zenon
      <4> QED
        BY <1>2, <4>1, <4>2, Zenon DEF Serves
    <3> QED
      BY <1>8, <3>1, <3>2, LastOne, Zenon
  <2>2. CASE q.op = "create"
    <3> SUFFICES ASSUME ~behind'
                 PROVE  RunInv'
      BY Zenon DEF RunInv
    <3>1. Serves(row, object, route)'
      BY <1>2, <2>2, Zenon
    <3>2. ASSUME NEW y \in Processes, At(y, "publish")'
          PROVE  Serves(row, object, Published(proc[y]))'
      <4>1. proc'[y] = proc[y] /\ proc[y].pc = "publish"
        BY <1>8, <3>2, Zenon DEF IInv, TypeOK, At, Idle
      <4>2. row \in Row /\ proc[y].op \in {"update", "model"}
        BY <4>1, Zenon DEF IInv, JobInv, JobOK, TypeOK
      <4>3. PICK p : p = proc[y]
        BY Zenon
      <4>4. Published(p)' = route'
        BY <1>2, <3>1, <4>2, <4>3, PublishedExact
      <4> QED
        BY <3>1, <4>1, <4>3, <4>4, Zenon
    <3> QED
      BY <3>1, <3>2, Zenon DEF RunInv
  <2> QED
    BY <2>1, <2>2, Zenon
<1>10. ~Quiet(proc[x])
  BY <1>1, <1>2, Zenon DEF Quiet
<1> QED
  BY <1>2, <1>5, <1>6, <1>7, <1>9, <1>10, Finishes, Zenon

LEMMA RemoveKeeps ==
  ASSUME IInv, NEW x \in Processes, Remove(x)
  PROVE  IInv'
<1>1. /\ proc[x].pc = "remove" /\ object' = NoObject /\ route' = NoRoute /\ flight' = Replaced
      /\ End(x, "completed")
      /\ UNCHANGED <<row, known, cache, fetches, now, identityOf, misfiled, outdated>>
  BY Zenon DEF Remove, At, bounds, history
<1>2. row = NoRow /\ Holds(proc[x]) /\ ~Quiet(proc[x])
  BY <1>1, Zenon DEF IInv, JobInv, JobOK, Holds, Quiet
<1>3. flight' \in Flight \cup {NoFlight} /\ (flight' = NoFlight \/ ~flight'.current)
  BY <1>1, Replacing, Zenon DEF IInv
<1>4. ObjectInv'
  BY <1>1, <1>3, Zenon DEF ObjectInv
<1>5. proc' = [proc EXCEPT ![x] = Idle]
  BY <1>1, Zenon DEF End
<1>6. Serves(row, object, route)'
  BY <1>1, <1>2, Absent, Zenon DEF Serves
<1>7. RunInv'
  BY <1>2, <1>5, <1>6, LastOne, Zenon
<1> QED
  BY <1>1, <1>2, <1>3, <1>4, <1>7, Finishes, Zenon

-----------------------------------------------------------------------------
(* The account object, the restart and the clock. *)

\* A step of the account object: the operations see at most a newer credential.
LEMMA ObjectMoves ==
  ASSUME IInv, UNCHANGED <<known, route, broken, cache, fetches, proc, gate, login, misfiled,
                           outdated, behind>>,
         now' \in Nat, row' \in Row \cup {NoRow}, object' \in Object \cup {NoObject},
         flight' \in Flight \cup {NoFlight}, object' = NoObject <=> object = NoObject,
         SameAccount, IdentityInv', Grows, ObjectInv', known \/ UNCHANGED <<row, identityOf>>
  PROVE  IInv'
<1> USE DEF IInv
<1>1. TypeOK' /\ Fetches
  BY DEF TypeOK, Fetches
<1>2. QuotaInv' /\ CacheMoves
  BY <1>1, QuotaKeeps, Zenon
<1>3. JobInv'
  <2>1. RowGrows
    BY Absent, Columns DEF SameAccount, RowGrows
  <2> QED
    BY <1>1, <1>2, <2>1, JobsStay, Zenon
<1>4. KnownInv'
  BY Zenon DEF KnownInv
<1>5. RunInv'
  BY <1>1, RunKeeps, Zenon
<1>6. LoginInv'
  BY LoginKeeps, Zenon
<1> QED
  BY <1>1, <1>2, <1>3, <1>4, <1>5, <1>6, Zenon

LEMMA ObserveKeeps ==
  ASSUME IInv, Observe
  PROVE  IInv'
<1>1. /\ UNCHANGED <<row, known, route, broken, cache, fetches, proc, gate, login, flight, now,
                     identityOf, misfiled, outdated, behind>>
      /\ object \in Object
  BY Zenon DEF Observe, bounds, history, IInv, TypeOK
<1>2. PICK o, seen :
        /\ o = object
        /\ seen = [revision |-> o.revision, generation |-> o.seen.generation + 1, identity |-> o.identity]
  BY Zenon
<1>3. object' = [o EXCEPT !.seen = seen]
  BY <1>2, Zenon DEF Observe
<1>4. seen \in Observation /\ o \in Object /\ seen.revision = o.revision /\ seen.identity = o.identity
  BY <1>1, <1>2 DEF Object, Observation
<1>5. /\ object' \in Object /\ object'.revision = object.revision /\ object'.seen = seen
      /\ object'.identity = object.identity
  BY <1>2, <1>3, <1>4, Zenon DEF Object
<1>6. object # NoObject /\ object' # NoObject
  BY <1>1, <1>5, Absent, Zenon
<1>7. Grows /\ IdentityInv' /\ SameAccount
  BY <1>1, SameCredential, Zenon DEF SameAccount, IInv
<1>8. ObjectInv'
  BY <1>1, <1>2, <1>4, <1>5, <1>6, Zenon DEF IInv, ObjectInv, Backed
<1> QED
  BY <1>1, <1>5, <1>6, <1>7, <1>8, ObjectMoves, Zenon DEF IInv, TypeOK

LEMMA StartRefreshKeeps ==
  ASSUME IInv, StartRefresh
  PROVE  IInv'
<1>1. /\ UNCHANGED <<row, known, object, route, broken, cache, fetches, proc, gate, login, now,
                     identityOf, misfiled, outdated, behind>>
      /\ object \in Object /\ object # NoObject
      /\ flight' = [revision |-> object.revision, current |-> TRUE]
  BY Zenon DEF StartRefresh, runtime, bounds, history, IInv, TypeOK
<1>2. flight' \in Flight /\ flight'.revision = object.revision
  BY <1>1, Zenon DEF Flight, Object
<1>3. Grows /\ IdentityInv' /\ SameAccount
  BY <1>1, SameCredential, Zenon DEF SameAccount, IInv
<1>4. ObjectInv'
  BY <1>1, <1>2, Zenon DEF IInv, ObjectInv, Backed
<1> QED
  BY <1>1, <1>2, <1>3, <1>4, ObjectMoves, Zenon DEF IInv, TypeOK

\* Only the object that made the refresh learns the credential, and it had the row's.
LEMMA EndRefreshKeeps ==
  ASSUME IInv, EndRefresh
  PROVE  IInv'
<1>1. /\ UNCHANGED <<known, route, broken, cache, fetches, proc, gate, login, now, misfiled,
                     outdated, behind>>
      /\ flight # NoFlight /\ flight' = NoFlight /\ flight \in Flight
      /\ identityOf' = IF row.present THEN Revision(row') ELSE identityOf
  BY Zenon DEF EndRefresh, bounds, IInv, TypeOK
<1>2. CASE ~Commits(row, flight.revision) /\ UNCHANGED <<row, object>>
  <2>1. Grows /\ IdentityInv' /\ SameAccount /\ row' \in Row \cup {NoRow}
    <3>1. CASE row = NoRow
      BY <1>1, <1>2, <3>1, Absent, SameCredential, Zenon DEF SameAccount, IInv
    <3>2. CASE row \in Row
      <4>1. identityOf' = Revision(row')
        BY <1>1, <3>2, Absent, Zenon
      <4> QED
        BY <1>2, <3>2, <4>1, Revised, Zenon DEF SameAccount, IInv
    <3> QED
      BY <3>1, <3>2, Zenon DEF IInv, TypeOK
  <2>2. known \/ identityOf' = identityOf
    BY <1>1, Absent, Zenon DEF IInv, KnownInv
  <2>3. ObjectInv'
    BY <1>1, <1>2, <2>1, BackedKeeps, Zenon DEF IInv, ObjectInv
  <2> QED
    BY <1>1, <1>2, <2>1, <2>2, <2>3, ObjectMoves, Zenon DEF IInv, TypeOK
<1>3. ASSUME Commits(row, flight.revision)
      PROVE  /\ row \in Row /\ row # NoRow /\ known /\ row.revision = flight.revision
             /\ identityOf' = Revision(row') /\ row.revision \in Nat
             /\ Backed(row.revision, row.identity)
  BY <1>1, <1>3, Absent, Columns, Zenon DEF Commits, IInv, TypeOK, KnownInv, IdentityInv
<1>4. CASE Commits(row, flight.revision) /\ row' = Marked(row) /\ object' = object
  <2>1. row' \in Row /\ SameAccount /\ row'.revision = row.revision /\ row'.identity = row.identity
    <3>1. /\ Marked(row) \in Row /\ RouteOf(Marked(row)) = RouteOf(row)
          /\ Marked(row).revision = row.revision /\ Marked(row).identity = row.identity
          /\ Marked(row).enabled = row.enabled
      BY <1>3, <1>4, RowWritten, Zenon
    <3> QED
      BY <1>3, <1>4, <3>1 DEF SameAccount
  <2>2. Grows /\ IdentityInv'
    BY <1>3, <1>4, <2>1, Revised, Zenon DEF IInv
  <2>3. ObjectInv'
    BY <1>1, <1>4, <2>2, BackedKeeps, Zenon DEF IInv, ObjectInv
  <2> QED
    BY <1>1, <1>3, <1>4, <2>1, <2>2, <2>3, ObjectMoves, Zenon DEF IInv, TypeOK
<1>5. CASE /\ Commits(row, flight.revision) /\ row' = Swapped(row)
           /\ object' = IF flight.current
                        THEN [object EXCEPT !.revision = @ + 1, !.seen = [@ EXCEPT !.revision = -1]]
                        ELSE object
  <2>1. /\ row' \in Row /\ SameAccount /\ row'.revision = row.revision + 1
        /\ row'.identity = row.identity
    <3>1. /\ Swapped(row) \in Row /\ RouteOf(Swapped(row)) = RouteOf(row)
          /\ Swapped(row).revision = row.revision + 1 /\ Swapped(row).identity = row.identity
          /\ Swapped(row).enabled = row.enabled
      BY <1>3, <1>5, RowWritten, Zenon
    <3> QED
      BY <1>3, <1>5, <3>1 DEF SameAccount
  <2>2. Grows /\ IdentityInv'
    BY <1>3, <1>5, <2>1, Revised, Zenon DEF IInv
  <2>3. CASE ~flight.current
    <3>1. ObjectInv'
      BY <1>1, <1>5, <2>2, <2>3, BackedKeeps, Zenon DEF IInv, ObjectInv
    <3> QED
      BY <1>1, <1>3, <1>5, <2>1, <2>2, <2>3, <3>1, ObjectMoves, Zenon DEF IInv, TypeOK
  <2>4. CASE flight.current
    <3>1. /\ object \in Object /\ object # NoObject /\ object.revision = row.revision
          /\ Backed(object.revision, object.identity)
      BY <1>1, <1>3, <1>5, <2>4, Zenon DEF IInv, ObjectInv, TypeOK
    <3>2. object.identity = row.identity
      BY <1>3, <1>5, <3>1, Zenon DEF Backed
    <3>3. PICK o, seen : o = object /\ seen = [o.seen EXCEPT !.revision = -1]
      BY Zenon
    <3>4. seen \in Observation /\ seen.revision = -1
      BY <3>1, <3>3 DEF Object, Observation
    <3>5. object' = [o EXCEPT !.revision = o.revision + 1, !.seen = seen]
      BY <1>5, <2>4, <3>3, Zenon
    <3>6. object' \in Object
      <4>1. o \in Object /\ o.revision + 1 \in Nat
        BY <3>1, <3>3 DEF Object
      <4> QED
        BY <3>4, <3>5, <4>1, Zenon DEF Object
    <3>7. /\ object'.revision = object.revision + 1 /\ object'.seen = seen
          /\ object'.identity = object.identity
      BY <3>1, <3>3, <3>5, Zenon DEF Object
    <3>8. object' # NoObject
      BY <3>6, Absent, Zenon
    <3>9. ObjectInv'
      <4>1. Backed(row.revision, row.identity)'
        BY <2>1, <2>2, Absent, Zenon DEF IdentityInv
      <4>2. Backed(object.revision, object.identity)'
        BY <2>1, <3>1, <3>2, <3>7, <4>1, Zenon
      <4> QED
        BY <1>1, <3>4, <3>7, <4>2, Zenon DEF ObjectInv
    <3> QED
      BY <1>1, <1>3, <1>5, <2>1, <2>2, <3>1, <3>6, <3>8, <3>9, ObjectMoves, Zenon DEF IInv, TypeOK
  <2> QED
    BY <2>3, <2>4, Zenon
<1> QED
  BY <1>2, <1>4, <1>5, Zenon DEF EndRefresh

LEMMA TickKeeps ==
  ASSUME IInv, Tick
  PROVE  IInv'
<1>1. /\ UNCHANGED <<row, known, object, route, broken, cache, fetches, proc, gate, login, flight,
                     identityOf, misfiled, outdated, behind>>
      /\ now' \in Nat
  BY DEF Tick, runtime, history, IInv, TypeOK
<1>2. Grows /\ IdentityInv' /\ SameAccount
  BY <1>1, SameCredential, Zenon DEF SameAccount, IInv
<1>3. ObjectInv'
  BY <1>1, <1>2, ObjectKeeps, Zenon DEF IInv
<1> QED
  BY <1>1, <1>2, <1>3, ObjectMoves, Zenon DEF IInv, TypeOK

\* The restart: what is built serves the row.
LEMMA RestartKeeps ==
  ASSUME IInv, Restart
  PROVE  IInv'
<1>1. /\ cache' = NoEntry /\ login' = NoLogin /\ flight' = NoFlight
      /\ proc' = [x \in Processes |-> Idle] /\ gate' = Free
      /\ UNCHANGED <<row, known, fetches, now, identityOf, misfiled, outdated>>
  BY Zenon DEF Restart, history
<1>2. PICK built \in BOOLEAN :
        /\ object' = IF built THEN ObjectOf(row) ELSE NoObject
        /\ route' = IF built THEN RouteOf(row) ELSE NoRoute
        /\ broken' = (row.present /\ row.enabled /\ ~built)
        /\ built => row.present /\ row.enabled
  BY Zenon DEF Restart
<1>3. row \in Row \/ (row = NoRow /\ ~built)
  BY <1>2, Absent, Zenon DEF IInv, TypeOK
<1>4. TypeOK'
  <2>1. object' \in Object \cup {NoObject} /\ route' \in RouteRow \cup {NoRoute}
    BY <1>2, <1>3, ObjectMade, RowWritten, Zenon
  <2> QED
    BY <1>1, <2>1, Zenon DEF IInv, TypeOK, Job, Cached
<1>5. IdentityInv' /\ Grows
  BY <1>1, SameCredential, Zenon DEF IInv
<1>6. ObjectInv'
  <2>1. CASE ~built
    BY <1>1, <1>2, <2>1, Zenon DEF ObjectInv
  <2>2. CASE built
    <3>1. PICK r : r = row
      BY Zenon
    <3>2. r \in Row /\ Backed(r.revision, r.identity)
      BY <1>3, <2>2, <3>1, Absent, Zenon DEF IInv, IdentityInv
    <3>3. Backed(r.revision, r.identity)'
      BY <1>5, <3>2, BackedKeeps, Zenon
    <3> QED
      BY <1>1, <1>2, <2>2, <3>1, <3>2, <3>3, ObjectBuilt, Zenon
  <2> QED
    BY <2>1, <2>2, Zenon
<1>7. QuotaInv'
  BY <1>1, Zenon DEF IInv, QuotaInv, EntryOK
<1>8. \A x \in Processes : proc'[x] = Idle /\ Idle.pc = "idle"
  BY <1>1, Zenon DEF Idle
<1>9. JobInv'
  BY <1>8, Zenon DEF JobInv, JobOK, Holds
<1>10. KnownInv'
  BY <1>1, <1>8, Zenon DEF IInv, KnownInv
<1>11. RunInv'
  <2> SUFFICES ASSUME ~broken'
               PROVE  Serves(row, object, route)'
    BY <1>8, Zenon DEF RunInv, At
  <2> QED
    BY <1>1, <1>2, <1>3, Absent, ObjectMade, Zenon DEF Serves
<1>12. LoginInv'
  BY <1>1, <1>8, Zenon DEF LoginInv, At, Processes
<1> QED
  BY <1>4, <1>5, <1>6, <1>7, <1>9, <1>10, <1>11, <1>12, Zenon DEF IInv

-----------------------------------------------------------------------------
(* The login session. *)

\* Every step of complete leaves a flow.
LEMMA FlowTyped ==
  ASSUME NEW flow \in Flow
  PROVE  FlowSteps(flow) \subseteq Flow
<1>1. \A stage \in Stages : GoTo(flow, stage) \in Flow
  BY Zenon DEF Flow, GoTo
<1>2. \A stage \in Stages : \A answer : Answered(flow, answer, stage) \in Flow
  BY <1>1, Zenon DEF Answered, Stages, FlowEnds
<1>3. ReceiveCallback(flow) \subseteq Flow
  <2>1. PICK f : f = [flow EXCEPT !.queued = FALSE]
    BY Zenon
  <2>2. f \in Flow
    BY <2>1, Zenon DEF Flow
  <2>3. GoTo(f, "exchange") \in Flow
    BY <2>2, Zenon DEF Flow, GoTo, Stages
  <2>4. GoTo(flow, "refused") \in Flow
    BY <1>1, Zenon DEF Stages, FlowEnds
  <2> QED
    BY <2>1, <2>3, <2>4, Zenon DEF ReceiveCallback
<1>4. Wake(flow) \in Flow
  BY <1>1, Zenon DEF Wake, Stages, FlowEnds
<1>5. \A a : CodexPoll(flow, a) \in Flow /\ GrokPoll(flow, a) \in Flow
  BY <1>1, <1>2, Zenon DEF CodexPoll, GrokPoll, Stages, FlowEnds
<1>6. \A a : CodexExchange(flow, a) \in Flow /\ ExchangeCode(flow, a) \in Flow
  BY <1>1, <1>2, Zenon DEF CodexExchange, ExchangeCode, Stages, FlowEnds
<1>7. \A a : FetchUserInfo(flow, a) \in Flow /\ FetchProjectId(flow, a) \in Flow
  BY <1>1, <1>2, Zenon DEF FetchUserInfo, FetchProjectId, Stages, FlowEnds
<1>8. \A a : OnboardUser(flow, a) \in Flow
  <2>1. PICK f : f = [flow EXCEPT !.tries = @ + 1]
    BY Zenon
  <2>2. f \in Flow
    <3>1. flow.tries + 1 \in Nat
      BY DEF Flow
    <3> QED
      BY <2>1, <3>1, Zenon DEF Flow
  <2>3. GoTo(f, "refused") \in Flow
    BY <2>2, Zenon DEF Flow, GoTo, Stages, FlowEnds
  <2>4. \A a : Answered(flow, a, "granted") \in Flow
    BY <1>2, Zenon DEF Stages, FlowEnds
  <2> QED
    BY <2>1, <2>2, <2>3, <2>4, Zenon DEF OnboardUser
<1> QED
  BY <1>3, <1>4, <1>5, <1>6, <1>7, <1>8, Zenon DEF FlowSteps

LEMMA StartFlowTyped ==
  ASSUME NEW kind \in Kinds, NEW listens \in BOOLEAN
  PROVE  StartFlow(kind, listens) \in Flow
BY Zenon DEF StartFlow, CodexStart, GrokStart, AntigravityStart, NewFlow, Flow, FlowKinds, Stages

\* A step that touches only the session.
LEMMA SessionMoves ==
  ASSUME IInv, UNCHANGED <<row, known, object, route, broken, cache, fetches, gate, flight, now,
                           identityOf, misfiled, outdated, behind>>,
         login' \in Session, LoginInv',
         ~known => login'.target = "create",
         \/ proc' = proc
         \/ \E p \in EditJob \cup CreateJob :
              /\ proc' = [proc EXCEPT ![Login] = p] /\ At(Login, "idle")
              /\ p.pc = "prepared" \/ (p.pc = "gate" /\ known)
  PROVE  IInv'
<1> USE DEF IInv
<1>1. Grows /\ IdentityInv' /\ SameAccount /\ Fetches
  BY SameCredential DEF SameAccount, Fetches, TypeOK
<1>2. QuotaInv' /\ CacheMoves
  BY <1>1, QuotaKeeps, Zenon
<1>3. ObjectInv'
  BY <1>1, ObjectKeeps, Zenon
<1>4. RowGrows
  BY Columns DEF RowGrows
<1>5. CASE proc' = proc
  <2>1. TypeOK'
    BY <1>5, Zenon DEF TypeOK
  <2>2. JobInv'
    BY <1>1, <1>2, <1>4, <1>5, <2>1, JobsStay, Zenon
  <2>3. RunInv'
    BY <1>1, <1>5, <2>1, RunKeeps, Zenon
  <2>4. KnownInv'
    BY <1>5, Zenon DEF KnownInv
  <2> QED
    BY <1>1, <1>2, <1>3, <2>1, <2>2, <2>3, <2>4, Zenon
<1>6. ASSUME NEW p \in EditJob \cup CreateJob, proc' = [proc EXCEPT ![Login] = p],
             At(Login, "idle"), p.pc = "prepared" \/ (p.pc = "gate" /\ known)
      PROVE  IInv'
  <2>1. p \in Job /\ p.op # "quota" /\ Login \in Processes
    BY Zenon DEF Job, EditJob, CreateJob, Editing, Processes
  <2>2. JobOK(p)' /\ ~Holds(p) /\ Quiet(p) /\ Quiet(proc[Login])
    BY <1>6, <2>1, Zenon DEF JobOK, Holds, Quiet, At
  <2>3. TypeOK'
    BY <1>6, <2>1, Zenon DEF TypeOK
  <2>4. JobInv'
    BY <1>1, <1>2, <1>4, <1>6, <2>1, <2>2, <2>3, JobsKeep, Zenon
  <2>5. \A y \in Processes : proc'[y] = proc[y] \/ (Quiet(proc[y]) /\ Quiet(proc'[y]))
    BY <1>6, <2>2, Zenon DEF TypeOK
  <2>6. RunInv'
    BY <1>1, <2>3, <2>5, RunKeeps, Zenon
  <2>7. KnownInv'
    BY <1>6, <2>1, Zenon DEF KnownInv, TypeOK
  <2> QED
    BY <1>1, <1>2, <1>3, <2>3, <2>4, <2>6, <2>7, Zenon
<1> QED
  BY <1>5, <1>6, Zenon

LEMMA StartLoginKeeps ==
  ASSUME IInv, StartLogin
  PROVE  IInv'
<1>1. PICK kind \in Kinds, target \in {"create", "reauth"}, listens \in BOOLEAN :
        /\ At(Login, "idle")
        /\ IF target = "create" THEN ~known ELSE row.present
        /\ login' = [status |-> "pending", target |-> target, flow |-> StartFlow(kind, listens),
                     dead |-> FALSE, effects |-> 0]
        /\ UNCHANGED <<row, known, object, route, broken, cache, fetches, proc, gate, flight, now,
                       identityOf, misfiled, outdated, behind>>
  BY Zenon DEF StartLogin, runtime, bounds, history
<1>2. PICK flow \in Flow : flow = StartFlow(kind, listens)
  BY StartFlowTyped, Zenon
<1>3. /\ login' \in Session /\ login'.status = "pending" /\ login'.effects = 0
      /\ login'.target = target
  BY <1>1, <1>2, Zenon DEF Session
<1>4. LoginInv'
  BY <1>1, <1>3, Absent, Zenon DEF IInv, LoginInv, At
<1>5. ~known => target = "create"
  BY <1>1, Absent, Zenon DEF IInv, KnownInv
<1> QED
  BY <1>1, <1>3, <1>4, <1>5, SessionMoves, Zenon

\* A step of complete, the deadline, the callback, a cancellation and a refusal: an open
\* session may be closed, without an effect.
LEMMA SessionKeeps ==
  ASSUME IInv, Authorize \/ Expire \/ Callback \/ Cancel \/ LoginRefused
  PROVE  IInv'
<1>1. /\ UNCHANGED <<row, known, object, route, broken, cache, fetches, proc, gate, flight, now,
                     identityOf, misfiled, outdated, behind>>
      /\ login # NoLogin /\ login \in Session
  BY Zenon DEF Authorize, Expire, Callback, Cancel, LoginRefused, Running, OnlyLogin, runtime, bounds,
         history, IInv, TypeOK
<1>2. PICK s : s = login
  BY Zenon
<1>3. PICK status, flow, dead :
        /\ login' = [s EXCEPT !.status = status, !.flow = flow, !.dead = dead]
        /\ flow \in Flow /\ dead \in BOOLEAN
        /\ status = s.status \/ (s.status = "pending" /\ status \in {"failed", "cancelled"})
  <2>1. s \in Session /\ s.flow \in Flow /\ s.dead \in BOOLEAN
    BY <1>1, <1>2, Zenon DEF Session
  <2>2. CASE Authorize
    <3>1. PICK flow \in FlowSteps(s.flow) : login' = [s EXCEPT !.flow = flow]
      BY <1>2, <2>2, Zenon DEF Authorize
    <3>2. flow \in Flow
      BY <2>1, FlowTyped, Zenon
    <3>3. login' = [s EXCEPT !.status = s.status, !.flow = flow, !.dead = s.dead]
      BY <2>1, <3>1, Zenon DEF Session
    <3> QED
      BY <2>1, <3>2, <3>3, Zenon
  <2>3. CASE Expire
    <3>1. PICK flow : flow = [s.flow EXCEPT !.late = TRUE]
      BY Zenon
    <3>2. flow \in Flow
      BY <2>1, <3>1, Zenon DEF Flow
    <3>3. login' = [s EXCEPT !.flow = flow]
      BY <1>2, <2>3, <3>1, Zenon DEF Expire
    <3>4. login' = [s EXCEPT !.status = s.status, !.flow = flow, !.dead = s.dead]
      BY <2>1, <3>3, Zenon DEF Session
    <3> QED
      BY <2>1, <3>2, <3>4, Zenon
  <2>4. CASE Callback
    <3>1. PICK flow : flow = Submitted(s.flow)
      BY Zenon
    <3>2. flow \in Flow
      BY <2>1, <3>1, Zenon DEF Flow, Submitted
    <3>3. login' = [s EXCEPT !.flow = flow]
      BY <1>2, <2>4, <3>1, Zenon DEF Callback
    <3>4. login' = [s EXCEPT !.status = s.status, !.flow = flow, !.dead = s.dead]
      BY <2>1, <3>3, Zenon DEF Session
    <3> QED
      BY <2>1, <3>2, <3>4, Zenon
  <2>5. CASE Cancel
    <3>1. PICK dead \in BOOLEAN : dead = (s.flow.stage \notin FlowEnds)
      BY Zenon
    <3>2. login' = [s EXCEPT !.status = "cancelled", !.dead = dead] /\ s.status = "pending"
      BY <1>2, <2>5, <3>1, Zenon DEF Cancel
    <3>3. login' = [s EXCEPT !.status = "cancelled", !.flow = s.flow, !.dead = dead]
      BY <2>1, <3>2, Zenon DEF Session
    <3> QED
      BY <2>1, <3>2, <3>3, Zenon
  <2>6. CASE LoginRefused
    <3>1. s.status # "provisioning"
      BY <1>1, <1>2, <2>6, Zenon DEF LoginRefused, Running, IInv, LoginInv
    <3>2. PICK status : status = IF s.status = "pending" THEN "failed" ELSE s.status
      BY Zenon
    <3>3. Finished(s, "failed") = [s EXCEPT !.status = status]
      BY <2>1, <3>1, <3>2, Zenon DEF Finished, Session
    <3>4. login' = [[s EXCEPT !.status = status] EXCEPT !.dead = TRUE]
      BY <1>2, <2>6, <3>3, Zenon DEF LoginRefused
    <3>5. login' = [s EXCEPT !.status = status, !.flow = s.flow, !.dead = TRUE]
      BY <2>1, <3>4, Zenon DEF Session
    <3> QED
      BY <2>1, <3>2, <3>5, Zenon
  <2> QED
    BY <2>2, <2>3, <2>4, <2>5, <2>6, Zenon
<1>4. status \in {"pending", "provisioning", "completed", "failed", "cancelled"}
  BY <1>1, <1>2, <1>3, Zenon DEF Session
<1>5. login' \in Session
  BY <1>1, <1>2, <1>3, <1>4, Zenon DEF Session
<1>6. login'.status = status /\ login'.effects = login.effects /\ login'.target = login.target
  BY <1>1, <1>2, <1>3, Zenon DEF Session
<1>7. LoginInv'
  BY <1>1, <1>2, <1>3, <1>5, <1>6, Absent, Zenon DEF IInv, LoginInv, At
<1>8. ~known => login'.target = "create"
  BY <1>1, <1>6, Zenon DEF IInv, KnownInv
<1> QED
  BY <1>1, <1>5, <1>7, <1>8, SessionMoves, Zenon

\* begin_oauth_provisioning.
LEMMA BeginProvisioningKeeps ==
  ASSUME IInv, BeginProvisioning
  PROVE  IInv'
<1>1. PICK s, status : s = login /\ status = IF s.status = "pending" THEN "provisioning" ELSE s.status
  BY Zenon
<1>2. /\ UNCHANGED <<row, known, object, route, broken, cache, fetches, gate, flight, now,
                     identityOf, misfiled, outdated, behind>>
      /\ s # NoLogin /\ s \in Session /\ At(Login, "idle")
      /\ login' = [s EXCEPT !.dead = TRUE, !.status = status]
  BY <1>1, Zenon DEF BeginProvisioning, Running, OnlyLogin, runtime, bounds, history, IInv, TypeOK
<1>3. status \in {"pending", "provisioning", "completed", "failed", "cancelled"}
  BY <1>1, <1>2, Zenon DEF Session
<1>4. login' \in Session
  BY <1>2, <1>3, Zenon DEF Session
<1>5. login'.status = status /\ login'.effects = login.effects /\ login'.target = login.target
  BY <1>1, <1>2, Zenon DEF Session
<1>6. ~known => login'.target = "create" /\ login.target = "create"
  BY <1>1, <1>2, <1>5, Zenon DEF IInv, KnownInv
<1>7. s.status # "provisioning" /\ login.effects = IF s.status = "completed" THEN 1 ELSE 0
  BY <1>1, <1>2, Zenon DEF IInv, LoginInv, At
<1>8. login' # NoLogin /\ Login \in Processes
  BY <1>4, Absent, Zenon DEF Processes
<1>9. CASE s.status # "pending"
  <2>1. proc' = proc /\ status = s.status
    BY <1>1, <1>9, Zenon DEF BeginProvisioning
  <2>2. LoginInv'
    BY <1>1, <1>2, <1>5, <1>7, <1>8, <2>1, Zenon DEF IInv, LoginInv, At
  <2> QED
    BY <1>2, <1>4, <1>6, <2>1, <2>2, SessionMoves, Zenon
<1>10. CASE s.status = "pending"
  <2>1. PICK p : p = IF login.target = "create"
                     THEN [pc |-> "prepared", op |-> "create", patch |-> FirstPatch]
                     ELSE [pc |-> "gate", op |-> "replace", patch |-> FirstPatch, current |-> NoRow]
    BY Zenon
  <2>2. proc' = [proc EXCEPT ![Login] = p] /\ status = "provisioning"
    BY <1>1, <1>10, <2>1, Zenon DEF BeginProvisioning
  <2>3. /\ p \in EditJob \cup CreateJob
        /\ p.pc = "prepared" \/ (p.pc = "gate" /\ p.op = "replace" /\ known)
    <3>1. CASE login.target = "create"
      BY <2>1, <3>1, FirstPatchMade, Zenon DEF CreateJob
    <3>2. CASE login.target # "create"
      BY <1>6, <2>1, <3>2, FirstPatchMade, Zenon DEF EditJob, Editing
    <3> QED
      BY <3>1, <3>2, Zenon
  <2>4. proc'[Login] = p
    BY <1>8, <2>2, Zenon DEF IInv, TypeOK
  <2>5. LoginInv'
    BY <1>5, <1>7, <1>8, <1>10, <2>2, <2>3, <2>4, Zenon DEF LoginInv, At
  <2> QED
    BY <1>2, <1>4, <1>6, <2>2, <2>3, <2>5, SessionMoves, Zenon
<1> QED
  BY <1>9, <1>10, Zenon

-----------------------------------------------------------------------------
(* The theorems. *)

LEMMA InitEstablishes ==
  ASSUME Init
  PROVE  IInv
<1>1. PICK there \in BOOLEAN :
        /\ known = there
        /\ row = IF there
                 THEN [NewAccount(FirstPatch) EXCEPT !.models = WriteModels(@, Models, TRUE, TRUE)]
                 ELSE NoRow
        /\ object = IF there THEN ObjectOf(row) ELSE NoObject
        /\ route = IF there THEN RouteOf(row) ELSE NoRoute
        /\ identityOf = IF there THEN [r \in 0 .. 0 |-> 0] ELSE [r \in {} |-> 0]
  BY Zenon DEF Init
<1>2. /\ ~broken /\ ~behind /\ ~misfiled /\ ~outdated /\ cache = NoEntry /\ fetches = 0
      /\ proc = [x \in Processes |-> Idle] /\ login = NoLogin /\ flight = NoFlight /\ now = 0
  BY Zenon DEF Init
<1>3. there => row \in Row /\ row.revision = 0 /\ row.identity = 0 /\ row.enabled /\ row # NoRow
  BY <1>1, FirstPatchMade, AccountInserted, Absent, Zenon
<1>4. TypeOK
  <2>1. object \in Object \cup {NoObject} /\ route \in RouteRow \cup {NoRoute}
    BY <1>1, <1>3, ObjectMade, RowWritten, Zenon
  <2> QED
    BY <1>1, <1>2, <1>3, <2>1, Zenon DEF TypeOK, Job, Cached
<1>5. IdentityInv
  <2>1. CASE there
    <3>1. identityOf = [r \in 0 .. 0 |-> 0]
      BY <1>1, <2>1, Zenon
    <3> QED
      BY <1>3, <2>1, <3>1 DEF IdentityInv, Backed
  <2>2. CASE ~there
    BY <1>1, <2>2, Zenon DEF IdentityInv
  <2> QED
    BY <2>1, <2>2, Zenon
<1>6. ObjectInv
  <2>1. CASE there
    <3>1. /\ object.revision = row.revision /\ object.identity = row.identity
          /\ object.seen.revision = -1
      BY <1>1, <1>3, <2>1, ObjectMade, Zenon
    <3> QED
      BY <1>2, <1>3, <1>5, <2>1, <3>1, Zenon DEF ObjectInv, IdentityInv
  <2>2. CASE ~there
    BY <1>1, <1>2, <2>2, Zenon DEF ObjectInv
  <2> QED
    BY <2>1, <2>2, Zenon
<1>7. QuotaInv
  BY <1>2, Zenon DEF QuotaInv, EntryOK
<1>8. \A x \in Processes : proc[x] = Idle /\ Idle.pc = "idle"
  BY <1>2, Zenon DEF Idle
<1>9. JobInv
  BY <1>8, Zenon DEF JobInv, JobOK, Holds
<1>10. KnownInv
  BY <1>1, <1>2, <1>8, Zenon DEF KnownInv
<1>11. RunInv
  <2>1. Serves(row, object, route)
    BY <1>1, <1>3, Absent, ObjectMade, Zenon DEF Serves
  <2> QED
    BY <1>8, <2>1, Zenon DEF RunInv, At
<1>12. LoginInv
  BY <1>2, <1>8, Zenon DEF LoginInv, At, Processes
<1> QED
  BY <1>4, <1>5, <1>6, <1>7, <1>9, <1>10, <1>11, <1>12, Zenon DEF IInv

LEMMA StutterKeeps ==
  ASSUME IInv, UNCHANGED vars
  PROVE  IInv'
<1>1. /\ UNCHANGED <<row, known, object, route, broken, cache, fetches, proc, gate, login, flight,
                     now, identityOf, misfiled, outdated, behind>>
  BY Zenon DEF vars
<1>2. Grows /\ IdentityInv' /\ SameAccount
  BY <1>1, SameCredential, Zenon DEF SameAccount, IInv
<1>3. ObjectInv'
  BY <1>1, <1>2, ObjectKeeps, Zenon DEF IInv
<1> QED
  BY <1>1, <1>2, <1>3, ObjectMoves, Zenon DEF IInv, TypeOK

LEMMA NextKeeps ==
  ASSUME IInv, [Next]_vars
  PROVE  IInv'
<1>1. ASSUME NEW x \in Processes, Step(x)
      PROVE  IInv'
  <2>1. CASE EnterQuota(x)
    BY <1>1, <2>1, AnswersKeep, AsksKeep, Zenon
  <2>2. CASE NotFound(x) \/ GiveUp(x)
    BY <1>1, <2>2, QuittersKeep, Zenon
  <2>3. CASE Enter(x) \/ Commit(x) \/ CommitCreate(x) \/ Install(x)
    BY <1>1, <2>3, EnterKeeps, CommitKeeps, CommitCreateKeeps, InstallKeeps, Zenon
  <2>4. CASE WriteRow(x) \/ WriteModel(x) \/ Publish(x) \/ DeleteRow(x) \/ Remove(x)
    BY <1>1, <2>4, WriteRowKeeps, WriteModelKeeps, PublishKeeps, DeleteRowKeeps, RemoveKeeps, Zenon
  <2>5. CASE Fetch(x) \/ Store(x) \/ ListQuota(x)
    BY <1>1, <2>5, FetchKeeps, StoreKeeps, ListQuotaKeeps, Zenon
  <2> QED
    BY <1>1, <2>1, <2>2, <2>3, <2>4, <2>5, Zenon DEF Step
<1>2. ASSUME NEW h \in Handlers, Drop(h)
      PROVE  IInv'
  BY <1>2, QuittersKeep, Zenon DEF Processes
<1>3. ASSUME NEW h \in Handlers, StartQuota(h)
      PROVE  IInv'
  BY <1>3, StartQuotaKeeps, Zenon
<1>4. CASE \/ \E h \in Handlers : \/ StartUpdate(h) \/ StartEdit(h) \/ StartUpdateModel(h)
                                  \/ StartCreate(h) \/ StartList(h)
           \/ StartSweep
  BY <1>4, StartsKeep, Zenon
<1>5. CASE StartLogin \/ LoginStep \/ Expire \/ Callback \/ Cancel
  BY <1>5, StartLoginKeeps, SessionKeeps, BeginProvisioningKeeps, Zenon DEF LoginStep
<1>6. CASE Observe \/ StartRefresh \/ EndRefresh \/ Restart \/ Tick
  BY <1>6, ObserveKeeps, StartRefreshKeeps, EndRefreshKeeps, RestartKeeps, TickKeeps, Zenon
<1>7. CASE UNCHANGED vars
  BY <1>7, StutterKeeps, Zenon
<1> QED
  BY <1>1, <1>2, <1>3, <1>4, <1>5, <1>6, <1>7, Zenon DEF Next

\* Every reachable state of the managed account satisfies the inductive invariant.
THEOREM ManagementInvariant == Spec => []IInv
<1>1. Init => IInv
  BY InitEstablishes, Zenon
<1>2. IInv /\ [Next]_vars => IInv'
  BY NextKeeps, Zenon
<1> QED
  BY <1>1, <1>2, PTL DEF Spec

\* Whatever operations, logins, sweeps, refreshes and restarts overlap, the runtime serves
\* the row whenever none of them is between its commit and its installation, unless the
\* code left it behind: install_account, publish and remove_account bring it up to date.
THEOREM RuntimeAlwaysFollowsRow == Spec => []RuntimeFollowsRow
<1>1. IInv => RuntimeFollowsRow
  BY Zenon DEF IInv, RunInv, RuntimeFollowsRow, At
<1> QED
  BY <1>1, ManagementInvariant, PTL

\* Quota data is kept for the login it was fetched with, and fetch_quota_view answers a
\* forced request with nothing older than the request.
THEOREM QuotaAlwaysCurrent == Spec => []QuotaIsCurrent
<1>1. IInv => QuotaIsCurrent
  BY Zenon DEF IInv, QuotaInv, EntryOK, Backed, QuotaIsCurrent, QuotaOfItsCredential, ForcedQuotaIsNew
<1> QED
  BY <1>1, ManagementInvariant, PTL

\* A login session that completed wrote the account once; one that is pending, failed or
\* was cancelled did not write it.
THEOREM LoginsLeaveOneEffect == Spec => []LoginLeavesOneEffect
<1>1. IInv => LoginLeavesOneEffect
  BY Zenon DEF IInv, LoginInv, LoginLeavesOneEffect, At
<1> QED
  BY <1>1, ManagementInvariant, PTL
=============================================================================
