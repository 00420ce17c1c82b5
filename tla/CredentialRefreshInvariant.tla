---------------------- MODULE CredentialRefreshInvariant ----------------------
(***************************************************************************)
(* The inductive invariant of CredentialRefresh: what an object, a task    *)
(* and the manager remember of the row is never ahead of it, and one task  *)
(* at a time works on an object.  Here are the invariant, what a step may  *)
(* do without disturbing its parts, the steps of a request, and those of a *)
(* refresh: a task takes the gate of its object and a permit, exchanges    *)
(* the refresh token, writes the row and leaves the result in the object.  *)
(* The proof goes on in CredentialRefreshProofs.                           *)
(***************************************************************************)
EXTENDS CredentialRefresh, TLAPS

Updates == [expected : Nat, credential : Nat]
Snaps == [credential : Nat, revision : Nat, generation : Nat]
ObjectStates ==
  [credential : Nat, revision : Nat, generation : Nat, auth : {"active", "reauth", "unbuilt"},
   due : BOOLEAN, pending : Updates, observation : Nat]
Steps == {"idle", "entered", "read", "serving", "gate", "limit", "exchange", "mark",
          "marked", "swap", "swapped", "finished"}
Outcomes == Results \union {"none", "updated", "error", "conflict"}
TaskStates ==
  [step : Steps, object : Nat, seen : Nat, snap : Snaps, refused : Nat, update : Updates,
   again : BOOLEAN, outcome : Outcomes]
Operations ==
  [step : {"idle", "discovering", "committed"}, object : Nat, expected : Nat,
   enabled : BOOLEAN, raced : BOOLEAN]
Commands == [kind : {"reschedule", "remove", "backoff"}, object : Nat]

Types ==
  /\ row \in [revision : Nat, credential : Nat, auth : {"active", "reauth"},
              enabled : BOOLEAN]
  /\ parent \in Seq(Nat) /\ Len(parent) <= MaxCredentials
  /\ row.credential \in 1..Len(parent)
  /\ object \in [Objects -> ObjectStates]
  /\ built \in Nat /\ built <= MaxObjects /\ installed \in 0..built
  /\ task \in [Tasks -> TaskStates]
  /\ commands \in Seq(Commands)
  /\ manager \in Operations
  /\ presented \in [Objects \X Credentials -> Nat]
  /\ scheduled \in BOOLEAN /\ behind \in BOOLEAN /\ cut \in BOOLEAN

(***************************************************************************)
(* A revision and a credential somebody remembers: they are the row's, or  *)
(* the row has a later revision.  An update is based on the row's          *)
(* credential, or will not match it any more.                              *)
(***************************************************************************)
Names(revision, credential) ==
  /\ revision <= row.revision
  /\ revision = row.revision => credential = row.credential

Continues(update) ==
  /\ update.credential \in 1..Len(parent)
  /\ update.expected <= row.revision
  /\ update.expected = row.revision => parent[update.credential] = row.credential

\* The new account object of an operation that has not been committed.
Candidate(o) == manager.step = "discovering" /\ o = manager.object
InUse(o) == o \in 1..built /\ ~(manager.step # "idle" /\ o = manager.object)

\* One task at a time holds the gate of an object.
GateInv ==
  \A t, u \in Tasks : HoldsGate(t) /\ HoldsGate(u) /\ task[t].object = task[u].object => t = u

\* What a task remembers of its object, of the row, and of the credential its
\* request was refused with.
TaskInv(t) ==
  LET s == task[t]
      b == object[s.object]
  IN /\ s.step # "idle" => InUse(s.object)
     /\ s.step = "read" => s.seen <= b.generation
     /\ s.step = "serving" =>
          /\ s.seen <= s.snap.generation /\ s.snap.generation <= b.generation
          /\ s.snap.generation = b.generation => s.snap.credential = b.credential
     /\ s.step = "gate" /\ t \in Requests =>
          /\ s.seen <= b.generation
          /\ s.seen = b.generation => s.refused = b.credential
     /\ s.step \in {"gate", "limit"} => s.snap.credential = 0
     /\ s.step = "limit" /\ t \in Requests => s.refused = b.credential
     /\ s.step \in {"exchange", "mark", "marked"} => b.pending = NoUpdate /\ b.auth = "active"
     /\ s.step = "exchange" =>
          /\ s.snap.credential = b.credential /\ s.snap.revision = b.revision
          /\ t \in Requests => s.snap.credential = s.refused
     /\ s.step \in {"mark", "marked"} => b.credential \in lost
     /\ s.step \in {"swap", "swapped"} =>
          /\ s.update.credential \in 1..Len(parent)
          /\ presented[<<s.object, s.update.credential>>] = 0
          /\ b.auth = "active"
          /\ IF b.pending = NoUpdate THEN s.snap.credential = b.credential
             ELSE s.snap.credential = 0 /\ s.update = b.pending
     /\ s.step = "swap" => Continues(s.update)
     /\ s.step = "swapped" =>
          \/ s.outcome = "updated" /\ Names(s.update.expected + 1, s.update.credential)
          \/ s.outcome = "error" /\ Continues(s.update)
          \/ s.outcome = "conflict"
     /\ s.step = "finished" =>
          /\ s.outcome \in Results
          /\ s.outcome = "reauth" => b.auth = "reauth"

\* A task of o has presented the credential of o and not yet returned.
Exchanging(o) ==
  \E t \in Tasks : /\ task[t].object = o /\ task[t].step \in {"exchange", "swap", "swapped"}
                   /\ task[t].snap.credential = object[o].credential

\* What an account object says of itself.
ObjectInv(o) ==
  LET b == object[o]
  IN /\ b.observation \in {0, b.credential}
     /\ \A c \in Credentials :
          presented[<<o, c>>] # 0 =>
            /\ InUse(o) /\ c <= Len(parent)
            /\ presented[<<o, c>>] = 1 \/ c \in lost
     /\ o <= built =>
          /\ b.credential \in 1..Len(parent)
          /\ b.auth \in {"active", "reauth"}
          /\ b.auth = "reauth" => b.pending = NoUpdate /\ ~b.due
          /\ \/ presented[<<o, b.credential>>] = 0
             \/ b.pending = NoUpdate /\ (b.credential \in lost \/ Exchanging(o))
          /\ IF b.pending = NoUpdate THEN Names(b.revision, b.credential) \/ Candidate(o)
             ELSE b.pending.credential = b.credential /\ Continues(b.pending)

\* The candidate of an operation is the last object built and nobody uses it.
ManagerInv ==
  manager.step # "idle" =>
    LET b == object[built]
    IN /\ manager.object = built /\ built # 0 /\ installed # built
       /\ b.pending = NoUpdate
       /\ manager.expected <= row.revision
       /\ manager.step = "discovering" =>
            \/ b.revision = manager.expected /\ Names(b.revision, b.credential)
            \/ b.revision = manager.expected + 1 /\ parent[b.credential] = 0
       /\ manager.step = "committed" /\ ~manager.raced => b.revision = row.revision

\* The refresh of the installed object that is just returning.
Returning(t) == task[t].object = installed /\ At(t, "swapped") /\ task[t].outcome = "updated"

\* Where the installed object and the row part.
Taken == installed # 0 /\ ~behind /\ ~(manager.step = "committed" /\ Advances)
BehindInv ==
  Taken =>
    /\ object[installed].revision = row.revision \/ \E t \in Tasks : Returning(t)
    /\ \A t \in Tasks : Returning(t) => task[t].update.expected + 1 = row.revision

\* A command that takes the schedule away names a rejected object, or none.
Removes(o) == \E i \in DOMAIN commands : commands[i].kind = "remove" /\ commands[i].object = o
ScheduleInv ==
  /\ ScheduleKept
  /\ \A o \in Nat \ {0} : Removes(o) => InUse(o) /\ object[o].auth = "reauth"

IInv ==
  /\ Types /\ GateInv /\ ManagerInv /\ BehindInv /\ ScheduleInv
  /\ \A t \in Tasks : TaskInv(t)
  /\ \A o \in Objects : ObjectInv(o)

-----------------------------------------------------------------------------
(***************************************************************************)
(* Types.                                                                  *)
(***************************************************************************)
LEMMA IdleTypes == Idle \in TaskStates /\ NoUpdate \in Updates /\ NoSnap \in Snaps
  BY Zenon DEF Idle, TaskStates, NoUpdate, Updates, NoSnap, Snaps, Steps, Outcomes

LEMMA BuiltObject ==
  ASSUME Types, NEW o \in 1..built
  PROVE  o \in Objects
  BY RefreshAssumption DEF Types, Objects

LEMMA LastObject ==
  ASSUME Types, built # 0
  PROVE  built \in 1..built /\ built \in Objects
<1>1. built \in 1..built
  BY DEF Types
<1>2. QED
  BY <1>1, BuiltObject, Zenon

LEMMA InUseObject ==
  ASSUME Types, NEW o, InUse(o)
  PROVE  o \in Objects /\ o \in Nat /\ o <= built
<1>1. o \in 1..built /\ built \in Nat
  BY Zenon DEF InUse, Types
<1>2. QED
  BY <1>1, BuiltObject

LEMMA InstalledObject ==
  ASSUME Types, installed # 0
  PROVE  installed \in Objects /\ installed \in 1..built
<1>1. installed \in 1..built
  BY DEF Types
<1>2. QED
  BY <1>1, BuiltObject, Zenon

LEMMA ObjectTypes ==
  ASSUME Types, NEW o \in Objects
  PROVE  /\ object[o] \in ObjectStates /\ object[o].credential \in Nat
         /\ object[o].revision \in Nat /\ object[o].generation \in Nat
         /\ object[o].pending \in Updates /\ object[o].observation \in Nat
         /\ o \in Nat /\ 1 <= o
<1>1. object[o] \in ObjectStates
  BY Zenon DEF Types
<1>2. o \in Nat /\ 1 <= o
  BY RefreshAssumption DEF Objects
<1>3. QED
  BY <1>1, <1>2, Zenon DEF ObjectStates

LEMMA TaskTypes ==
  ASSUME Types, NEW t \in Tasks
  PROVE  /\ task[t] \in TaskStates /\ task[t].step \in Steps /\ task[t].object \in Nat
         /\ task[t].seen \in Nat /\ task[t].refused \in Nat
         /\ task[t].snap \in Snaps /\ task[t].snap.credential \in Nat
         /\ task[t].snap.revision \in Nat /\ task[t].snap.generation \in Nat
         /\ task[t].update \in Updates /\ task[t].update.credential \in Nat
         /\ task[t].update.expected \in Nat /\ task[t].outcome \in Outcomes
  BY Zenon DEF Types, TaskStates, Snaps, Updates

\* A finished refresh: the task is idle, sends its request again or waits to be
\* joined, and one report goes out or stays with the task.
LEMMA FinishFacts ==
  ASSUME Types, NEW t \in Tasks, NEW result \in Results, Finish(t, result)
  PROVE  /\ task' \in [Tasks -> TaskStates] /\ commands' \in Seq(Commands)
         /\ \A u \in Tasks : u # t => task'[u] = task[u]
         /\ \/ /\ t \in Workers /\ task'[t].step = "finished" /\ task'[t].outcome = result
               /\ task'[t].object = task[t].object /\ commands' = commands
            \/ /\ t \notin Workers
               /\ \/ task'[t] = Idle
                  \/ /\ task'[t].step = "read" /\ task'[t].seen = 0
                     /\ task'[t].object = task[t].object
               /\ commands' = Append(commands, [kind |-> Report(result),
                                                object |-> task[t].object])
<1>1. task[t].object \in Nat /\ task \in [Tasks -> TaskStates] /\ commands \in Seq(Commands)
  BY Zenon DEF Types, TaskStates
<1>2. CASE t \in Workers
  <2> DEFINE v == [Idle EXCEPT !.step = "finished", !.outcome = result, !.object = task[t].object]
  <2>1. /\ v \in TaskStates /\ v.step = "finished" /\ v.outcome = result
        /\ v.object = task[t].object
    BY <1>1, Zenon DEF Idle, TaskStates, NoUpdate, Updates, NoSnap, Snaps, Steps, Outcomes, Results
  <2>2. task' = [task EXCEPT ![t] = v] /\ commands' = commands
    BY <1>2, Zenon DEF Finish
  <2> HIDE DEF v
  <2>3. QED
    BY <1>1, <1>2, <2>1, <2>2, Zenon
<1>3. CASE t \notin Workers
  <2> DEFINE v == [Idle EXCEPT !.step = "read", !.again = TRUE, !.object = task[t].object]
             w == IF result # "ok" THEN Idle ELSE v
             c == [kind |-> Report(result), object |-> task[t].object]
  <2>1. v \in TaskStates /\ v.step = "read" /\ v.seen = 0 /\ v.object = task[t].object
    BY <1>1, Zenon DEF Idle, TaskStates, NoUpdate, Updates, NoSnap, Snaps, Steps, Outcomes
  <2>2. c \in Commands
    BY <1>1, Zenon DEF Report, Commands
  <2>3. task' = [task EXCEPT ![t] = w] /\ commands' = Append(commands, c)
    BY <1>3, Zenon DEF Finish
  <2> HIDE DEF v, c
  <2>4. w \in TaskStates /\ (w = Idle \/ w = v)
    BY <2>1, IdleTypes, Zenon
  <2> HIDE DEF w
  <2>5. /\ task'[t] = w /\ task' \in [Tasks -> TaskStates]
        /\ \A u \in Tasks : u # t => task'[u] = task[u]
    BY <1>1, <2>3, <2>4, Zenon
  <2>6. commands' \in Seq(Commands)
    BY <1>1, <2>2, <2>3
  <2>7. QED
    BY <1>3, <2>1, <2>3, <2>4, <2>5, <2>6, Zenon DEF c
<1>4. QED
  BY <1>2, <1>3, Zenon

-----------------------------------------------------------------------------
(***************************************************************************)
(* What a step may do to the row, the credentials and an object without    *)
(* disturbing those who remember them.                                     *)
(***************************************************************************)
RowGrows ==
  /\ row'.revision \in Nat /\ row'.revision >= row.revision
  /\ row'.revision = row.revision => row'.credential = row.credential
ParentGrows ==
  /\ Len(parent') \in Nat /\ Len(parent') >= Len(parent)
  /\ \A c \in 1..Len(parent) : parent'[c] = parent[c]
SameState(o) ==
  /\ object'[o].credential = object[o].credential /\ object'[o].revision = object[o].revision
  /\ object'[o].generation = object[o].generation /\ object'[o].pending = object[o].pending
  /\ object'[o].auth = object[o].auth /\ object'[o].due = object[o].due
SamePresented(o) == \A c \in Credentials : presented'[<<o, c>>] = presented[<<o, c>>]
Evolves(o) ==
  /\ object'[o].generation \in Nat /\ object'[o].generation >= object[o].generation
  /\ object'[o].generation = object[o].generation => object'[o].credential = object[o].credential
  /\ object[o].auth = "reauth" => object'[o].auth = "reauth"

LEMMA IdleTask ==
  ASSUME NEW t, task'[t].step = "idle"
  PROVE  TaskInv(t)'
  BY Zenon DEF TaskInv

LEMMA ParentSame ==
  ASSUME Types, UNCHANGED parent
  PROVE  ParentGrows
  BY DEF ParentGrows, Types

LEMMA NamesKept ==
  ASSUME Types, RowGrows, NEW r \in Nat, NEW c \in Nat, Names(r, c)
  PROVE  Names(r, c)'
  BY DEF RowGrows, Names, Types

LEMMA ContinuesKept ==
  ASSUME Types, RowGrows, ParentGrows, NEW u \in Updates, Continues(u)
  PROVE  Continues(u)'
<1>1. row.revision \in Nat /\ u.expected \in Nat /\ u.credential \in Nat /\ Len(parent) \in Nat
  BY DEF Types, Updates
<1>2. QED
  BY <1>1 DEF RowGrows, ParentGrows, Continues

\* A task that a step leaves alone.
TaskLeft(u) ==
  LET o == task[u].object
  IN /\ task'[u] = task[u]
     /\ RowGrows /\ ParentGrows /\ lost \subseteq lost'
     /\ task[u].step # "idle" =>
          /\ InUse(o)' /\ Evolves(o)
          /\ HoldsGate(u) => SameState(o) /\ SamePresented(o)

LEMMA TaskFrame ==
  ASSUME Types, NEW u \in Tasks, TaskInv(u), TaskLeft(u)
  PROVE  TaskInv(u)'
<1> DEFINE s == task[u]
           o == s.object
           b == object[o]
<1>1. /\ s \in TaskStates /\ s.seen \in Nat /\ s.snap.generation \in Nat
      /\ s.snap.credential \in Nat /\ s.update \in Updates
      /\ s.update.expected + 1 \in Nat /\ s.update.credential \in Nat /\ s' = s
  BY TaskTypes DEF TaskLeft
<1>2. CASE s.step \in {"idle", "entered"}
  BY <1>1, <1>2, Zenon DEF TaskInv, TaskLeft
<1>3. CASE s.step \in {"read", "serving", "gate", "finished"}
  <2>1. o \in Objects /\ b.generation \in Nat
    BY <1>3, BuiltObject, ObjectTypes, Zenon DEF TaskInv, InUse
  <2>2. InUse(o)' /\ Evolves(o)
    BY <1>3, Zenon DEF TaskLeft
  <2>3. QED
    BY <1>1, <1>3, <2>1, <2>2, SMTT(60) DEF TaskInv, Evolves
<1>4. CASE s.step \in {"limit", "exchange", "mark", "marked", "swap", "swapped"}
  <2>1. InUse(o)' /\ SameState(o) /\ SamePresented(o) /\ lost \subseteq lost'
    BY <1>4, Zenon DEF TaskLeft, HoldsGate, HoldsPermit, At
  <2>2. RowGrows /\ ParentGrows
    BY Zenon DEF TaskLeft
  <2>3. CASE s.step \in {"limit", "exchange", "mark", "marked"}
    BY <1>1, <2>1, <2>3, Zenon DEF TaskInv, SameState
  <2>4. CASE s.step \in {"swap", "swapped"}
    <3>1. /\ Names(s.update.expected + 1, s.update.credential)
               => Names(s.update.expected + 1, s.update.credential)'
          /\ Continues(s.update) => Continues(s.update)'
      BY <1>1, <2>2, NamesKept, ContinuesKept, Zenon
    <3>2. /\ s.update.credential \in 1..Len(parent')
          /\ presented'[<<o, s.update.credential>>] = 0
      <4>1. /\ s.update.credential \in 1..Len(parent)
            /\ presented[<<o, s.update.credential>>] = 0
        BY <2>4, Zenon DEF TaskInv
      <4>2. s.update.credential \in Credentials /\ s.update.credential \in 1..Len(parent')
        <5>1. /\ Len(parent) \in Nat /\ Len(parent) <= MaxCredentials
              /\ Len(parent') \in Nat /\ Len(parent') >= Len(parent)
          BY <1>1, <2>2 DEF Types, ParentGrows
        <5>2. QED
          BY <4>1, <5>1, RefreshAssumption DEF Credentials
      <4>3. QED
        BY <2>1, <4>1, <4>2, Zenon DEF SamePresented
    <3>3. /\ object'[o].auth = "active"
          /\ IF object'[o].pending = NoUpdate THEN s.snap.credential = object'[o].credential
             ELSE s.snap.credential = 0 /\ s.update = object'[o].pending
      BY <2>1, <2>4, Zenon DEF TaskInv, SameState
    <3>4. /\ s.step = "swap" => Continues(s.update)'
          /\ s.step = "swapped" =>
               \/ s.outcome = "updated" /\ Names(s.update.expected + 1, s.update.credential)'
               \/ s.outcome = "error" /\ Continues(s.update)'
               \/ s.outcome = "conflict"
      BY <2>4, <3>1, Zenon DEF TaskInv
    <3>5. QED
      BY <1>1, <2>1, <2>4, <3>2, <3>3, <3>4, Zenon DEF TaskInv, Names, Continues
  <2>5. QED
    BY <1>4, <2>3, <2>4, Zenon
<1>5. QED
  BY <1>1, <1>2, <1>3, <1>4, Zenon DEF TaskStates, Steps

\* An object that a step leaves alone, its quota observation apart.
ObjectLeft(o) ==
  /\ RowGrows /\ ParentGrows /\ lost \subseteq lost'
  /\ SameState(o) /\ SamePresented(o)
  /\ object'[o].observation \in {object[o].observation, 0, object[o].credential}
  /\ InUse(o) => InUse(o)'
  /\ o <= built' => o <= built
  /\ Candidate(o) => Candidate(o)' \/ Names(object[o].revision, object[o].credential)'
  /\ Exchanging(o) => Exchanging(o)' \/ object[o].credential \in lost'

LEMMA ObjectFrame ==
  ASSUME Types, NEW o \in Objects, ObjectInv(o), ObjectLeft(o)
  PROVE  ObjectInv(o)'
<1> DEFINE b == object[o]
<1>1. /\ b.credential \in Nat /\ b.revision \in Nat /\ b.pending \in Updates
      /\ Len(parent) \in Nat /\ Len(parent') \in Nat
  BY ObjectTypes DEF Types, ObjectLeft, ParentGrows
<1>2. /\ SameState(o) /\ SamePresented(o) /\ RowGrows /\ ParentGrows
      /\ lost \subseteq lost'
  BY Zenon DEF ObjectLeft
<1>3. object'[o].observation \in {0, object'[o].credential}
  BY Zenon DEF ObjectLeft, ObjectInv, SameState
<1>4. ASSUME NEW c \in Credentials, presented'[<<o, c>>] # 0
      PROVE  InUse(o)' /\ c <= Len(parent') /\ (presented'[<<o, c>>] = 1 \/ c \in lost')
  <2>1. InUse(o) /\ c <= Len(parent) /\ (presented[<<o, c>>] = 1 \/ c \in lost)
    BY <1>2, <1>4, Zenon DEF ObjectInv, SamePresented
  <2>2. QED
    BY <1>1, <1>2, <2>1, SMTT(60) DEF ObjectLeft, SamePresented, ParentGrows, Credentials
<1>5. ASSUME o <= built'
      PROVE  /\ b.credential \in 1..Len(parent')
             /\ b.auth \in {"active", "reauth"}
             /\ b.auth = "reauth" => b.pending = NoUpdate /\ ~b.due
             /\ \/ presented'[<<o, b.credential>>] = 0
                \/ b.pending = NoUpdate /\ (b.credential \in lost' \/ Exchanging(o)')
             /\ IF b.pending = NoUpdate THEN Names(b.revision, b.credential)' \/ Candidate(o)'
                ELSE b.pending.credential = b.credential /\ Continues(b.pending)'
  <2>1. /\ b.credential \in 1..Len(parent)
        /\ b.auth \in {"active", "reauth"}
        /\ b.auth = "reauth" => b.pending = NoUpdate /\ ~b.due
        /\ \/ presented[<<o, b.credential>>] = 0
           \/ b.pending = NoUpdate /\ (b.credential \in lost \/ Exchanging(o))
        /\ IF b.pending = NoUpdate THEN Names(b.revision, b.credential) \/ Candidate(o)
           ELSE b.pending.credential = b.credential /\ Continues(b.pending)
    BY <1>5, Zenon DEF ObjectInv, ObjectLeft
  <2>2. b.credential \in 1..Len(parent') /\ b.credential \in Credentials
    BY <1>1, <1>2, <2>1, RefreshAssumption DEF ParentGrows, Types, Credentials
  <2>3. \/ presented'[<<o, b.credential>>] = 0
        \/ b.pending = NoUpdate /\ (b.credential \in lost' \/ Exchanging(o)')
    BY <1>2, <2>1, <2>2, Zenon DEF SamePresented, ObjectLeft
  <2>4. /\ Names(b.revision, b.credential) => Names(b.revision, b.credential)'
        /\ Continues(b.pending) => Continues(b.pending)'
    <3>1. /\ \A r, c \in Nat : Names(r, c) => Names(r, c)'
          /\ \A u \in Updates : Continues(u) => Continues(u)'
      BY <1>2, NamesKept, ContinuesKept, Zenon
    <3>2. QED
      BY <1>1, <1>2, <3>1, Zenon DEF SameState, Names, Continues
  <2>5. IF b.pending = NoUpdate THEN Names(b.revision, b.credential)' \/ Candidate(o)'
        ELSE b.pending.credential = b.credential /\ Continues(b.pending)'
    BY <2>1, <2>4, Zenon DEF ObjectLeft
  <2>6. QED
    BY <2>1, <2>2, <2>3, <2>5, Zenon
<1>6. QED
  BY <1>2, <1>3, <1>4, <1>5, Zenon DEF ObjectInv, SameState, Names, Continues

\* The gate: nobody takes one.
LEMMA GateFrame ==
  ASSUME GateInv, NEW t \in Tasks, \A u \in Tasks \ {t} : task'[u] = task[u],
         HoldsGate(t)' => HoldsGate(t) /\ task'[t].object = task[t].object
  PROVE  GateInv'
<1>1. \A u \in Tasks : HoldsGate(u)' => HoldsGate(u) /\ task'[u].object = task[u].object
  BY Zenon DEF HoldsGate, HoldsPermit, At
<1>2. QED
  BY <1>1, Zenon DEF GateInv

\* The manager's operation and its candidate are left alone.
LEMMA ManagerFrame ==
  ASSUME Types, ManagerInv, RowGrows, ParentGrows, UNCHANGED <<manager, built, installed>>,
         row'.revision = row.revision, \A o \in Objects : SameState(o),
         built \in Objects => object[built].credential \in 1..Len(parent)
  PROVE  ManagerInv'
<1>1. SUFFICES ASSUME manager.step # "idle" PROVE ManagerInv'
  BY Zenon DEF ManagerInv
<1>2. built \in Objects
  BY <1>1, BuiltObject DEF ManagerInv, Types
<1>3. SameState(built) /\ object[built].revision \in Nat /\ object[built].credential \in Nat
  BY <1>2, ObjectTypes, Zenon
<1>4. Names(object[built].revision, object[built].credential)
        => Names(object[built].revision, object[built].credential)'
  BY <1>3, Zenon DEF Names, SameState, RowGrows
<1>5. parent'[object[built].credential] = parent[object[built].credential]
  BY <1>2, Zenon DEF ParentGrows
<1>6. QED
  BY <1>3, <1>4, <1>5, Zenon DEF ManagerInv, SameState

\* The row and the installed object are left alone, and nobody starts or ends to
\* return from a refresh of it.
LEMMA BehindFrame ==
  ASSUME Types, BehindInv, ManagerInv, UNCHANGED <<installed, manager>>,
         row'.revision = row.revision, ~behind' => ~behind,
         \A o \in Objects : object'[o].revision = object[o].revision,
         Taken' => \A t \in Tasks : /\ Returning(t)' <=> Returning(t)
                                    /\ Returning(t) => task'[t].update = task[t].update
  PROVE  BehindInv'
<1>1. SUFFICES ASSUME Taken' PROVE BehindInv'
  BY Zenon DEF BehindInv
<1>2. installed \in Objects
  BY <1>1, BuiltObject DEF Taken, Types
<1>3. manager.step = "committed" => manager.object \in Objects
  <2>1. manager.step = "committed" => manager.object = built /\ built # 0
    BY DEF ManagerInv
  <2>2. QED
    BY <2>1, LastObject, Zenon
<1>4. Taken
  BY <1>1, <1>3, Zenon DEF Taken, Advances
<1>5. QED
  BY <1>1, <1>2, <1>4, Zenon DEF BehindInv

\* The scheduler: commands are added to its channel and no worker goes idle.
CommandsKept ==
  /\ \A i \in DOMAIN commands : \E j \in DOMAIN commands' : commands'[j] = commands[i]
  /\ \A o \in Nat \ {0} :
       Removes(o)' => Removes(o) \/ (InUse(o)' /\ object'[o].auth = "reauth")

LEMMA ScheduleFrame ==
  ASSUME Types, ScheduleInv, CommandsKept, UNCHANGED <<installed, scheduled, cut>>,
         \A w \in Workers : At(w, "idle")' => At(w, "idle"),
         installed # 0 /\ object'[installed].due => object[installed].due,
         \A o \in Objects : InUse(o) => InUse(o)' /\ Evolves(o)
  PROVE  ScheduleInv'
<1>1. ScheduleKept'
  BY Zenon DEF ScheduleInv, ScheduleKept, CommandsKept
<1>2. ASSUME NEW o \in Nat \ {0}, Removes(o)' PROVE InUse(o)' /\ object'[o].auth = "reauth"
  <2>1. CASE Removes(o)
    <3>1. InUse(o) /\ object[o].auth = "reauth"
      BY <2>1, Zenon DEF ScheduleInv
    <3>2. o \in Objects
      BY <3>1, BuiltObject, Zenon DEF InUse
    <3>3. QED
      BY <3>1, <3>2, Zenon DEF Evolves
  <2>2. QED
    BY <1>2, <2>1, Zenon DEF CommandsKept
<1>3. QED
  BY <1>1, <1>2, Zenon DEF ScheduleInv

LEMMA AppendKeepsCommands ==
  ASSUME Types, NEW c \in Commands, commands' = Append(commands, c)
  PROVE  /\ \A i \in DOMAIN commands : \E j \in DOMAIN commands' : commands'[j] = commands[i]
         /\ \A o : Removes(o)' => Removes(o) \/ (c.kind = "remove" /\ c.object = o)
         /\ \E j \in DOMAIN commands' : commands'[j] = c
<1>1. commands \in Seq(Commands)
  BY Zenon DEF Types
<1>2. /\ DOMAIN commands' = 1..(Len(commands) + 1) /\ DOMAIN commands = 1..Len(commands)
      /\ Len(commands) \in Nat /\ commands'[Len(commands) + 1] = c
      /\ \A i \in 1..Len(commands) : commands'[i] = commands[i]
  BY <1>1
<1>3. \A i \in DOMAIN commands : i \in DOMAIN commands' /\ commands'[i] = commands[i]
  BY <1>2
<1>4. Len(commands) + 1 \in DOMAIN commands' /\ \A j \in DOMAIN commands' :
        j \in DOMAIN commands \/ j = Len(commands) + 1
  BY <1>2
<1>5. \A o : Removes(o)' => Removes(o) \/ (c.kind = "remove" /\ c.object = o)
  BY <1>2, <1>3, <1>4, Zenon DEF Removes
<1>6. QED
  BY <1>2, <1>3, <1>4, <1>5, Zenon

-----------------------------------------------------------------------------
(***************************************************************************)
(* A step of one task that leaves the objects, the schedule and the        *)
(* revision of the row alone keeps the invariant when it keeps the task's  *)
(* own part of it and accounts for a credential it has presented.          *)
(***************************************************************************)
Works(t) ==
  /\ Types' /\ GateInv' /\ TaskInv(t)'
  /\ \A u \in Tasks \ {t} : task'[u] = task[u]
  /\ t \in Workers /\ At(t, "idle")' => At(t, "idle")
  /\ UNCHANGED <<built, installed, manager, scheduled, cut>>
  /\ row'.revision = row.revision /\ row'.credential = row.credential
  /\ ParentGrows /\ lost \subseteq lost' /\ CommandsKept
  /\ \A o \in Objects :
       /\ SameState(o)
       /\ object'[o].observation \in {object[o].observation, 0, object[o].credential}
       /\ SamePresented(o) \/ (HoldsGate(t) /\ task[t].object = o /\ ObjectInv(o)')
  /\ task[t].step \in {"exchange", "swap", "swapped"} =>
       \/ task[t].snap.credential \in lost' \union {0}
       \/ /\ task'[t].step \in {"exchange", "swap", "swapped"}
          /\ task'[t].object = task[t].object
          /\ task'[t].snap.credential = task[t].snap.credential
  /\ ~behind' => ~behind /\ ~Returning(t) /\ ~Returning(t)'

LEMMA WorksKeepsIInv ==
  ASSUME IInv, NEW t \in Tasks, Works(t)
  PROVE  IInv'
<1>1. Types /\ Types' /\ row.revision \in Nat
  BY Zenon DEF IInv, Works, Types
<1>2. RowGrows /\ ParentGrows /\ lost \subseteq lost'
  BY <1>1 DEF Works, RowGrows
<1>3. \A o : /\ InUse(o)' <=> InUse(o)
             /\ Candidate(o)' <=> Candidate(o)
  BY Zenon DEF Works, InUse, Candidate
<1>4. \A o \in Objects : Evolves(o)
  BY <1>1, ObjectTypes DEF Works, SameState, Evolves
<1>5. ASSUME NEW u \in Tasks PROVE TaskInv(u)'
  <2>1. CASE u = t
    BY <2>1, Zenon DEF Works
  <2>2. CASE u # t
    <3>1. TaskInv(u) /\ task'[u] = task[u]
      BY <2>2, Zenon DEF IInv, Works
    <3>2. ASSUME task[u].step # "idle"
          PROVE  /\ InUse(task[u].object) /\ task[u].object \in Objects
                 /\ Evolves(task[u].object) /\ SameState(task[u].object)
                 /\ HoldsGate(u) => SamePresented(task[u].object)
      <4>1. InUse(task[u].object)
        BY <3>1, <3>2, Zenon DEF TaskInv
      <4>2. task[u].object \in Objects
        BY <1>1, <4>1, BuiltObject, Zenon DEF InUse
      <4>3. HoldsGate(u) => ~(HoldsGate(t) /\ task[t].object = task[u].object)
        BY <2>2, Zenon DEF IInv, GateInv
      <4>4. QED
        BY <1>4, <4>1, <4>2, <4>3, Zenon DEF Works
    <3>3. InUse(task[u].object) => InUse(task[u].object)'
      BY <3>1, Zenon DEF InUse, Works
    <3>4. TaskLeft(u)
      BY <1>2, <3>1, <3>2, <3>3, Zenon DEF TaskLeft
    <3>5. QED
      BY <1>1, <3>1, <3>4, TaskFrame, Zenon
  <2>3. QED
    BY <2>1, <2>2, Zenon
<1>6. ASSUME NEW o \in Objects PROVE ObjectInv(o)'
  <2>1. CASE ~SamePresented(o)
    BY <2>1, Zenon DEF Works
  <2>2. CASE SamePresented(o) /\ o > built
    <3>1. ObjectInv(o) /\ SameState(o) /\ o \in Nat /\ built \in Nat
      BY <1>1, ObjectTypes, Zenon DEF IInv, Works, Types
    <3>2. ~Exchanging(o) /\ ~Candidate(o) /\ ~(o <= built')
      <4>1. ASSUME NEW u \in Tasks, task[u].object = o, task[u].step # "idle" PROVE FALSE
        <5>1. TaskInv(u)
          BY Zenon DEF IInv
        <5>2. InUse(o)
          BY <4>1, <5>1, Zenon DEF TaskInv
        <5>3. QED
          BY <2>2, <3>1, <5>2 DEF InUse
      <4>2. ~Candidate(o)
        BY <2>2, <3>1 DEF IInv, ManagerInv, Candidate
      <4>3. ~Exchanging(o)
        BY <4>1, Zenon DEF Exchanging
      <4>4. built' = built
        BY Zenon DEF Works
      <4>5. QED
        BY <2>2, <3>1, <4>2, <4>3, <4>4
    <3>3. ObjectLeft(o)
      BY <1>2, <1>3, <2>2, <3>1, <3>2, Zenon DEF ObjectLeft, Works
    <3>4. QED
      BY <1>1, <3>1, <3>3, ObjectFrame, Zenon
  <2>3. CASE SamePresented(o) /\ o <= built
    <3>1. ObjectInv(o) /\ SameState(o)
      BY Zenon DEF IInv, Works
    <3>2. ASSUME Exchanging(o) PROVE Exchanging(o)' \/ object[o].credential \in lost'
      <4>1. PICK u \in Tasks : /\ task[u].object = o
                               /\ task[u].step \in {"exchange", "swap", "swapped"}
                               /\ task[u].snap.credential = object[o].credential
        BY <3>2, Zenon DEF Exchanging
      <4>2. object[o].credential # 0
        BY <1>1, <2>3, <3>1, SMTT(60) DEF ObjectInv, Types
      <4>3. CASE u = t
        BY <3>1, <4>1, <4>2, <4>3 DEF Works, Exchanging, SameState
      <4>4. CASE u # t
        BY <3>1, <4>1, <4>4 DEF Works, Exchanging, SameState
      <4>5. QED
        BY <4>3, <4>4, Zenon
    <3>3. ObjectLeft(o)
      BY <1>2, <1>3, <2>3, <3>1, <3>2, Zenon DEF ObjectLeft, Works
    <3>4. QED
      BY <1>1, <3>1, <3>3, ObjectFrame, Zenon
  <2>4. o \in Nat /\ built \in Nat
    BY <1>1, ObjectTypes, Zenon DEF Types
  <2>5. QED
    BY <2>1, <2>2, <2>3, <2>4
<1>7. ManagerInv'
  <2>1. built \in Objects => object[built].credential \in 1..Len(parent)
    <3>1. ASSUME built \in Objects PROVE ObjectInv(built) /\ built <= built
      BY <1>1, <3>1 DEF IInv, Types
    <3>2. QED
      BY <3>1, Zenon DEF ObjectInv
  <2>2. QED
    BY <1>1, <1>2, <2>1, ManagerFrame, Zenon DEF IInv, Works
<1>8. BehindInv'
  <2>1. Taken' => \A u \in Tasks : /\ Returning(u)' <=> Returning(u)
                                   /\ Returning(u) => task'[u].update = task[u].update
    <3>1. ASSUME Taken', NEW u \in Tasks
          PROVE  /\ Returning(u)' <=> Returning(u)
                 /\ Returning(u) => task'[u].update = task[u].update
      <4>1. CASE u = t
        BY <3>1, <4>1, Zenon DEF Works, Taken
      <4>2. CASE u # t
        BY <4>2, Zenon DEF Works, Returning, At
      <4>3. QED
        BY <4>1, <4>2, Zenon
    <3>2. QED
      BY <3>1, Zenon
  <2>2. QED
    BY <1>1, <2>1, BehindFrame, Zenon DEF IInv, Works, SameState
<1>9. ScheduleInv'
  <2>1. \A w \in Workers : At(w, "idle")' => At(w, "idle")
    BY Zenon DEF Works, At, Tasks
  <2>2. installed # 0 /\ object'[installed].due => object[installed].due
    BY <1>1, BuiltObject DEF Works, SameState, Types
  <2>3. QED
    BY <1>1, <1>3, <1>4, <2>1, <2>2, ScheduleFrame, Zenon DEF IInv, Works
<1>10. QED
  BY <1>1, <1>5, <1>6, <1>7, <1>8, <1>9, Zenon DEF IInv, Works

-----------------------------------------------------------------------------
(***************************************************************************)
(* Requests.                                                               *)
(***************************************************************************)
\* What holds of every step that replaces the state of one task only.
OnlyTask(t, s) ==
  /\ task' = [task EXCEPT ![t] = s]
  /\ UNCHANGED <<row, parent, object, built, installed, scheduled, commands, manager,
                 presented, cut>>

LEMMA OnlyTaskWorks ==
  ASSUME IInv, NEW t \in Tasks, NEW s \in TaskStates, OnlyTask(t, s),
         TaskInv(t)', GateInv', behind' \in BOOLEAN,
         t \in Workers => s.step # "idle",
         lost \subseteq lost',
         task[t].step \in {"exchange", "swap", "swapped"} =>
           \/ task[t].snap.credential \in lost' \union {0}
           \/ /\ s.step \in {"exchange", "swap", "swapped"} /\ s.object = task[t].object
              /\ s.snap.credential = task[t].snap.credential,
         ~behind' => ~behind /\ ~Returning(t) /\ ~Returning(t)'
  PROVE  Works(t)
<1> USE DEF OnlyTask
<1>1. Types
  BY Zenon DEF IInv
<1>2. Types' /\ task'[t] = s /\ \A u \in Tasks \ {t} : task'[u] = task[u]
  BY <1>1, Zenon DEF Types
<1>3. ParentGrows /\ \A o \in Objects : SameState(o) /\ SamePresented(o)
  BY <1>1 DEF Types, ParentGrows, SameState, SamePresented
<1>4. CommandsKept
  BY Zenon DEF CommandsKept, Removes
<1>5. QED
  BY <1>2, <1>3, <1>4, Zenon DEF Works, At

LEMMA TaskStep ==
  ASSUME IInv, NEW t \in Tasks, NEW s \in TaskStates, OnlyTask(t, s), UNCHANGED <<lost, behind>>,
         TaskInv(t)', s.step \notin {"idle", "swapped"},
         task[t].step \notin {"exchange", "swap", "swapped"},
         HoldsGate(t)' => HoldsGate(t) /\ s.object = task[t].object
  PROVE  IInv'
<1>1. Types
  BY Zenon DEF IInv
<1>2. task'[t] = s /\ \A u \in Tasks \ {t} : task'[u] = task[u]
  BY <1>1, Zenon DEF OnlyTask, Types
<1>3. GateInv'
  BY <1>2, GateFrame, Zenon DEF IInv
<1>4. ~Returning(t) /\ ~Returning(t)' /\ behind' \in BOOLEAN
  BY <1>1, <1>2, Zenon DEF Returning, At, Types
<1>5. Works(t)
  BY <1>3, <1>4, OnlyTaskWorks, Zenon
<1>6. QED
  BY <1>5, WorksKeepsIInv, Zenon

LEMMA StartRequestKeepsIInv ==
  ASSUME IInv, NEW r \in Requests, StartRequest(r)
  PROVE  IInv'
<1> DEFINE s == [Idle EXCEPT !.step = "entered", !.object = installed]
<1>1. Types /\ r \in Tasks /\ task[r].step = "idle" /\ installed # 0
  BY Zenon DEF IInv, Tasks, StartRequest, At
<1>2. installed \in Nat /\ InUse(installed)
  BY <1>1 DEF IInv, Types, InUse, ManagerInv
<1>3. s \in TaskStates /\ s.step = "entered" /\ s.object = installed
  BY <1>2, Zenon DEF Idle, TaskStates, NoUpdate, Updates, NoSnap, Snaps, Steps, Outcomes
<1>4. OnlyTask(r, s) /\ UNCHANGED <<lost, behind>>
  BY Zenon DEF StartRequest, OnlyTask, durable, runtime, history
<1> HIDE DEF s
<1>5. task'[r] = s
  BY <1>1, <1>4, Zenon DEF OnlyTask, Types
<1>6. TaskInv(r)'
  BY <1>2, <1>3, <1>4, <1>5, Zenon DEF TaskInv, OnlyTask, InUse
<1>7. QED
  BY <1>1, <1>3, <1>4, <1>5, <1>6, TaskStep, Zenon DEF HoldsGate, HoldsPermit, At

LEMMA ReadGenerationKeepsIInv ==
  ASSUME IInv, NEW r \in Requests, ReadGeneration(r)
  PROVE  IInv'
<1> DEFINE o == task[r].object
           s == [task[r] EXCEPT !.step = "read", !.seen = object[o].generation]
<1>1. Types /\ r \in Tasks /\ task[r].step = "entered"
  BY Zenon DEF IInv, Tasks, ReadGeneration, At
<1>2. InUse(o)
  BY <1>1, Zenon DEF IInv, TaskInv
<1>3. object[o].generation \in Nat /\ task[r] \in TaskStates
  BY <1>1, <1>2, BuiltObject, ObjectTypes, TaskTypes, Zenon DEF InUse
<1>4. s \in TaskStates /\ s.step = "read" /\ s.object = o /\ s.seen = object[o].generation
  BY <1>3, Zenon DEF TaskStates, Steps
<1>5. OnlyTask(r, s) /\ UNCHANGED <<lost, behind>>
  BY <1>1, Zenon DEF ReadGeneration, OnlyTask, durable, runtime, history, Types
<1> HIDE DEF s
<1>6. task'[r] = s
  BY <1>1, <1>5, Zenon DEF OnlyTask, Types
<1>7. TaskInv(r)'
  <2>1. s.seen <= object[o].generation
    BY <1>3, <1>4
  <2>2. QED
    BY <1>2, <1>4, <1>5, <1>6, <2>1, Zenon DEF TaskInv, OnlyTask, InUse
<1>8. QED
  BY <1>1, <1>4, <1>5, <1>6, <1>7, TaskStep, Zenon DEF HoldsGate, HoldsPermit, At

LEMMA SendKeepsIInv ==
  ASSUME IInv, NEW r \in Requests, Send(r)
  PROVE  IInv'
<1> DEFINE o == task[r].object
           s == [task[r] EXCEPT !.step = "serving", !.snap = SnapOf(o)]
<1>1. Types /\ r \in Tasks /\ task[r].step = "read"
  BY Zenon DEF IInv, Tasks, Send, At
<1>2. InUse(o) /\ task[r].seen <= object[o].generation
  BY <1>1, Zenon DEF IInv, TaskInv
<1>3. /\ object[o].generation \in Nat /\ object[o].revision \in Nat
      /\ object[o].credential \in Nat /\ task[r] \in TaskStates
  BY <1>1, <1>2, BuiltObject, ObjectTypes, TaskTypes, Zenon DEF InUse
<1>4. /\ s \in TaskStates /\ s.step = "serving" /\ s.object = o /\ s.seen = task[r].seen
      /\ s.snap.generation = object[o].generation /\ s.snap.credential = object[o].credential
  BY <1>3, Zenon DEF TaskStates, Steps, SnapOf, Snaps
<1>5. OnlyTask(r, s) /\ UNCHANGED <<lost, behind>>
  BY <1>1, Zenon DEF Send, OnlyTask, durable, runtime, history, Types
<1> HIDE DEF s
<1>6. task'[r] = s
  BY <1>1, <1>5, Zenon DEF OnlyTask, Types
<1>7. TaskInv(r)'
  <2>1. s.seen <= s.snap.generation /\ s.snap.generation <= object[o].generation
    BY <1>2, <1>3, <1>4
  <2>2. QED
    BY <1>2, <1>4, <1>5, <1>6, <2>1, Zenon DEF TaskInv, OnlyTask, InUse
<1>8. QED
  BY <1>1, <1>4, <1>5, <1>6, <1>7, TaskStep, Zenon DEF HoldsGate, HoldsPermit, At

\* A response publishes what it was sent with only while the object still has it.
LEMMA RespondKeepsIInv ==
  ASSUME IInv, NEW r \in Requests, Respond(r)
  PROVE  IInv'
<1> DEFINE o == task[r].object
           c == task[r].snap.credential
           s == [task[r] EXCEPT !.step = "gate", !.snap = NoSnap, !.refused = c]
<1>1. /\ Types /\ r \in Tasks /\ task[r].step = "serving" /\ r \notin Workers
      /\ UNCHANGED <<row, parent, built, installed, scheduled, commands, manager, presented,
                     lost, behind, cut>>
  BY RefreshAssumption, Zenon DEF IInv, Tasks, Respond, At, durable, history
<1>2. /\ InUse(o) /\ task[r].seen <= task[r].snap.generation
      /\ task[r].snap.generation <= object[o].generation
      /\ task[r].snap.generation = object[o].generation => c = object[o].credential
  BY <1>1, Zenon DEF IInv, TaskInv
<1>3. o \in Objects
  BY <1>1, <1>2, BuiltObject, Zenon DEF InUse
<1>4. /\ object' \in [Objects -> ObjectStates]
      /\ \A q \in Objects :
           /\ SameState(q)
           /\ object'[q].observation \in {object[q].observation, 0, object[q].credential}
  <2>1. object \in [Objects -> ObjectStates] /\ c \in Nat
    BY <1>1, TaskTypes, Zenon DEF Types
  <2>2. CASE object' = object
    BY <2>1, <2>2, Zenon DEF SameState
  <2>3. CASE /\ object' = [object EXCEPT ![o].observation = c]
             /\ object[o].generation = task[r].snap.generation
    <3>1. object' \in [Objects -> ObjectStates]
      BY <1>3, <2>1, <2>3, Zenon DEF ObjectStates
    <3>2. \A q \in Objects : SameState(q)
      BY <1>3, <2>1, <2>3, Zenon DEF ObjectStates, SameState
    <3>3. \A q \in Objects : object'[q].observation = IF q = o THEN c ELSE object[q].observation
      BY <1>3, <2>1, <2>3, Zenon DEF ObjectStates
    <3>4. QED
      BY <1>2, <2>3, <3>1, <3>2, <3>3, Zenon
  <2>4. QED
    BY <2>2, <2>3, Zenon DEF Respond, Publish
<1>5. /\ s \in TaskStates /\ s.step = "gate" /\ s.object = o /\ s.seen = task[r].seen
      /\ s.refused = c /\ s.snap.credential = 0
  BY <1>1, TaskTypes, IdleTypes, Zenon DEF TaskStates, Steps, NoSnap
<1>6. PICK v \in {Idle, s} : task' = [task EXCEPT ![r] = v]
  <2>1. task' = [task EXCEPT ![r] = Idle] \/ task' = [task EXCEPT ![r] = s]
    BY <1>1, Zenon DEF Respond, Types
  <2>2. QED
    BY <2>1, Zenon
<1> HIDE DEF s
<1>7. v \in TaskStates /\ v.step \in {"idle", "gate"}
  <2>1. Idle.step = "idle"
    BY Zenon DEF Idle
  <2>2. QED
    BY <1>5, <1>6, <2>1, IdleTypes, Zenon
<1>8. /\ task' \in [Tasks -> TaskStates] /\ task'[r] = v
      /\ \A u \in Tasks \ {r} : task'[u] = task[u]
  BY <1>1, <1>6, <1>7, Zenon DEF Types
<1>9. Types'
  BY <1>1, <1>4, <1>8, Zenon DEF Types
<1>10. GateInv'
  BY <1>1, <1>7, <1>8, GateFrame, Zenon DEF IInv, HoldsGate, HoldsPermit, At
<1>11. TaskInv(r)'
  <2>1. CASE v = Idle
    <3>1. task'[r].step = "idle"
      <4>1. Idle.step = "idle"
        BY Zenon DEF Idle
      <4>2. QED
        BY <1>8, <2>1, <4>1, Zenon
    <3>2. QED
      BY <3>1, IdleTask, Zenon
  <2>2. CASE v = s
    <3>1. /\ object'[o].generation = object[o].generation /\ object[o].generation \in Nat
          /\ object'[o].credential = object[o].credential
      BY <1>1, <1>3, <1>4, ObjectTypes, Zenon DEF SameState
    <3>2. InUse(o)' /\ task'[r] = s
      BY <1>1, <1>2, <1>5, <1>8, <2>2, Zenon DEF InUse
    <3>3. task[r].seen \in Nat /\ task[r].snap.generation \in Nat
      BY <1>1, TaskTypes, Zenon
    <3>4. /\ s.seen <= object'[o].generation
          /\ s.seen = object'[o].generation => s.refused = object'[o].credential
      <4>1. /\ s.seen <= object[o].generation
            /\ s.seen = object[o].generation => s.refused = object[o].credential
        <5>1. /\ task[r].seen <= task[r].snap.generation
              /\ task[r].snap.generation <= object[o].generation
              /\ task[r].snap.generation = object[o].generation => c = object[o].credential
          BY <1>2, Zenon
        <5>2. /\ task[r].seen <= object[o].generation
              /\ task[r].seen = object[o].generation =>
                   task[r].snap.generation = object[o].generation
          BY <3>1, <3>3, <5>1
        <5>3. QED
          BY <1>5, <5>1, <5>2, Zenon
      <4>2. QED
        BY <3>1, <4>1, Zenon
    <3>5. QED
      BY <1>5, <3>2, <3>4, Zenon DEF TaskInv
  <2>3. QED
    BY <1>6, <2>1, <2>2, Zenon
<1>12. ParentGrows /\ CommandsKept /\ \A q \in Objects : SamePresented(q)
  <2>1. CommandsKept /\ \A q \in Objects : SamePresented(q)
    BY <1>1, Zenon DEF CommandsKept, SamePresented, Removes
  <2>2. QED
    BY <1>1, <2>1, ParentSame, Zenon
<1>13. Works(r)
  BY <1>1, <1>4, <1>7, <1>8, <1>9, <1>10, <1>11, <1>12, Zenon DEF Works, Returning, At
<1>14. QED
  BY <1>1, <1>13, WorksKeepsIInv, Zenon

\* A dropped request gives up its gate; what it had presented is lost.
LEMMA DropKeepsIInv ==
  ASSUME IInv, NEW r \in Requests, Drop(r)
  PROVE  IInv'
<1> DEFINE c == task[r].snap.credential
<1>1. Types /\ r \in Tasks /\ r \notin Workers /\ OnlyTask(r, Idle)
  BY RefreshAssumption, Zenon DEF IInv, Tasks, Drop, OnlyTask, durable, runtime
<1>2. task'[r] = Idle /\ \A u \in Tasks \ {r} : task'[u] = task[u]
  BY <1>1, Zenon DEF OnlyTask, Types
<1>3. Idle.step = "idle"
  BY Zenon DEF Idle
<1>4. TaskInv(r)' /\ ~Returning(r)'
  BY <1>2, <1>3, Zenon DEF TaskInv, Returning, At
<1>5. GateInv'
  BY <1>1, <1>2, <1>3, GateFrame, Zenon DEF IInv, HoldsGate, HoldsPermit, At
<1>6. /\ lost \subseteq lost'
      /\ task[r].step \in {"exchange", "swap", "swapped"} => c \in lost' \union {0}
  BY Zenon DEF Drop, HoldsPermit
<1>7. behind' \in BOOLEAN /\ (~behind' => ~behind /\ ~Returning(r))
  BY <1>1, Zenon DEF Drop, Types, Returning
<1>8. Works(r)
  BY <1>1, <1>4, <1>5, <1>6, <1>7, IdleTypes, OnlyTaskWorks, Zenon
<1>9. QED
  BY <1>1, <1>8, WorksKeepsIInv, Zenon

(***************************************************************************)
(* The steps of a refresh.                                                 *)
(***************************************************************************)
\* The task and the report of a refresh that ends.
LEMMA FinishTask ==
  ASSUME Types, NEW t \in Tasks, NEW result \in Results, Finish(t, result),
         TaskInv(t), task[t].step # "idle", UNCHANGED <<built, manager>>,
         object'[task[t].object].generation \in Nat,
         result = "reauth" => object'[task[t].object].auth = "reauth"
  PROVE  /\ TaskInv(t)' /\ CommandsKept
         /\ task'[t].step \in {"finished", "idle", "read"}
         /\ t \in Workers => task'[t].step = "finished"
         /\ t \notin Workers => \E j \in DOMAIN commands' : commands'[j].kind = Report(result)
<1> DEFINE o == task[t].object
<1>1. InUse(o) /\ \A q : InUse(q) => InUse(q)'
  BY Zenon DEF TaskInv, InUse
<1>2. /\ \/ /\ t \in Workers /\ task'[t].step = "finished" /\ task'[t].outcome = result
            /\ task'[t].object = o /\ commands' = commands
         \/ /\ t \notin Workers
            /\ \/ task'[t] = Idle
               \/ task'[t].step = "read" /\ task'[t].seen = 0 /\ task'[t].object = o
            /\ commands' = Append(commands, [kind |-> Report(result), object |-> o])
  BY FinishFacts, Zenon
<1>3. task'[t].step \in {"finished", "idle", "read"}
  BY <1>2 DEF Idle
<1>4. TaskInv(t)'
  <2>1. CASE task'[t].step = "finished" /\ task'[t].outcome = result /\ task'[t].object = o
    BY <1>1, <2>1, Zenon DEF TaskInv, InUse
  <2>2. CASE task'[t] = Idle
    BY <2>2, SMTT(60) DEF TaskInv, Idle
  <2>3. CASE task'[t].step = "read" /\ task'[t].seen = 0 /\ task'[t].object = o
    BY <1>1, <2>3, SMTT(60) DEF TaskInv, InUse
  <2>4. QED
    BY <1>2, <2>1, <2>2, <2>3, Zenon
<1>5. CASE commands' = commands
  BY <1>2, <1>3, <1>4, <1>5, SMTT(60) DEF CommandsKept, Removes
<1>6. CASE commands' = Append(commands, [kind |-> Report(result), object |-> o])
  <2> DEFINE c == [kind |-> Report(result), object |-> o]
  <2>1. c \in Commands /\ c.kind = Report(result) /\ c.object = o
    BY TaskTypes, Zenon DEF Report, Commands
  <2>2. Report(result) = "remove" => result = "reauth"
    BY Zenon DEF Report, Results
  <2>3. commands' = Append(commands, c)
    BY <1>6, Zenon
  <2> HIDE DEF c
  <2>4. /\ \A i \in DOMAIN commands : \E j \in DOMAIN commands' : commands'[j] = commands[i]
        /\ \A q : Removes(q)' => Removes(q) \/ (c.kind = "remove" /\ c.object = q)
        /\ \E j \in DOMAIN commands' : commands'[j] = c
    BY <2>1, <2>3, AppendKeepsCommands, Zenon
  <2>5. CommandsKept
    BY <1>1, <2>1, <2>2, <2>4, Zenon DEF CommandsKept
  <2>6. QED
    BY <1>2, <1>3, <1>4, <2>1, <2>4, <2>5, Zenon
<1>7. QED
  BY <1>2, <1>5, <1>6, Zenon

\* A refresh that ends without changing its object.
LEMMA FinishKeepsIInv ==
  ASSUME IInv, NEW t \in Tasks, NEW result \in Results, Finish(t, result),
         UNCHANGED <<row, parent, object, built, installed, scheduled, manager, presented,
                     behind, cut>>,
         task[t].step \in {"gate", "limit", "exchange", "swapped"}, ~Returning(t),
         lost \subseteq lost',
         task[t].step \in {"exchange", "swapped"} => task[t].snap.credential \in lost' \union {0},
         result = "reauth" => object[task[t].object].auth = "reauth"
  PROVE  IInv'
<1>1. Types /\ TaskInv(t)
  BY Zenon DEF IInv
<1>2. object[task[t].object].generation \in Nat
  BY <1>1, BuiltObject, ObjectTypes, Zenon DEF TaskInv, InUse
<1>3. /\ task' \in [Tasks -> TaskStates] /\ commands' \in Seq(Commands)
      /\ \A u \in Tasks : u # t => task'[u] = task[u]
  BY <1>1, FinishFacts, Zenon
<1>4. /\ TaskInv(t)' /\ CommandsKept /\ task'[t].step \in {"finished", "idle", "read"}
      /\ t \in Workers => task'[t].step = "finished"
  BY <1>1, <1>2, FinishTask, Zenon
<1>5. Types'
  BY <1>1, <1>3, Zenon DEF Types
<1>6. GateInv'
  BY <1>3, <1>4, GateFrame, Zenon DEF IInv, HoldsGate, HoldsPermit, At
<1>7. ParentGrows /\ \A q \in Objects : SameState(q) /\ SamePresented(q)
  BY <1>1, SMTT(60) DEF ParentGrows, SameState, SamePresented, Types
<1>8. ~Returning(t)' /\ (t \in Workers => ~At(t, "idle")')
  BY <1>4, Zenon DEF Returning, At
<1>9. Works(t)
  BY <1>3, <1>4, <1>5, <1>6, <1>7, <1>8, Zenon DEF Works
<1>10. QED
  BY <1>9, WorksKeepsIInv, Zenon

LEMMA LockGateKeepsIInv ==
  ASSUME IInv, NEW t \in Tasks, LockGate(t)
  PROVE  IInv'
<1> DEFINE o == task[t].object
<1>1. /\ Types /\ TaskInv(t) /\ task[t].step = "gate" /\ ~HoldsGate(t)
      /\ UNCHANGED <<row, parent, object, built, installed, scheduled, manager, presented,
                     lost, behind, cut>>
  BY Zenon DEF IInv, LockGate, At, HoldsGate, HoldsPermit, durable, runtime, history
<1>2. CASE Finish(t, "ok")
  BY <1>1, <1>2, FinishKeepsIInv, Zenon DEF Results, Returning, At
<1>3. CASE /\ object[o].generation = task[t].seen
           /\ Move(t, "limit") /\ UNCHANGED commands
  <2> DEFINE s == [task[t] EXCEPT !.step = "limit"]
  <2>1. /\ s \in TaskStates /\ s.step = "limit" /\ s.object = o /\ s.refused = task[t].refused
        /\ s.snap = task[t].snap /\ task[t].snap.credential = 0
    BY <1>1, TaskTypes, Zenon DEF TaskStates, Steps, TaskInv
  <2>2. OnlyTask(t, s)
    BY <1>1, <1>3, Zenon DEF OnlyTask, Move, Types
  <2> HIDE DEF s
  <2>3. task'[t] = s /\ \A u \in Tasks \ {t} : task'[u] = task[u]
    BY <1>1, <2>2, Zenon DEF OnlyTask, Types
  <2>4. InUse(o) /\ (t \in Requests => task[t].refused = object[o].credential)
    BY <1>1, <1>3, Zenon DEF TaskInv
  <2>5. TaskInv(t)'
    BY <1>1, <2>1, <2>3, <2>4, Zenon DEF TaskInv, InUse
  <2>6. GateInv'
    <3>1. \A u \in Tasks \ {t} : task[u].object = o => ~HoldsGate(u)
      BY Zenon DEF LockGate
    <3>2. \A u \in Tasks \ {t} : HoldsGate(u)' <=> HoldsGate(u)
      BY <2>3, Zenon DEF HoldsGate, HoldsPermit, At
    <3>3. QED
      BY <2>1, <2>3, <3>1, <3>2, Zenon DEF IInv, GateInv
  <2>7. ~Returning(t) /\ ~Returning(t)' /\ behind' \in BOOLEAN
    BY <1>1, <2>1, <2>3, Zenon DEF Returning, At, Types
  <2>8. Works(t)
    BY <1>1, <2>1, <2>2, <2>5, <2>6, <2>7, OnlyTaskWorks, Zenon
  <2>9. QED
    BY <2>8, WorksKeepsIInv, Zenon
<1>4. QED
  BY <1>2, <1>3, Zenon DEF LockGate

\* The refresh token is presented: nobody else of the object is exchanging it, and
\* it has not been presented before unless it was lost.
LEMMA AcquireLimitKeepsIInv ==
  ASSUME IInv, NEW t \in Tasks, AcquireLimit(t)
  PROVE  IInv'
<1> DEFINE o == task[t].object
           b == object[o]
           c == b.credential
<1>1. /\ Types /\ TaskInv(t) /\ task[t].step = "limit" /\ HoldsGate(t)
      /\ UNCHANGED <<row, parent, object, built, installed, scheduled, manager,
                     lost, behind, cut>>
  BY Zenon DEF IInv, AcquireLimit, At, HoldsGate, HoldsPermit, durable, runtime
<1>2. InUse(o) /\ task[t].snap.credential = 0 /\ (t \in Requests => task[t].refused = c)
  BY <1>1, Zenon DEF TaskInv
<1>3. o \in Objects /\ o \in Nat /\ o <= built
  BY <1>1, <1>2, BuiltObject, ObjectTypes DEF InUse, Types
<1>4. ObjectInv(o)
  BY <1>3, Zenon DEF IInv
<1>5. /\ c \in Nat /\ b.revision \in Nat /\ b.generation \in Nat /\ b.pending \in Updates
      /\ task[t] \in TaskStates
  BY <1>1, <1>3, ObjectTypes, TaskTypes, Zenon
<1>6. c \in 1..Len(parent) /\ c \in Credentials
  BY <1>1, <1>3, <1>4, RefreshAssumption, SMTT(60) DEF ObjectInv, Types, Credentials
<1>7. CASE b.pending # NoUpdate /\ UNCHANGED <<commands, presented>>
           /\ task' = [task EXCEPT ![t].step = "swap", ![t].update = b.pending]
  <2> DEFINE s == [task[t] EXCEPT !.step = "swap", !.update = b.pending]
  <2>1. /\ s \in TaskStates /\ s.step = "swap" /\ s.object = o /\ s.update = b.pending
        /\ s.snap = task[t].snap
    BY <1>5, Zenon DEF TaskStates, Steps
  <2>2. OnlyTask(t, s)
    BY <1>1, <1>7, Zenon DEF OnlyTask, Types
  <2> HIDE DEF s
  <2>3. task'[t] = s
    BY <1>1, <2>2, Zenon DEF OnlyTask, Types
  <2>4. /\ b.pending.credential = c /\ Continues(b.pending) /\ presented[<<o, c>>] = 0
        /\ b.auth = "active"
    BY <1>3, <1>4, <1>7, Zenon DEF ObjectInv
  <2>5. TaskInv(t)'
    BY <1>1, <1>2, <1>6, <1>7, <2>1, <2>3, <2>4, Zenon DEF TaskInv, InUse, Continues
  <2>6. QED
    BY <1>1, <2>1, <2>2, <2>5, TaskStep, Zenon
<1>8. CASE b.auth = "reauth" /\ Finish(t, "reauth") /\ UNCHANGED presented
  BY <1>1, <1>8, FinishKeepsIInv, Zenon DEF Results, Returning, At
<1>9. CASE /\ b.pending = NoUpdate /\ b.auth = "active" /\ UNCHANGED commands
           /\ task' = [task EXCEPT ![t].step = "exchange", ![t].snap = SnapOf(o)]
           /\ presented' = [presented EXCEPT ![<<o, c>>] = IF @ < 2 THEN @ + 1 ELSE @]
  <2> DEFINE s == [task[t] EXCEPT !.step = "exchange", !.snap = SnapOf(o)]
  <2>1. /\ s \in TaskStates /\ s.step = "exchange" /\ s.object = o
        /\ s.refused = task[t].refused
        /\ s.snap.credential = c /\ s.snap.revision = b.revision
    BY <1>5, Zenon DEF TaskStates, Steps, SnapOf, Snaps
  <2>2. /\ task' = [task EXCEPT ![t] = s] /\ task'[t] = s /\ task' \in [Tasks -> TaskStates]
        /\ \A u \in Tasks \ {t} : task'[u] = task[u]
    BY <1>1, <1>9, <2>1, Zenon DEF Types
  <2> HIDE DEF s
  <2>3. /\ presented' \in [Objects \X Credentials -> Nat]
        /\ \A q \in Objects, e \in Credentials :
             <<q, e>> # <<o, c>> => presented'[<<q, e>>] = presented[<<q, e>>]
        /\ presented[<<o, c>>] = 0 => presented'[<<o, c>>] = 1
    <3>1. <<o, c>> \in Objects \X Credentials /\ presented \in [Objects \X Credentials -> Nat]
      BY <1>1, <1>3, <1>6, Zenon DEF Types
    <3>2. QED
      BY <1>9, <3>1, SMTT(60)
  <2>4. Types'
    BY <1>1, <1>9, <2>2, <2>3, Zenon DEF Types
  <2>5. TaskInv(t)'
    BY <1>1, <1>2, <1>9, <2>1, <2>2, Zenon DEF TaskInv, InUse
  <2>6. GateInv'
    BY <1>1, <2>1, <2>2, GateFrame, Zenon DEF IInv
  <2>7. ~Exchanging(o)
    <3>1. ASSUME NEW u \in Tasks, task[u].object = o,
                 task[u].step \in {"exchange", "swap", "swapped"}
          PROVE  FALSE
      BY <1>1, <3>1, Zenon DEF IInv, GateInv, HoldsGate, HoldsPermit
    <3>2. QED
      BY <3>1, Zenon DEF Exchanging
  <2>8. presented[<<o, c>>] = 0 \/ c \in lost
    BY <1>3, <1>4, <2>7, Zenon DEF ObjectInv
  <2>9. ObjectInv(o)'
    <3>1. Exchanging(o)'
      BY <1>1, <2>1, <2>2, Zenon DEF Exchanging
    <3>2. InUse(o)'
      BY <1>1, <1>2, <2>1, <2>2, Zenon DEF InUse
    <3>3. ASSUME NEW e \in Credentials, presented'[<<o, e>>] # 0
          PROVE  e <= Len(parent) /\ (presented'[<<o, e>>] = 1 \/ e \in lost)
      <4>1. CASE e = c
        BY <1>6, <2>3, <2>8, <4>1
      <4>2. CASE e # c
        BY <1>3, <1>4, <2>3, <3>3, <4>2, Zenon DEF ObjectInv
      <4>3. QED
        BY <4>1, <4>2, Zenon
    <3>4. \A q \in Objects : q = o => ObjectInv(q)'
      <4>1. \A q : (Names(b.revision, c) => Names(b.revision, c)') /\ (InUse(q) <=> InUse(q)')
                   /\ (Candidate(q) <=> Candidate(q)')
        BY <1>1, <2>1, <2>2, Zenon DEF Names, InUse, Candidate
      <4>2. QED
        BY <1>1, <1>3, <1>4, <1>9, <2>1, <2>2, <3>1, <3>2, <3>3, <4>1, Zenon DEF ObjectInv
    <3>5. QED
      BY <1>3, <2>1, <2>2, <3>4, Zenon
  <2>10. /\ ParentGrows /\ CommandsKept
         /\ \A q \in Objects : SameState(q) /\ (q # o => SamePresented(q))
    BY <1>1, <1>9, <2>3 DEF Types, ParentGrows, CommandsKept, SameState, SamePresented, Removes
  <2>11. ~Returning(t) /\ ~Returning(t)'
    BY <1>1, <2>1, <2>2, Zenon DEF Returning, At
  <2>12. Works(t)
    BY <1>1, <2>1, <2>2, <2>4, <2>5, <2>6, <2>9, <2>10, <2>11, Zenon DEF Works, At
  <2>13. QED
    BY <2>12, WorksKeepsIInv, Zenon
<1>10. QED
  BY <1>7, <1>8, <1>9, Zenon DEF AcquireLimit

\* The token endpoint answers; a new credential was never presented by anyone.
LEMMA ExchangeKeepsIInv ==
  ASSUME IInv, NEW t \in Tasks, Exchange(t)
  PROVE  IInv'
<1> DEFINE o == task[t].object
           b == object[o]
           c == task[t].snap.credential
<1>1. /\ Types /\ TaskInv(t) /\ task[t].step = "exchange" /\ HoldsGate(t)
      /\ UNCHANGED <<row, object, built, installed, scheduled, manager, presented, behind, cut>>
  BY Zenon DEF IInv, Exchange, At, HoldsGate, HoldsPermit, runtime
<1>2. /\ InUse(o) /\ b.pending = NoUpdate /\ b.auth = "active" /\ c = b.credential
      /\ task[t].snap.revision = b.revision
  BY <1>1, Zenon DEF TaskInv
<1>3. o \in Objects /\ o \in Nat /\ o <= built /\ task[t] \in TaskStates
  BY <1>1, <1>2, BuiltObject, ObjectTypes, TaskTypes, SMTT(60) DEF InUse, Types
<1>4. ObjectInv(o) /\ ~Candidate(o) /\ c \in Nat /\ task[t].snap.revision \in Nat
  BY <1>1, <1>2, <1>3, TaskTypes, Zenon DEF IInv, InUse, Candidate
<1>5. CASE /\ Len(parent) < MaxCredentials
           /\ parent' = Append(parent, c)
           /\ task' = [task EXCEPT ![t].step = "swap",
                 ![t].update = [expected |-> task[t].snap.revision,
                                credential |-> Len(parent) + 1]]
           /\ UNCHANGED <<commands, lost>>
  <2> DEFINE u == [expected |-> task[t].snap.revision, credential |-> Len(parent) + 1]
             s == [task[t] EXCEPT !.step = "swap", !.update = u]
             n == Len(parent) + 1
  <2>1. parent \in Seq(Nat) /\ Len(parent) \in Nat /\ n \in Credentials /\ n \in Nat
    BY <1>1, <1>5, RefreshAssumption DEF Types, Credentials
  <2>2. /\ parent' \in Seq(Nat) /\ Len(parent') = n /\ parent'[n] = c
        /\ \A d \in 1..Len(parent) : parent'[d] = parent[d]
    BY <1>4, <1>5, <2>1
  <2>3. u \in Updates /\ u.expected = b.revision /\ u.credential = n
    BY <1>2, <1>4, <2>1, Zenon DEF Updates
  <2>4. task' = [task EXCEPT ![t] = s]
    BY <1>1, <1>5, Zenon DEF Types
  <2> HIDE DEF u
  <2>5. /\ s \in TaskStates /\ s.step = "swap" /\ s.object = o /\ s.update = u
        /\ s.snap = task[t].snap
    BY <1>3, <2>3, Zenon DEF TaskStates, Steps
  <2> HIDE DEF s, n
  <2>6. /\ task'[t] = s /\ task' \in [Tasks -> TaskStates]
        /\ \A v \in Tasks \ {t} : task'[v] = task[v]
    BY <1>1, <2>4, <2>5, Zenon DEF Types
  <2>7. Types'
    <3>1. Len(parent') <= MaxCredentials /\ row.credential \in 1..Len(parent')
      BY <1>1, <1>5, <2>1, <2>2, RefreshAssumption DEF Types, n
    <3>2. QED
      BY <1>1, <1>5, <2>2, <2>6, <3>1, Zenon DEF Types
  <2>8. ParentGrows
    BY <2>1, <2>2 DEF ParentGrows, n
  <2>9. presented[<<o, n>>] = 0
    BY <1>3, <1>4, <2>1, SMTT(60) DEF ObjectInv, n
  <2>10. /\ u.credential \in 1..Len(parent') /\ u.expected <= row'.revision
         /\ u.expected = row'.revision => parent'[u.credential] = row'.credential
    <3>1. Names(b.revision, b.credential)
      BY <1>2, <1>3, <1>4, Zenon DEF ObjectInv
    <3>2. n \in 1..Len(parent')
      BY <2>1, <2>2 DEF n
    <3>3. QED
      BY <1>1, <1>2, <2>2, <2>3, <3>1, <3>2, Zenon DEF Names
  <2>11. TaskInv(t)'
    BY <1>1, <1>2, <2>2, <2>3, <2>5, <2>6, <2>9, <2>10, Zenon DEF TaskInv, InUse, Continues
  <2>12. GateInv'
    BY <1>1, <2>5, <2>6, GateFrame, Zenon DEF IInv
  <2>13. CommandsKept /\ \A q \in Objects : SameState(q) /\ SamePresented(q)
    BY <1>1, <1>5, Zenon DEF CommandsKept, SameState, SamePresented, Removes
  <2>14. ~Returning(t) /\ ~Returning(t)'
    BY <1>1, <2>5, <2>6, Zenon DEF Returning, At
  <2>15. Works(t)
    BY <1>1, <1>5, <2>5, <2>6, <2>7, <2>8, <2>11, <2>12, <2>13, <2>14, Zenon DEF Works, At
  <2>16. QED
    BY <2>15, WorksKeepsIInv, Zenon
<1>6. CASE Move(t, "mark") /\ lost' = lost \union {c} /\ UNCHANGED <<parent, commands>>
  <2> DEFINE s == [task[t] EXCEPT !.step = "mark"]
  <2>1. s \in TaskStates /\ s.step = "mark" /\ s.object = o
    BY <1>3, Zenon DEF TaskStates, Steps
  <2>2. OnlyTask(t, s)
    BY <1>1, <1>6, Zenon DEF OnlyTask, Move, Types
  <2> HIDE DEF s
  <2>3. task'[t] = s /\ \A u \in Tasks \ {t} : task'[u] = task[u]
    BY <1>1, <2>2, Zenon DEF OnlyTask, Types
  <2>4. TaskInv(t)'
    BY <1>1, <1>2, <1>6, <2>1, <2>3, Zenon DEF TaskInv, InUse
  <2>5. GateInv'
    BY <1>1, <2>1, <2>3, GateFrame, Zenon DEF IInv
  <2>6. ~Returning(t) /\ ~Returning(t)' /\ behind' \in BOOLEAN
    BY <1>1, <2>1, <2>3, Zenon DEF Returning, At, Types
  <2>7. Works(t)
    BY <1>1, <1>6, <2>1, <2>2, <2>4, <2>5, <2>6, OnlyTaskWorks, Zenon
  <2>8. QED
    BY <2>7, WorksKeepsIInv, Zenon
<1>7. CASE Finish(t, "failed") /\ lost' = lost \union {c} /\ UNCHANGED parent
  BY <1>1, <1>7, FinishKeepsIInv, Zenon DEF Results, Returning, At
<1>8. QED
  BY <1>5, <1>6, <1>7, Zenon DEF Exchange

LEMMA MarkKeepsIInv ==
  ASSUME IInv, NEW t \in Tasks, Mark(t)
  PROVE  IInv'
<1> DEFINE s == [task[t] EXCEPT !.step = "marked"]
<1>1. /\ Types /\ TaskInv(t) /\ task[t].step = "mark" /\ HoldsGate(t)
      /\ UNCHANGED <<parent, object, built, installed, scheduled, commands, manager, presented,
                     lost, behind, cut>>
  BY Zenon DEF IInv, Mark, At, HoldsGate, HoldsPermit, runtime, history
<1>2. /\ row' \in [revision : Nat, credential : Nat, auth : {"active", "reauth"},
                    enabled : BOOLEAN]
      /\ row'.revision = row.revision /\ row'.credential = row.credential
  BY <1>1, Zenon DEF Mark, Types
<1>3. s \in TaskStates /\ s.step = "marked" /\ s.object = task[t].object
  BY <1>1, TaskTypes, Zenon DEF TaskStates, Steps
<1>4. /\ task' = [task EXCEPT ![t] = s]
  BY <1>1, Zenon DEF Mark, Move, Types
<1> HIDE DEF s
<1>5. /\ task'[t] = s /\ task' \in [Tasks -> TaskStates]
      /\ \A u \in Tasks \ {t} : task'[u] = task[u]
  BY <1>1, <1>3, <1>4, Zenon DEF Types
<1>6. Types'
  BY <1>1, <1>2, <1>5, Zenon DEF Types
<1>7. TaskInv(t)'
  BY <1>1, <1>3, <1>5, Zenon DEF TaskInv, InUse
<1>8. GateInv'
  BY <1>1, <1>3, <1>5, GateFrame, Zenon DEF IInv
<1>9. ParentGrows /\ CommandsKept /\ \A q \in Objects : SameState(q) /\ SamePresented(q)
  <2>1. CommandsKept /\ \A q \in Objects : SameState(q) /\ SamePresented(q)
    BY <1>1, Zenon DEF CommandsKept, SameState, SamePresented, Removes
  <2>2. QED
    BY <1>1, <2>1, ParentSame, Zenon
<1>10. Works(t)
  BY <1>1, <1>2, <1>3, <1>5, <1>6, <1>7, <1>8, <1>9, Zenon DEF Works, Returning, At
<1>11. QED
  BY <1>10, WorksKeepsIInv, Zenon

\* The holder of an object's gate returns with a change of the object.
LEMMA ReturnKeepsIInv ==
  ASSUME IInv, NEW t \in Tasks, NEW o, o = task[t].object, HoldsGate(t),
         NEW result \in Results, Finish(t, result),
         UNCHANGED <<row, parent, built, installed, scheduled, manager, presented, lost,
                     behind, cut>>,
         object' \in [Objects -> ObjectStates], \A q \in Objects \ {o} : object'[q] = object[q],
         Evolves(o), ObjectInv(o)',
         result = "reauth" => object'[o].auth = "reauth",
         object'[o].due => result = "ok",
         o = installed =>
           object'[o].revision = IF Returning(t) THEN task[t].update.expected + 1
                                 ELSE object[o].revision
  PROVE  IInv'
<1>1. Types /\ TaskInv(t) /\ task[t].step # "idle"
  BY Zenon DEF IInv, HoldsGate, HoldsPermit, At
<1>2. InUse(o) /\ o \in Objects
  BY <1>1, BuiltObject, Zenon DEF TaskInv, InUse
<1>3. object'[o].generation \in Nat
  BY Zenon DEF Evolves
<1>4. /\ task' \in [Tasks -> TaskStates] /\ commands' \in Seq(Commands)
      /\ \A u \in Tasks : u # t => task'[u] = task[u]
  BY <1>1, FinishFacts, Zenon
<1>5. /\ TaskInv(t)' /\ CommandsKept /\ task'[t].step \in {"finished", "idle", "read"}
      /\ t \in Workers => task'[t].step = "finished"
      /\ t \notin Workers => \E j \in DOMAIN commands' : commands'[j].kind = Report(result)
  BY <1>1, <1>3, FinishTask, Zenon
<1>6. Types' /\ row.revision \in Nat
  BY <1>1, <1>4, Zenon DEF Types
<1>7. GateInv'
  BY <1>4, <1>5, GateFrame, Zenon DEF IInv, HoldsGate, HoldsPermit, At
<1>8. RowGrows /\ ParentGrows /\ \A q \in Objects : SamePresented(q)
  BY <1>1, <1>6, SMTT(60) DEF RowGrows, ParentGrows, SamePresented, Types
<1>9. \A q \in Objects : Evolves(q) /\ (q # o => SameState(q))
  BY <1>1, ObjectTypes, SMTT(60) DEF Evolves, SameState
<1>10. \A q : (InUse(q)' <=> InUse(q)) /\ (Candidate(q)' <=> Candidate(q))
  BY Zenon DEF InUse, Candidate
<1>11. ASSUME NEW u \in Tasks PROVE TaskInv(u)'
  <2>1. CASE u = t
    BY <1>5, <2>1, Zenon
  <2>2. CASE u # t
    <3>1. TaskInv(u) /\ task'[u] = task[u]
      BY <1>4, <2>2, Zenon DEF IInv
    <3>2. ASSUME task[u].step # "idle" PROVE InUse(task[u].object) /\ task[u].object \in Objects
      BY <1>1, <3>1, <3>2, BuiltObject, Zenon DEF TaskInv, InUse
    <3>3. HoldsGate(u) => task[u].object # o
      BY <2>2, Zenon DEF IInv, GateInv
    <3>4. InUse(task[u].object) => InUse(task[u].object)'
      BY <3>1, Zenon DEF InUse
    <3>5. TaskLeft(u)
      BY <1>8, <1>9, <3>1, <3>2, <3>3, <3>4, Zenon DEF TaskLeft
    <3>6. QED
      BY <1>1, <3>1, <3>5, TaskFrame, Zenon
  <2>3. QED
    BY <2>1, <2>2, Zenon
<1>12. ASSUME NEW q \in Objects PROVE ObjectInv(q)'
  <2>1. CASE q = o
    BY <2>1, Zenon
  <2>2. CASE q # o
    <3>1. ObjectInv(q) /\ SameState(q) /\ object'[q] = object[q]
      BY <1>9, <2>2, Zenon DEF IInv
    <3>2. Exchanging(q) => Exchanging(q)'
      BY <1>4, <2>2, <3>1, Zenon DEF Exchanging
    <3>3. ObjectLeft(q)
      BY <1>8, <1>10, <3>1, <3>2, Zenon DEF ObjectLeft
    <3>4. QED
      BY <1>1, <3>1, <3>3, ObjectFrame, Zenon
  <2>3. QED
    BY <2>1, <2>2, Zenon
<1>13. ManagerInv'
  <2>1. ASSUME manager.step # "idle" PROVE built \in Objects /\ object'[built] = object[built]
    <3>1. manager.object = built /\ built # 0
      BY <2>1, Zenon DEF IInv, ManagerInv
    <3>2. built \in Objects /\ built # o
      BY <1>1, <1>2, <2>1, <3>1, LastObject, Zenon DEF InUse
    <3>3. QED
      BY <3>2, Zenon
  <2>2. QED
    BY <2>1, Zenon DEF IInv, ManagerInv, Names
<1>14. BehindInv'
  <2>1. SUFFICES ASSUME Taken' PROVE BehindInv'
    BY Zenon DEF BehindInv
  <2>2. manager.step = "committed" => object'[manager.object] = object[manager.object]
    <3>1. ASSUME manager.step = "committed"
          PROVE  manager.object \in Objects /\ manager.object # o
      <4>1. manager.object = built /\ built # 0
        BY <3>1, Zenon DEF IInv, ManagerInv
      <4>2. QED
        BY <1>1, <1>2, <3>1, <4>1, LastObject, Zenon DEF InUse
    <3>2. QED
      BY <3>1, Zenon
  <2>3. Taken /\ installed \in Objects
    <3>1. Taken
      BY <2>1, <2>2, Zenon DEF Taken, Advances
    <3>2. QED
      BY <1>1, <3>1, InstalledObject, Zenon DEF Taken
  <2>4. /\ object[installed].revision = row.revision \/ \E u \in Tasks : Returning(u)
        /\ \A u \in Tasks : Returning(u) => task[u].update.expected + 1 = row.revision
    BY <2>3, Zenon DEF IInv, BehindInv
  <2>5. /\ ~Returning(t)'
        /\ \A u \in Tasks \ {t} : (Returning(u)' <=> Returning(u)) /\ task'[u] = task[u]
    BY <1>4, <1>5, Zenon DEF Returning, At
  <2>6. CASE Returning(t)
    <3>1. object'[installed].revision = row.revision
      BY <2>4, <2>6, Zenon DEF Returning
    <3>2. QED
      BY <2>4, <2>5, <3>1, SMTT(60) DEF BehindInv
  <2>7. CASE ~Returning(t)
    <3>1. object'[installed].revision = object[installed].revision
      BY <2>3, <2>7, Zenon
    <3>2. QED
      BY <2>4, <2>5, <2>7, <3>1, SMTT(60) DEF BehindInv
  <2>8. QED
    BY <2>6, <2>7, Zenon
<1>15. ScheduleInv'
  <2>1. CASE installed = o /\ object'[o].due
    <3>1. result = "ok" /\ Report(result) = "reschedule"
      BY <2>1, Zenon DEF Report
    <3>2. ScheduleKept'
      BY <1>5, <3>1, Zenon DEF ScheduleKept, At
    <3>3. ASSUME NEW q \in Nat \ {0}, Removes(q)' PROVE InUse(q)' /\ object'[q].auth = "reauth"
      <4>1. Removes(q) => InUse(q) /\ object[q].auth = "reauth"
        BY Zenon DEF IInv, ScheduleInv
      <4>2. InUse(q) => q \in Objects
        BY <1>1, BuiltObject, Zenon DEF InUse
      <4>3. QED
        BY <1>5, <1>9, <1>10, <3>3, <4>1, <4>2, Zenon DEF CommandsKept, Evolves
    <3>4. QED
      BY <3>2, <3>3, Zenon DEF ScheduleInv
  <2>2. CASE ~(installed = o /\ object'[o].due)
    <3>1. \A w \in Workers : At(w, "idle")' => At(w, "idle")
      BY <1>4, <1>5, Zenon DEF At, Tasks
    <3>2. installed # 0 /\ object'[installed].due => object[installed].due
      BY <1>1, <1>9, <2>2, InstalledObject, Zenon DEF SameState
    <3>3. QED
      BY <1>1, <1>5, <1>9, <1>10, <3>1, <3>2, ScheduleFrame, Zenon DEF IInv
  <2>3. QED
    BY <2>1, <2>2, Zenon
<1>16. QED
  BY <1>6, <1>7, <1>11, <1>12, <1>13, <1>14, <1>15, Zenon DEF IInv

LEMMA MarkReturnKeepsIInv ==
  ASSUME IInv, NEW t \in Tasks, MarkReturn(t)
  PROVE  IInv'
<1>1. PICK o : o = task[t].object
  BY Zenon
<1> DEFINE b == object[o]
<1>2. /\ Types /\ TaskInv(t) /\ task[t].step = "marked" /\ HoldsGate(t) /\ ~Returning(t)
      /\ UNCHANGED <<row, parent, built, installed, scheduled, manager, presented, lost,
                     behind, cut>>
  BY Zenon DEF IInv, MarkReturn, At, HoldsGate, HoldsPermit, Returning, durable, history
<1>3. InUse(o) /\ b.pending = NoUpdate /\ b.auth = "active" /\ b.credential \in lost
  BY <1>1, <1>2, Zenon DEF TaskInv
<1>4. o \in Objects /\ o \in Nat /\ o <= built
  BY <1>2, <1>3, BuiltObject, ObjectTypes DEF InUse, Types
<1>5. object' = [object EXCEPT ![o] = [b EXCEPT !.auth = "reauth", !.due = FALSE,
                                                !.observation = 0]]
  BY <1>1, <1>2, <1>4, Zenon DEF MarkReturn, Types
<1>6. /\ object'[o].credential = b.credential /\ object'[o].revision = b.revision
      /\ object'[o].generation = b.generation /\ object'[o].pending = b.pending
      /\ object'[o].auth = "reauth" /\ object'[o].due = FALSE /\ object'[o].observation = 0
      /\ object'[o] \in ObjectStates /\ b.generation \in Nat
  BY <1>2, <1>4, <1>5, Zenon DEF Types, ObjectStates
<1>7. /\ object' \in [Objects -> ObjectStates]
      /\ \A q \in Objects \ {o} : object'[q] = object[q]
  BY <1>2, <1>4, <1>5, <1>6, Zenon DEF Types
<1>8. Evolves(o)
  BY <1>6 DEF Evolves
<1>9. ObjectInv(o)'
  <2>1. ObjectInv(o)
    BY <1>4, Zenon DEF IInv
  <2>2. (InUse(o)' <=> InUse(o)) /\ (Candidate(o)' <=> Candidate(o))
    BY <1>2, Zenon DEF InUse, Candidate
  <2>3. Names(b.revision, b.credential)' <=> Names(b.revision, b.credential)
    BY <1>2, <1>6, Zenon DEF Names
  <2>4. QED
    BY <1>2, <1>3, <1>4, <1>6, <2>1, <2>2, <2>3, Zenon DEF ObjectInv
<1>10. Finish(t, "reauth")
  BY Zenon DEF MarkReturn
<1>11. QED
  BY <1>1, <1>2, <1>6, <1>7, <1>8, <1>9, <1>10, ReturnKeepsIInv, Zenon DEF Results

\* What a refresh leaves in its object names the row, or is still to be persisted.
LEMMA SwapReturnKeepsIInv ==
  ASSUME IInv, NEW t \in Tasks, SwapReturn(t)
  PROVE  IInv'
<1>1. PICK o : o = task[t].object
  BY Zenon
<1>2. PICK u : u = task[t].update
  BY Zenon
<1> DEFINE b == object[o]
           updated == task[t].outcome = "updated"
<1>3. /\ Types /\ TaskInv(t) /\ task[t].step = "swapped" /\ HoldsGate(t)
      /\ UNCHANGED <<row, parent, built, installed, scheduled, manager, presented, behind, cut>>
  BY Zenon DEF IInv, SwapReturn, At, HoldsGate, HoldsPermit, durable
<1>4. CASE task[t].outcome = "conflict" /\ Finish(t, "failed") /\ UNCHANGED object
  BY <1>3, <1>4, FinishKeepsIInv, Zenon DEF Results, Returning, At, SwapReturn
<1>5. CASE task[t].outcome # "conflict"
  <2>1. /\ InUse(o) /\ u.credential \in 1..Len(parent) /\ presented[<<o, u.credential>>] = 0
        /\ b.auth = "active" /\ (b.pending # NoUpdate => u = b.pending)
        /\ IF updated THEN Names(u.expected + 1, u.credential) ELSE Continues(u)
    BY <1>1, <1>2, <1>3, <1>5, Zenon DEF TaskInv
  <2>2. o \in Objects /\ o \in Nat /\ o <= built
    BY <1>3, <2>1, InUseObject, Zenon
  <2>3. ObjectInv(o)
    BY <2>2, Zenon DEF IInv
  <2>4. /\ u \in Updates /\ u.expected \in Nat /\ u.credential \in Nat /\ u # NoUpdate
        /\ b \in ObjectStates /\ b.generation \in Nat /\ b.observation \in Nat
        /\ b.revision \in Nat
    <3>1. u \in Updates /\ u.expected \in Nat /\ u.credential \in Nat
      BY <1>2, <1>3, TaskTypes, Zenon
    <3>2. u # NoUpdate
      BY <2>1, <3>1 DEF NoUpdate
    <3>3. QED
      BY <1>3, <2>2, <3>1, <3>2, ObjectTypes, Zenon
  <2>5. b.pending # NoUpdate => u.credential = b.credential
    BY <2>1, <2>2, <2>3, Zenon DEF ObjectInv
  <2>6. /\ Finish(t, "ok") /\ UNCHANGED lost
        /\ object' = Refreshed(o, u, task[t].outcome)
    BY <1>1, <1>2, <1>5, Zenon DEF SwapReturn
  <2> DEFINE fresh == b.pending = NoUpdate
             n == object'[o]
  <2>7. n \in ObjectStates /\ \A q \in Objects \ {o} : object'[q] = object[q]
    <3>1. [credential |-> u.credential,
           revision |-> IF updated THEN u.expected + 1 ELSE b.revision,
           generation |-> IF fresh THEN b.generation + 1 ELSE b.generation,
           auth |-> IF fresh THEN "active" ELSE b.auth,
           due |-> TRUE,
           pending |-> IF updated THEN NoUpdate ELSE u,
           observation |-> IF fresh \/ updated THEN 0 ELSE b.observation] \in ObjectStates
      BY <2>1, <2>4, IdleTypes DEF ObjectStates
    <3>2. QED
      BY <1>3, <2>2, <2>6, <3>1, Zenon DEF Types, Refreshed
  <2>8. /\ n.credential = u.credential
        /\ n.revision = (IF updated THEN u.expected + 1 ELSE b.revision)
        /\ n.generation = (IF fresh THEN b.generation + 1 ELSE b.generation)
        /\ n.auth = "active" /\ n.due = TRUE
        /\ n.pending = (IF updated THEN NoUpdate ELSE u)
        /\ n.observation = (IF fresh \/ updated THEN 0 ELSE b.observation)
    BY <1>3, <2>1, <2>2, <2>6, Zenon DEF Refreshed, Types
  <2>9. object' \in [Objects -> ObjectStates]
    BY <1>3, <2>2, <2>6, <2>7, Zenon DEF Refreshed, Types
  <2>10. object'[o] = n
    BY Zenon
  <2> HIDE DEF n
  <2>11. Evolves(o)
    <3>1. /\ n.generation \in Nat /\ n.generation >= b.generation
          /\ n.generation = b.generation => ~fresh
      BY <2>4, <2>8
    <3>2. n.generation = b.generation => n.credential = b.credential
      BY <2>5, <2>8, <3>1, Zenon
    <3>3. b.auth # "reauth"
      BY <2>1, Zenon
    <3>4. QED
      BY <2>10, <3>1, <3>2, <3>3, Zenon DEF Evolves
  <2>12. ObjectInv(o)'
    <3>1. (InUse(o)' <=> InUse(o)) /\ (Candidate(o)' <=> Candidate(o))
      BY <1>3, Zenon DEF InUse, Candidate
    <3>2. n.observation \in {0, n.credential}
      BY <2>3, <2>5, <2>8, Zenon DEF ObjectInv
    <3>3. IF n.pending = NoUpdate THEN n.revision <= row.revision
                                      /\ (n.revision = row.revision => n.credential = row.credential)
          ELSE n.pending.credential = n.credential /\ Continues(u) /\ n.pending = u
      BY <2>1, <2>4, <2>8, Zenon DEF Names
    <3>4. IF n.pending = NoUpdate THEN Names(object[o].revision, object[o].credential)'
          ELSE n.pending.credential = n.credential /\ Continues(object[o].pending)'
      BY <1>3, <2>10, <3>3, Zenon DEF Names, Continues
    <3>5. \A c \in Credentials : presented[<<o, c>>] # 0 =>
            InUse(o) /\ c <= Len(parent) /\ (presented[<<o, c>>] = 1 \/ c \in lost)
      BY <2>3, Zenon DEF ObjectInv
    <3>6. QED
      BY <1>3, <2>1, <2>6, <2>8, <2>10, <3>1, <3>2, <3>4, <3>5, Zenon DEF ObjectInv
  <2>13. o = installed => object'[o].revision = IF Returning(t) THEN task[t].update.expected + 1
                                                ELSE object[o].revision
    BY <1>1, <1>2, <1>3, <2>8, <2>10, Zenon DEF Returning, At
  <2>14. QED
    BY <1>1, <1>3, <2>6, <2>7, <2>9, <2>11, <2>12, <2>13, ReturnKeepsIInv, Zenon DEF Results
<1>6. QED
  BY <1>4, <1>5, Zenon DEF SwapReturn

LEMMA SwappedRow ==
  ASSUME Types, NEW u \in Updates, row' = Swapped(u)
  PROVE  /\ row' \in [revision : Nat, credential : Nat, auth : {"active", "reauth"},
                      enabled : BOOLEAN]
         /\ row'.revision = u.expected + 1 /\ row'.credential = u.credential
<1>1. u.expected + 1 \in Nat /\ u.credential \in Nat
  BY DEF Updates
<1>2. row \in [revision : Nat, credential : Nat, auth : {"active", "reauth"},
               enabled : BOOLEAN]
  BY Zenon DEF Types
<1>3. QED
  BY <1>1, <1>2, Zenon DEF Swapped

LEMMA SwappedTask ==
  ASSUME Types, NEW t \in Tasks, TaskInv(t), task[t].step = "swap",
         UNCHANGED <<parent, object, built, presented>>,
         manager'.step = manager.step, manager'.object = manager.object,
         task'[t].step = "swapped", task'[t].object = task[t].object,
         task'[t].snap = task[t].snap, task'[t].update = task[t].update,
         NEW u, u = task[t].update,
         \/ task'[t].outcome = "updated" /\ Names(u.expected + 1, u.credential)'
         \/ task'[t].outcome = "error" /\ Continues(u)'
         \/ task'[t].outcome = "conflict"
  PROVE  TaskInv(t)'
<1>1. PICK o : o = task[t].object
  BY Zenon
<1>2. /\ InUse(o) /\ presented[<<o, u.credential>>] = 0 /\ object[o].auth = "active"
      /\ u.credential \in 1..Len(parent)
      /\ IF object[o].pending = NoUpdate THEN task[t].snap.credential = object[o].credential
         ELSE task[t].snap.credential = 0 /\ u = object[o].pending
  BY <1>1, Zenon DEF TaskInv
<1>3. InUse(task[t].object)'
  BY <1>1, <1>2, Zenon DEF InUse
<1>4. \/ task'[t].outcome = "updated"
         /\ Names(task[t].update.expected + 1, task[t].update.credential)'
      \/ task'[t].outcome = "error" /\ Continues(task[t].update)'
      \/ task'[t].outcome = "conflict"
  BY Zenon DEF Names, Continues
<1>5. /\ task'[t].update.credential \in 1..Len(parent')
      /\ presented'[<<task'[t].object, task'[t].update.credential>>] = 0
      /\ object'[task'[t].object].auth = "active"
      /\ IF object'[task'[t].object].pending = NoUpdate
         THEN task'[t].snap.credential = object'[task'[t].object].credential
         ELSE task'[t].snap.credential = 0 /\ task'[t].update = object'[task'[t].object].pending
  BY <1>1, <1>2, Zenon
<1>6. QED
  BY <1>3, <1>4, <1>5, Zenon DEF TaskInv

\* The row takes the credential of an update that continues it.
LEMMA SwapMatches ==
  ASSUME IInv, NEW t \in Tasks, task[t].step = "swap", row.revision = task[t].update.expected,
         row' = Swapped(task[t].update), NEW outcome \in {"updated", "error"},
         task' = [task EXCEPT ![t].step = "swapped", ![t].outcome = outcome],
         behind' = (behind \/ task[t].object # installed \/ outcome = "error"),
         manager' = [manager EXCEPT !.raced = (manager.step = "committed")],
         UNCHANGED <<parent, object, built, installed, scheduled, commands, presented, lost, cut>>
  PROVE  IInv'
<1> DEFINE s == [task[t] EXCEPT !.step = "swapped", !.outcome = outcome]
<1>1. /\ Types /\ TaskInv(t) /\ HoldsGate(t) /\ row.revision \in Nat
  BY Zenon DEF IInv, At, HoldsGate, HoldsPermit, Types
<1>2. PICK u : u = task[t].update
  BY Zenon
<1>3. u \in Updates /\ u.expected \in Nat /\ u.credential \in Nat /\ u.credential \in 1..Len(parent)
  BY <1>1, <1>2, TaskTypes, Zenon DEF TaskInv
<1>4. /\ row' \in [revision : Nat, credential : Nat, auth : {"active", "reauth"},
                    enabled : BOOLEAN]
      /\ row'.revision = u.expected + 1 /\ row'.credential = u.credential
  BY <1>1, <1>2, <1>3, SwappedRow, Zenon
<1>5. /\ s \in TaskStates /\ s.step = "swapped" /\ s.object = task[t].object
      /\ s.snap = task[t].snap /\ s.update = u /\ s.outcome = outcome
  BY <1>1, <1>2, TaskTypes, Zenon DEF TaskStates, Steps, Outcomes
<1>6. task' = [task EXCEPT ![t] = s]
  BY <1>1, Zenon DEF Types
<1> HIDE DEF s
<1>7. /\ task'[t] = s /\ task' \in [Tasks -> TaskStates]
      /\ \A v \in Tasks \ {t} : task'[v] = task[v]
  BY <1>1, <1>5, <1>6, Zenon DEF Types
<1>8. /\ manager' \in Operations /\ manager'.step = manager.step
      /\ manager'.object = manager.object /\ manager'.expected = manager.expected
      /\ manager.step = "committed" => manager'.raced
  BY <1>1, Zenon DEF Types, Operations
<1>9. Types'
  BY <1>1, <1>3, <1>4, <1>7, <1>8, Zenon DEF Types
<1>10. RowGrows /\ ParentGrows /\ \A o \in Objects : SameState(o) /\ SamePresented(o) /\ Evolves(o)
  <2>1. RowGrows /\ ParentGrows
    BY <1>1, <1>2, <1>3, <1>4 DEF RowGrows, ParentGrows, Types
  <2>2. QED
    BY <1>1, <2>1, ObjectTypes DEF SameState, SamePresented, Evolves
<1>11. \A o : (InUse(o)' <=> InUse(o)) /\ (Candidate(o)' <=> Candidate(o))
  BY <1>8, Zenon DEF InUse, Candidate
<1>12. GateInv'
  BY <1>1, <1>5, <1>7, GateFrame, Zenon DEF IInv
<1>13. TaskInv(t)'
  <2>1. \/ outcome = "updated" /\ Names(u.expected + 1, u.credential)'
        \/ outcome = "error" /\ Continues(u)'
    BY <1>3, <1>4 DEF Names, Continues
  <2>2. QED
    BY <1>1, <1>2, <1>5, <1>7, <1>8, <2>1, SwappedTask, Zenon
<1>14. ASSUME NEW v \in Tasks PROVE TaskInv(v)'
  <2>1. CASE v = t
    BY <1>13, <2>1, Zenon
  <2>2. CASE v # t
    <3>1. TaskInv(v) /\ task'[v] = task[v]
      BY <1>7, <2>2, Zenon DEF IInv
    <3>2. ASSUME task[v].step # "idle" PROVE InUse(task[v].object) /\ task[v].object \in Objects
      BY <1>1, <3>1, <3>2, BuiltObject, Zenon DEF TaskInv, InUse
    <3>3. InUse(task[v].object) => InUse(task[v].object)'
      BY <1>8, <3>1, Zenon DEF InUse
    <3>4. TaskLeft(v)
      BY <1>10, <3>1, <3>2, <3>3, Zenon DEF TaskLeft
    <3>5. QED
      BY <1>1, <3>1, <3>4, TaskFrame, Zenon
  <2>3. QED
    BY <2>1, <2>2, Zenon
<1>15. ASSUME NEW o \in Objects PROVE ObjectInv(o)'
  <2>1. ObjectInv(o)
    BY Zenon DEF IInv
  <2>2. Exchanging(o) => Exchanging(o)'
    BY <1>5, <1>7 DEF Exchanging
  <2>3. ObjectLeft(o)
    BY <1>10, <1>11, <2>2, Zenon DEF ObjectLeft
  <2>4. QED
    BY <1>1, <2>1, <2>3, ObjectFrame, Zenon
<1>16. ManagerInv'
  <2>1. SUFFICES ASSUME manager.step # "idle" PROVE ManagerInv'
    BY <1>8, Zenon DEF ManagerInv
  <2>2. built \in Objects /\ object[built].revision \in Nat /\ object[built].credential \in Nat
    BY <1>1, <2>1, BuiltObject, ObjectTypes DEF IInv, ManagerInv, Types
  <2>3. Names(object[built].revision, object[built].credential)
          => Names(object[built].revision, object[built].credential)'
    BY <1>1, <1>10, <2>2 DEF Names, RowGrows
  <2>4. ManagerInv /\ manager.expected \in Nat
    BY <1>1, Zenon DEF IInv, Types, Operations
  <2>5. manager.expected <= row'.revision
    BY <1>1, <1>10, <2>1, <2>4 DEF ManagerInv, RowGrows
  <2>6. QED
    BY <1>8, <2>1, <2>3, <2>4, <2>5, Zenon DEF ManagerInv
<1>17. BehindInv'
  <2>1. SUFFICES ASSUME Taken' PROVE BehindInv'
    BY Zenon DEF BehindInv
  <2>2. task[t].object = installed /\ outcome = "updated"
    BY <2>1, Zenon DEF Taken
  <2>3. Returning(t)' /\ task'[t].update.expected + 1 = row'.revision
    BY <1>4, <1>5, <1>7, <2>2, Zenon DEF Returning, At
  <2>4. ASSUME NEW v \in Tasks, v # t PROVE ~Returning(v)'
    <3>1. ~(HoldsGate(v) /\ task[v].object = installed)
      BY <1>1, <2>2, <2>4, Zenon DEF IInv, GateInv
    <3>2. QED
      BY <1>7, <2>4, <3>1, Zenon DEF Returning, At, HoldsGate, HoldsPermit
  <2>5. QED
    BY <2>3, <2>4, Zenon DEF BehindInv
<1>18. ScheduleInv'
  <2>1. CommandsKept /\ \A w \in Workers : At(w, "idle")' => At(w, "idle")
    BY <1>5, <1>7, Zenon DEF CommandsKept, Removes, At, Tasks
  <2>2. QED
    BY <1>1, <1>10, <1>11, <2>1, ScheduleFrame, Zenon DEF IInv
<1>19. QED
  BY <1>9, <1>12, <1>14, <1>15, <1>16, <1>17, <1>18, Zenon DEF IInv

LEMMA SwapKeepsIInv ==
  ASSUME IInv, NEW t \in Tasks, Swap(t)
  PROVE  IInv'
<1>1. /\ Types /\ TaskInv(t) /\ HoldsGate(t) /\ task[t].step = "swap" /\ ~Returning(t)
      /\ UNCHANGED <<parent, object, built, installed, scheduled, commands, presented, lost, cut>>
  BY Zenon DEF IInv, Swap, At, HoldsGate, HoldsPermit, Returning, runtime
<1>2. CASE /\ row.revision = task[t].update.expected /\ row' = Swapped(task[t].update)
           /\ \E outcome \in {"updated", "error"} :
                /\ task' = [task EXCEPT ![t].step = "swapped", ![t].outcome = outcome]
                /\ behind' = (behind \/ task[t].object # installed \/ outcome = "error")
           /\ manager' = [manager EXCEPT !.raced = (manager.step = "committed")]
  BY <1>1, <1>2, SwapMatches, Zenon
<1>3. ASSUME NEW outcome \in {"conflict", "error"}, UNCHANGED <<row, behind, manager>>,
             task' = [task EXCEPT ![t].step = "swapped", ![t].outcome = outcome]
      PROVE  IInv'
  <2> DEFINE s == [task[t] EXCEPT !.step = "swapped", !.outcome = outcome]
  <2>1. /\ s \in TaskStates /\ s.step = "swapped" /\ s.object = task[t].object
        /\ s.snap = task[t].snap /\ s.update = task[t].update /\ s.outcome = outcome
    BY <1>1, TaskTypes, Zenon DEF TaskStates, Steps, Outcomes
  <2>2. OnlyTask(t, s)
    BY <1>1, <1>3, Zenon DEF OnlyTask, Types
  <2> HIDE DEF s
  <2>3. task'[t] = s /\ \A u \in Tasks \ {t} : task'[u] = task[u]
    BY <1>1, <2>2, Zenon DEF OnlyTask, Types
  <2>4. TaskInv(t)'
    <3>1. PICK u : u = task[t].update
      BY Zenon
    <3>2. outcome = "error" => Continues(u)'
      BY <1>1, <1>3, <3>1, Zenon DEF TaskInv, Continues
    <3>3. QED
      BY <1>1, <1>3, <2>1, <2>3, <3>1, <3>2, SwappedTask, Zenon
  <2>5. GateInv'
    BY <1>1, <2>1, <2>3, GateFrame, Zenon DEF IInv
  <2>6. ~Returning(t)' /\ behind' \in BOOLEAN
    BY <1>1, <1>3, <2>1, <2>3, Zenon DEF Returning, Types
  <2>7. Works(t)
    BY <1>1, <1>3, <2>1, <2>2, <2>4, <2>5, <2>6, OnlyTaskWorks, Zenon
  <2>8. QED
    BY <2>7, WorksKeepsIInv, Zenon
<1>4. QED
  BY <1>2, <1>3, Zenon DEF Swap
=============================================================================
