----------------------- MODULE CredentialRefreshProofs -----------------------
(***************************************************************************)
(* The invariant of CredentialRefreshInvariant holds through the steps of  *)
(* the scheduler and of the manager as well, and the properties of         *)
(* CredentialRefresh follow from it, for any number of requests, scheduler *)
(* slots, account objects and credentials.                                 *)
(***************************************************************************)
EXTENDS CredentialRefreshInvariant

(***************************************************************************)
(* The scheduler touches its queue and its own tasks, never an object.     *)
(***************************************************************************)
LEMMA SchedulerFrame ==
  ASSUME IInv, Types', GateInv', ScheduleInv',
         UNCHANGED <<row, parent, object, built, installed, manager, presented, lost, behind>>,
         \A u \in Tasks :
           \/ task'[u] = task[u]
           \/ /\ task[u].step \in {"idle", "finished"} /\ task'[u].step \in {"idle", "gate"}
              /\ TaskInv(u)'
  PROVE  IInv'
<1>1. Types /\ row.revision \in Nat
  BY Zenon DEF IInv, Types
<1>2. RowGrows /\ ParentGrows /\ lost \subseteq lost'
  BY <1>1 DEF RowGrows, ParentGrows, Types
<1>3. \A o \in Objects : SameState(o) /\ SamePresented(o) /\ Evolves(o)
  BY <1>1, ObjectTypes DEF SameState, SamePresented, Evolves
<1>4. \A o : (InUse(o)' <=> InUse(o)) /\ (Candidate(o)' <=> Candidate(o))
  BY Zenon DEF InUse, Candidate
<1>5. ASSUME NEW u \in Tasks PROVE TaskInv(u)'
  <2>1. CASE task'[u] = task[u]
    <3>1. TaskInv(u)
      BY Zenon DEF IInv
    <3>2. ASSUME task[u].step # "idle" PROVE InUse(task[u].object) /\ task[u].object \in Objects
      BY <1>1, <3>1, <3>2, BuiltObject, Zenon DEF TaskInv, InUse
    <3>3. InUse(task[u].object) => InUse(task[u].object)'
      BY <2>1, Zenon DEF InUse
    <3>4. TaskLeft(u)
      BY <1>2, <1>3, <2>1, <3>2, <3>3, Zenon DEF TaskLeft
    <3>5. QED
      BY <1>1, <3>1, <3>4, TaskFrame, Zenon
  <2>2. QED
    BY <2>1, Zenon
<1>6. ASSUME NEW o \in Objects PROVE ObjectInv(o)'
  <2>1. ObjectInv(o)
    BY Zenon DEF IInv
  <2>2. Exchanging(o) => Exchanging(o)'
    BY Zenon DEF Exchanging
  <2>3. ObjectLeft(o)
    BY <1>2, <1>3, <1>4, <2>2, Zenon DEF ObjectLeft
  <2>4. QED
    BY <1>1, <2>1, <2>3, ObjectFrame, Zenon
<1>7. ManagerInv'
  <2>1. built \in Objects => object[built].credential \in 1..Len(parent)
    <3>1. ASSUME built \in Objects PROVE ObjectInv(built) /\ built <= built
      BY <1>1, <3>1 DEF IInv, Types
    <3>2. QED
      BY <3>1, Zenon DEF ObjectInv
  <2>2. QED
    BY <1>1, <1>2, <1>3, <2>1, ManagerFrame, Zenon DEF IInv
<1>8. BehindInv'
  <2>1. \A u \in Tasks : /\ Returning(u)' <=> Returning(u)
                         /\ Returning(u) => task'[u].update = task[u].update
    BY Zenon DEF Returning, At
  <2>2. QED
    BY <1>1, <2>1, BehindFrame, Zenon DEF IInv
<1>9. QED
  BY <1>5, <1>6, <1>7, <1>8, Zenon DEF IInv

\* A rejected account is not scheduled.
LEMMA RejectedIsNotDue ==
  ASSUME IInv, installed # 0, object[installed].auth = "reauth"
  PROVE  ~object[installed].due
<1>1. installed \in Objects /\ installed <= built
  BY BuiltObject DEF IInv, Types
<1>2. ObjectInv(installed)
  BY <1>1, Zenon DEF IInv
<1>3. QED
  BY <1>1, <1>2, Zenon DEF ObjectInv

LEMMA ObeyKeepsIInv ==
  ASSUME IInv, Obey
  PROVE  IInv'
<1>1. /\ Types /\ commands # <<>> /\ commands' = Tail(commands)
      /\ UNCHANGED <<row, parent, object, built, installed, task, manager, presented, lost, behind>>
  BY Zenon DEF IInv, Obey, durable, runtime
<1> DEFINE command == Head(commands)
<1>2. /\ commands \in Seq(Commands) /\ command \in Commands /\ command = commands[1]
      /\ 1 \in DOMAIN commands /\ commands' \in Seq(Commands)
      /\ \A j \in DOMAIN commands' : j + 1 \in DOMAIN commands /\ commands'[j] = commands[j + 1]
  BY <1>1 DEF Types
<1>3. scheduled' \in BOOLEAN /\ cut' \in BOOLEAN
  BY <1>1, Zenon DEF Obey, ScheduleAccount
<1>4. Types'
  BY <1>1, <1>2, <1>3, Zenon DEF Types
<1>5. ScheduleKept'
  <2>1. SUFFICES ASSUME installed # 0, object[installed].due, ~cut' PROVE scheduled'
    BY <1>1, Zenon DEF ScheduleKept
  <2>2. CASE command.kind = "remove"
    <3>1. command.object = installed
      BY <2>1, <2>2, Zenon DEF Obey
    <3>2. Removes(installed) /\ installed \in Nat \ {0}
      BY <1>1, <1>2, <2>1, <2>2, <3>1 DEF Removes, Types
    <3>3. object[installed].auth = "reauth"
      BY <3>2, Zenon DEF IInv, ScheduleInv
    <3>4. QED
      BY <2>1, <3>3, RejectedIsNotDue, Zenon
  <2>3. CASE command.kind = "reschedule"
    BY <2>1, <2>3, Zenon DEF Obey, ScheduleAccount
  <2>4. CASE command.kind = "backoff"
    BY <2>4, Zenon DEF Obey
  <2>5. QED
    BY <1>2, <2>2, <2>3, <2>4, Zenon DEF Commands
<1>6. \A o \in Nat \ {0} : Removes(o)' => InUse(o)' /\ object'[o].auth = "reauth"
  <2>1. \A o : Removes(o)' => Removes(o)
    BY <1>2, Zenon DEF Removes
  <2>2. QED
    BY <1>1, <2>1, Zenon DEF IInv, ScheduleInv, InUse
<1>7. ScheduleInv' /\ GateInv'
  BY <1>1, <1>5, <1>6, Zenon DEF ScheduleInv, IInv, GateInv, HoldsGate, HoldsPermit, At
<1>8. QED
  BY <1>1, <1>4, <1>7, SchedulerFrame, Zenon

LEMMA JoinKeepsIInv ==
  ASSUME IInv, NEW w \in Workers, Join(w)
  PROVE  IInv'
<1>1. /\ Types /\ w \in Tasks /\ task[w].step = "finished" /\ task' = [task EXCEPT ![w] = Idle]
      /\ UNCHANGED <<row, parent, object, built, installed, commands, manager, presented, lost,
                     behind>>
  BY Zenon DEF IInv, Join, At, Tasks, durable, runtime
<1>2. /\ task'[w] = Idle /\ task' \in [Tasks -> TaskStates] /\ Idle.step = "idle"
      /\ \A u \in Tasks \ {w} : task'[u] = task[u]
  BY <1>1, IdleTypes, Zenon DEF Types, Idle
<1>3. scheduled' \in BOOLEAN /\ cut' \in BOOLEAN
  BY <1>1, Zenon DEF Join, ScheduleAccount
<1>4. Types'
  BY <1>1, <1>2, <1>3, Zenon DEF Types
<1>5. GateInv'
  BY <1>1, <1>2, GateFrame, Zenon DEF IInv, HoldsGate, HoldsPermit, At
<1>6. TaskInv(w) /\ TaskInv(w)'
  BY <1>1, <1>2, Zenon DEF IInv, TaskInv
<1>7. ScheduleKept'
  <2>1. SUFFICES ASSUME installed # 0, object[installed].due, ~cut' PROVE scheduled'
    BY <1>1, Zenon DEF ScheduleKept
  <2>2. CASE task[w].outcome = "reauth"
    <3>1. task[w].object = installed
      BY <2>1, <2>2, Zenon DEF Join
    <3>2. object[installed].auth = "reauth"
      BY <1>1, <1>6, <2>2, <3>1, Zenon DEF TaskInv
    <3>3. QED
      BY <2>1, <3>2, RejectedIsNotDue, Zenon
  <2>3. CASE task[w].outcome = "ok"
    BY <2>1, <2>3, Zenon DEF Join, ScheduleAccount
  <2>4. CASE task[w].outcome \notin {"ok", "reauth"}
    BY <2>4, Zenon DEF Join
  <2>5. QED
    BY <2>2, <2>3, <2>4, Zenon
<1>8. ScheduleInv'
  BY <1>1, <1>7, Zenon DEF ScheduleInv, IInv, Removes, InUse
<1>9. QED
  BY <1>1, <1>2, <1>4, <1>5, <1>6, <1>8, SchedulerFrame, Zenon

LEMMA ExpireKeepsIInv ==
  ASSUME IInv, Expire
  PROVE  IInv'
<1>1. /\ Types /\ scheduled' = FALSE
      /\ UNCHANGED <<row, parent, object, built, installed, commands, manager, presented, lost,
                     behind, cut>>
  BY Zenon DEF IInv, Expire, durable, runtime, history
<1>2. CASE installed = 0 /\ UNCHANGED task
  <2>1. Types'
    BY <1>1, <1>2, Zenon DEF Types
  <2>2. GateInv' /\ ScheduleInv'
    BY <1>1, <1>2, Zenon DEF IInv, GateInv, HoldsGate, HoldsPermit, At, ScheduleInv, ScheduleKept,
                      Removes, InUse
  <2>3. QED
    BY <1>1, <1>2, <2>1, <2>2, SchedulerFrame, Zenon
<1>3. ASSUME installed # 0, NEW w \in Workers, At(w, "idle"),
             task' = [task EXCEPT ![w] = [Idle EXCEPT !.step = "gate", !.object = installed,
                                            !.seen = object[installed].generation]]
      PROVE  IInv'
  <2> DEFINE s == [Idle EXCEPT !.step = "gate", !.object = installed,
                               !.seen = object[installed].generation]
  <2>1. /\ installed \in Objects /\ installed \in Nat /\ w \in Tasks /\ w \notin Requests
        /\ object[installed].generation \in Nat /\ InUse(installed)
    <3>1. installed \in 1..built /\ installed \in Nat
      BY <1>1, <1>3 DEF Types
    <3>2. installed \in Objects /\ object[installed].generation \in Nat
      BY <1>1, <3>1, BuiltObject, ObjectTypes, Zenon
    <3>3. InUse(installed)
      BY <3>1, Zenon DEF IInv, ManagerInv, InUse
    <3>4. QED
      BY <1>3, <3>1, <3>2, <3>3, RefreshAssumption, Zenon DEF Tasks
  <2>2. /\ s \in TaskStates /\ s.step = "gate" /\ s.object = installed
        /\ s.snap.credential = 0
    BY <2>1, Zenon DEF Idle, TaskStates, NoUpdate, Updates, NoSnap, Snaps, Steps, Outcomes
  <2>3. task' = [task EXCEPT ![w] = s]
    BY <1>3, Zenon
  <2> HIDE DEF s
  <2>4. /\ task'[w] = s /\ task' \in [Tasks -> TaskStates]
        /\ \A u \in Tasks \ {w} : task'[u] = task[u]
    BY <1>1, <2>1, <2>2, <2>3, Zenon DEF Types
  <2>5. Types'
    BY <1>1, <2>4, Zenon DEF Types
  <2>6. GateInv'
    BY <2>1, <2>2, <2>4, GateFrame, Zenon DEF IInv, HoldsGate, HoldsPermit, At
  <2>7. TaskInv(w)'
    BY <1>1, <2>1, <2>2, <2>4, Zenon DEF TaskInv, InUse
  <2>8. ScheduleInv'
    BY <1>1, <2>1, <2>2, <2>4, Zenon DEF IInv, ScheduleInv, ScheduleKept, Removes, InUse, At
  <2>9. QED
    BY <1>1, <1>3, <2>2, <2>4, <2>5, <2>6, <2>7, <2>8, SchedulerFrame, Zenon DEF At
<1>4. QED
  BY <1>2, <1>3, Zenon DEF Expire

-----------------------------------------------------------------------------
(***************************************************************************)
(* The manager builds, commits, installs or discards its candidate; the    *)
(* objects in use stay as they are.                                        *)
(***************************************************************************)
LEMMA OperationFrame ==
  ASSUME IInv, Types', ManagerInv', BehindInv', ScheduleInv', RowGrows, ParentGrows,
         UNCHANGED <<task, presented, lost>>,
         \A q \in Objects : InUse(q) => InUse(q)' /\ object'[q] = object[q],
         \A q \in Objects :
           \/ ObjectInv(q)'
           \/ /\ object'[q] = object[q] /\ (q <= built' => q <= built)
              /\ Candidate(q) => Candidate(q)' \/ Names(object[q].revision, object[q].credential)'
  PROVE  IInv'
<1>1. Types
  BY Zenon DEF IInv
<1>2. GateInv'
  BY Zenon DEF IInv, GateInv, HoldsGate, HoldsPermit, At
<1>3. \A q \in Objects : object'[q] = object[q] => SameState(q) /\ SamePresented(q) /\ Evolves(q)
  BY <1>1, ObjectTypes DEF SameState, SamePresented, Evolves
<1>4. ASSUME NEW u \in Tasks PROVE TaskInv(u)'
  <2>1. TaskInv(u) /\ task'[u] = task[u]
    BY Zenon DEF IInv
  <2>2. ASSUME task[u].step # "idle"
        PROVE  InUse(task[u].object)' /\ SameState(task[u].object) /\ SamePresented(task[u].object)
               /\ Evolves(task[u].object)
    <3>1. PICK o : o = task[u].object
      BY Zenon
    <3>2. InUse(o) /\ o \in Objects
      BY <1>1, <2>1, <2>2, <3>1, BuiltObject, Zenon DEF TaskInv, InUse
    <3>3. InUse(o)' /\ object'[o] = object[o]
      BY <3>2, Zenon
    <3>4. InUse(task[u].object)'
      BY <3>1, <3>3, Zenon DEF InUse
    <3>5. QED
      BY <1>3, <3>1, <3>2, <3>3, <3>4, Zenon
  <2>3. TaskLeft(u)
    BY <2>1, <2>2, Zenon DEF TaskLeft
  <2>4. QED
    BY <1>1, <2>1, <2>3, TaskFrame, Zenon
<1>5. ASSUME NEW o \in Objects PROVE ObjectInv(o)'
  <2>1. CASE /\ object'[o] = object[o] /\ (o <= built' => o <= built)
             /\ Candidate(o) => Candidate(o)' \/ Names(object[o].revision, object[o].credential)'
    <3>1. ObjectInv(o)
      BY Zenon DEF IInv
    <3>2. Exchanging(o) => Exchanging(o)'
      BY <2>1, Zenon DEF Exchanging
    <3>3. SameState(o) /\ SamePresented(o) /\ (InUse(o) => InUse(o)')
      BY <1>3, <2>1, Zenon
    <3>4. ObjectLeft(o)
      BY <2>1, <3>2, <3>3, Zenon DEF ObjectLeft
    <3>5. QED
      BY <1>1, <3>1, <3>4, ObjectFrame, Zenon
  <2>2. QED
    BY <2>1, Zenon
<1>6. QED
  BY <1>2, <1>4, <1>5, Zenon DEF IInv

\* The number of the candidate is no object's that is in use.
LEMMA CandidateIsNew ==
  ASSUME IInv, NEW o \in Objects, ~InUse(o)
  PROVE  \A c \in Credentials : presented[<<o, c>>] = 0
<1>1. ObjectInv(o)
  BY Zenon DEF IInv
<1>2. QED
  BY <1>1, Zenon DEF ObjectInv

LEMMA StateTypes ==
  ASSUME NEW credential \in Nat, NEW revision \in Nat, NEW auth \in {"active", "reauth"},
         NEW n, n = State(credential, revision, auth)
  PROVE  /\ n \in ObjectStates /\ n.credential = credential /\ n.revision = revision
         /\ n.auth = auth /\ n.pending = NoUpdate /\ n.observation = 0
         /\ auth = "reauth" => ~n.due
  BY IdleTypes, Zenon DEF State, ObjectStates

LEMMA UnbuiltTypes == Unbuilt \in ObjectStates /\ Unbuilt.observation = 0
  BY Zenon DEF Unbuilt, State, ObjectStates, NoUpdate, Updates

\* Loading, with the object n built for the candidate.
LEMMA LoadsKeepIInv ==
  ASSUME IInv, manager.step = "idle", built < MaxObjects, NEW k, k = built + 1, built' = k,
         manager' \in Operations, manager'.step = "discovering", manager'.object = k,
         manager'.expected = row.revision,
         NEW n \in ObjectStates, object' = [object EXCEPT ![k] = n],
         n.pending = NoUpdate, n.observation = 0, n.credential \in 1..Len(parent'),
         n.auth \in {"active", "reauth"}, n.auth = "reauth" => ~n.due,
         \/ n.revision = row.revision /\ n.credential = row.credential
         \/ n.revision = row.revision + 1 /\ parent'[n.credential] = 0,
         parent' \in Seq(Nat), Len(parent') <= MaxCredentials, ParentGrows,
         UNCHANGED <<row, installed, task, scheduled, commands, presented, lost, behind, cut>>
  PROVE  IInv'
<1>1. /\ Types /\ built \in Nat /\ k \in Nat /\ k \in Objects /\ row.revision \in Nat
      /\ installed \in 0..built /\ n.credential \in Nat /\ n.revision \in Nat
  <2>1. Types
    BY Zenon DEF IInv
  <2>2. built \in Nat /\ row.revision \in Nat /\ installed \in 0..built
    BY <2>1, Zenon DEF Types
  <2>3. k \in Nat /\ k \in Objects
    BY <2>2, RefreshAssumption DEF Objects
  <2>4. QED
    BY <2>1, <2>2, <2>3, Zenon DEF ObjectStates
<1>2. /\ object'[k] = n /\ object' \in [Objects -> ObjectStates]
      /\ \A q \in Objects : q # k => object'[q] = object[q]
  BY <1>1, Zenon DEF Types
<1>3. Types'
  <2>1. row.credential \in 1..Len(parent')
    BY <1>1 DEF Types, ParentGrows
  <2>2. built' \in Nat /\ built' <= MaxObjects /\ installed \in 0..built'
    BY <1>1, RefreshAssumption
  <2>3. QED
    BY <1>1, <1>2, <2>1, <2>2, Zenon DEF Types
<1>4. \A q : (InUse(q)' <=> InUse(q)) /\ (InUse(q) => q \in 1..built) /\ ~Candidate(q)
  BY <1>1 DEF InUse, Candidate
<1>5. RowGrows
  BY <1>1 DEF RowGrows
<1>6. ManagerInv'
  <2>1. \/ Names(n.revision, n.credential)'
        \/ n.revision = row.revision + 1 /\ parent'[n.credential] = 0
    BY <1>1 DEF Names
  <2>2. QED
    BY <1>1, <1>2, <2>1 DEF ManagerInv, Names
<1>7. installed # 0 => /\ installed \in Objects /\ installed \in 1..built
                       /\ object'[installed] = object[installed]
  BY <1>1, <1>2, BuiltObject
<1>8. BehindInv'
  BY <1>7, Zenon DEF IInv, BehindInv, Taken, Returning, At
<1>9. ScheduleInv'
  <2>1. CommandsKept
    BY Zenon DEF CommandsKept, Removes
  <2>2. \A q \in Objects : InUse(q) => InUse(q)' /\ Evolves(q)
    BY <1>1, <1>2, <1>4, ObjectTypes DEF Evolves
  <2>3. QED
    BY <1>1, <1>7, <2>1, <2>2, ScheduleFrame, Zenon DEF IInv, At
<1>10. ObjectInv(k)'
  <2>1. ~InUse(k) /\ Candidate(k)'
    BY <1>1 DEF InUse, Candidate
  <2>2. \A c \in Credentials : presented[<<k, c>>] = 0
    BY <1>1, <2>1, CandidateIsNew, Zenon
  <2>3. n.credential \in Credentials
    BY <1>1, RefreshAssumption DEF Credentials, ParentGrows
  <2>4. QED
    BY <1>2, <2>1, <2>2, <2>3, Zenon DEF ObjectInv, Candidate
<1>11. QED
  <2>1. \A q \in Objects : InUse(q) => InUse(q)' /\ object'[q] = object[q]
    BY <1>1, <1>2, <1>4
  <2>2. ASSUME NEW q \in Objects
        PROVE  \/ ObjectInv(q)'
               \/ /\ object'[q] = object[q] /\ (q <= built' => q <= built)
                  /\ Candidate(q) => Candidate(q)' \/ Names(object[q].revision, object[q].credential)'
    <3>1. CASE q = k
      BY <1>10, <3>1, Zenon
    <3>2. CASE q # k
      BY <1>1, <1>2, <1>4, <3>2, ObjectTypes
    <3>3. QED
      BY <3>1, <3>2, Zenon
  <2>3. QED
    BY <1>3, <1>5, <1>6, <1>8, <1>9, <2>1, <2>2, OperationFrame, Zenon

LEMMA LoadKeepsIInv ==
  ASSUME IInv, Load
  PROVE  IInv'
<1>1. /\ Types /\ manager.step = "idle" /\ built < MaxObjects /\ built' = built + 1
      /\ UNCHANGED <<row, installed, task, scheduled, commands, presented, lost, behind, cut>>
  BY Zenon DEF IInv, Load, history
<1>2. /\ built + 1 \in Nat /\ row.revision \in Nat /\ row.revision + 1 \in Nat
      /\ row.credential \in Nat /\ row.credential \in 1..Len(parent)
      /\ row.auth \in {"active", "reauth"} /\ parent \in Seq(Nat) /\ Len(parent) \in Nat
      /\ Len(parent) + 1 \in Nat /\ Len(parent) <= MaxCredentials
  BY <1>1 DEF Types
<1>3. /\ manager' \in Operations /\ manager'.step = "discovering"
      /\ manager'.object = built + 1 /\ manager'.expected = row.revision
  BY <1>2 DEF Load, Operations
<1>4. CASE /\ object' = [object EXCEPT ![built + 1] = State(row.credential, row.revision, row.auth)]
           /\ UNCHANGED parent
  <2>1. PICK n : n = State(row.credential, row.revision, row.auth)
    BY Zenon
  <2>2. /\ n \in ObjectStates /\ n.credential = row.credential /\ n.revision = row.revision
        /\ n.auth = row.auth /\ n.pending = NoUpdate /\ n.observation = 0
        /\ n.auth = "reauth" => ~n.due
    <3>1. PICK c, r, auth : c = row.credential /\ r = row.revision /\ auth = row.auth
      BY Zenon
    <3>2. c \in Nat /\ r \in Nat /\ auth \in {"active", "reauth"} /\ n = State(c, r, auth)
      BY <1>2, <2>1, <3>1, Zenon
    <3>3. QED
      BY <3>1, <3>2, StateTypes
  <2>3. ParentGrows
    BY <1>2, <1>4 DEF ParentGrows
  <2>4. QED
    BY <1>1, <1>2, <1>3, <1>4, <2>1, <2>2, <2>3, LoadsKeepIInv, Zenon
<1>5. CASE /\ Len(parent) < MaxCredentials /\ parent' = Append(parent, 0)
           /\ object' = [object EXCEPT ![built + 1] =
                           State(Len(parent) + 1, row.revision + 1, "active")]
  <2>1. PICK n : n = State(Len(parent) + 1, row.revision + 1, "active")
    BY Zenon
  <2>2. /\ n \in ObjectStates /\ n.credential = Len(parent) + 1 /\ n.revision = row.revision + 1
        /\ n.auth = "active" /\ n.pending = NoUpdate /\ n.observation = 0
    BY <1>2, <2>1, StateTypes
  <2>3. /\ parent' \in Seq(Nat) /\ Len(parent') = Len(parent) + 1
        /\ parent'[Len(parent) + 1] = 0 /\ Len(parent') <= MaxCredentials
        /\ \A c \in 1..Len(parent) : parent'[c] = parent[c]
    BY <1>2, <1>5, RefreshAssumption
  <2>4. ParentGrows /\ n.credential \in 1..Len(parent')
    BY <1>2, <2>2, <2>3 DEF ParentGrows
  <2>5. QED
    BY <1>1, <1>2, <1>3, <1>5, <2>1, <2>2, <2>3, <2>4, LoadsKeepIInv, Zenon
<1>6. QED
  BY <1>4, <1>5, Zenon DEF Load

\* The operation ends, and its candidate is nobody's.
LEMMA DiscardKeepsIInv ==
  ASSUME IInv, manager.step # "idle", Discard, RowGrows,
         row' \in [revision : Nat, credential : Nat, auth : {"active", "reauth"},
                   enabled : BOOLEAN],
         row'.credential \in 1..Len(parent), behind' \in BOOLEAN,
         Taken' => Taken /\ row'.revision = row.revision,
         UNCHANGED <<parent, installed, task, scheduled, commands, presented, lost, cut>>
  PROVE  IInv'
<1>1. PICK k : k = built
  BY Zenon
<1>2. /\ Types /\ k \in Nat /\ k # 0 /\ k \in Objects /\ k \in 1..built /\ manager.object = k
      /\ installed \in 0..built /\ installed # k
  <2>1. Types /\ ManagerInv
    BY Zenon DEF IInv
  <2>2. k \in Nat /\ k # 0 /\ manager.object = k /\ installed # k /\ installed \in 0..built
    BY <1>1, <2>1, Zenon DEF Types, ManagerInv
  <2>3. QED
    BY <1>1, <2>1, <2>2, BuiltObject
<1>3. /\ manager' = NoOperation /\ object' = [object EXCEPT ![k] = Unbuilt] /\ built' = k - 1
  BY <1>1, Zenon DEF Discard
<1>4. /\ object'[k] = Unbuilt /\ object' \in [Objects -> ObjectStates]
      /\ \A q \in Objects : q # k => object'[q] = object[q]
  BY <1>2, <1>3, UnbuiltTypes, Zenon DEF Types
<1>5. built' \in Nat /\ built' <= MaxObjects /\ installed \in 0..built'
  BY <1>1, <1>2, <1>3, RefreshAssumption DEF Types
<1>6. manager' \in Operations /\ manager'.step = "idle"
  BY <1>3, Zenon DEF NoOperation, Operations
<1>7. Types'
  BY <1>2, <1>4, <1>5, <1>6, Zenon DEF Types
<1>8. \A q : /\ InUse(q) => InUse(q)' /\ q # k
             /\ Candidate(q) => q = k
  BY <1>1, <1>2, <1>3, <1>6 DEF InUse, Candidate
<1>9. ParentGrows
  BY <1>2 DEF ParentGrows, Types
<1>10. ManagerInv'
  BY <1>6, Zenon DEF ManagerInv
<1>11. installed # 0 => object'[installed] = object[installed]
  BY <1>2, <1>4, BuiltObject
<1>12. BehindInv'
  BY <1>11, Zenon DEF IInv, BehindInv, Taken, Returning, At
<1>13. ScheduleInv'
  <2>1. CommandsKept
    BY Zenon DEF CommandsKept, Removes
  <2>2. \A q \in Objects : InUse(q) => InUse(q)' /\ Evolves(q)
    <3>1. \A n \in Nat : n >= n
      OBVIOUS
    <3>2. \A q \in Objects : object[q].generation \in Nat
      BY <1>2, ObjectTypes, Zenon
    <3>3. QED
      BY <1>4, <1>8, <3>1, <3>2, Zenon DEF Evolves
  <2>3. QED
    BY <1>2, <1>11, <2>1, <2>2, ScheduleFrame, Zenon DEF IInv, At
<1>14. ObjectInv(k)'
  <2>1. ~InUse(k)
    BY <1>2, Zenon DEF InUse
  <2>2. \A c \in Credentials : presented[<<k, c>>] = 0
    BY <1>2, <2>1, CandidateIsNew, Zenon
  <2>3. ~(k <= built')
    BY <1>2, <1>3
  <2>4. QED
    BY <1>4, <2>2, <2>3, UnbuiltTypes, Zenon DEF ObjectInv
<1>15. QED
  <2>1. \A q \in Objects : InUse(q) => InUse(q)' /\ object'[q] = object[q]
    BY <1>4, <1>8, Zenon
  <2>2. ASSUME NEW q \in Objects
        PROVE  \/ ObjectInv(q)'
               \/ /\ object'[q] = object[q] /\ (q <= built' => q <= built)
                  /\ Candidate(q) => Candidate(q)' \/ Names(object[q].revision, object[q].credential)'
    <3>1. CASE q = k
      BY <1>14, <3>1, Zenon
    <3>2. CASE q # k
      <4>1. q \in Nat
        BY <1>2, ObjectTypes, Zenon
      <4>2. QED
        BY <1>1, <1>2, <1>3, <1>4, <1>8, <3>2, <4>1
    <3>3. QED
      BY <3>1, <3>2, Zenon
  <2>3. QED
    BY <1>7, <1>9, <1>10, <1>12, <1>13, <2>1, <2>2, OperationFrame, Zenon

\* The snapshot is the next revision with the candidate's credential, or the row's own.
LEMMA SnapshotFacts ==
  ASSUME IInv, manager.step = "discovering", row.revision = manager.expected, row' = Snapshot
  PROVE  /\ row' \in [revision : Nat, credential : Nat, auth : {"active", "reauth"},
                      enabled : BOOLEAN]
         /\ row'.credential \in 1..Len(parent) /\ RowGrows
         /\ row'.revision = object[built].revision /\ row'.credential = object[built].credential
         /\ manager.object = built /\ built \in Objects /\ built \in Nat
         /\ ~Advances => row'.revision = row.revision
         /\ \/ row'.revision = row.revision /\ row'.credential = row.credential
               /\ row'.auth = row.auth
            \/ row'.revision = row.revision + 1 /\ parent[row'.credential] = 0
<1>1. Types /\ ManagerInv
  BY Zenon DEF IInv
<1>2. /\ built \in Nat /\ built # 0 /\ manager.object = built /\ row.revision \in Nat
      /\ manager.enabled \in BOOLEAN /\ row.auth \in {"active", "reauth"}
  BY <1>1, Zenon DEF Types, ManagerInv, Operations
<1>3. built \in Objects /\ built <= built
  BY <1>1, <1>2, BuiltObject
<1>4. ObjectInv(built)
  BY <1>3, Zenon DEF IInv
<1>5. PICK b : b = object[built]
  BY Zenon
<1>6. /\ b.credential \in 1..Len(parent) /\ b.auth \in {"active", "reauth"}
      /\ b.credential \in Nat /\ b.revision \in Nat
  BY <1>1, <1>3, <1>4, <1>5, ObjectTypes, Zenon DEF ObjectInv
<1>7. \/ b.revision = row.revision /\ b.credential = row.credential
      \/ b.revision = row.revision + 1 /\ parent[b.credential] = 0
  BY <1>1, <1>5, Zenon DEF ManagerInv, Names
<1>8. row' = [revision |-> b.revision, credential |-> b.credential,
              auth |-> IF b.revision > row.revision THEN b.auth ELSE row.auth,
              enabled |-> manager.enabled]
  BY <1>2, <1>5, Zenon DEF Snapshot, Advances
<1>9. /\ row' \in [revision : Nat, credential : Nat, auth : {"active", "reauth"},
                    enabled : BOOLEAN]
      /\ row'.revision = b.revision /\ row'.credential = b.credential
      /\ b.revision = row.revision => row'.auth = row.auth
  BY <1>2, <1>6, <1>8
<1>10. RowGrows
  BY <1>2, <1>7, <1>9 DEF RowGrows
<1>11. ~Advances => row'.revision = row.revision
  BY <1>2, <1>5, <1>6, <1>7, <1>9 DEF Advances
<1>12. QED
  BY <1>2, <1>3, <1>5, <1>6, <1>7, <1>9, <1>10, <1>11, Zenon

LEMMA CommitKeepsIInv ==
  ASSUME IInv, Commit
  PROVE  IInv'
<1>1. /\ Types /\ ManagerInv /\ manager.step = "discovering"
      /\ UNCHANGED <<parent, installed, task, scheduled, commands, presented, lost, cut>>
  BY Zenon DEF IInv, Commit
<1>2. /\ row \in [revision : Nat, credential : Nat, auth : {"active", "reauth"},
                   enabled : BOOLEAN]
      /\ row.revision \in Nat /\ row.credential \in 1..Len(parent) /\ behind \in BOOLEAN
  BY <1>1, Zenon DEF Types
<1>3. CASE /\ row.revision = manager.expected /\ row' = Snapshot
           /\ manager' = [manager EXCEPT !.step = "committed"]
           /\ UNCHANGED <<object, built, behind>>
  <2>1. /\ row' \in [revision : Nat, credential : Nat, auth : {"active", "reauth"},
                      enabled : BOOLEAN]
        /\ row'.credential \in 1..Len(parent) /\ RowGrows
        /\ row'.revision = object[built].revision /\ row'.credential = object[built].credential
        /\ manager.object = built /\ built \in Objects /\ built \in Nat
        /\ ~Advances => row'.revision = row.revision
    BY <1>1, <1>3, SnapshotFacts, Zenon
  <2>2. /\ manager' \in Operations /\ manager'.step = "committed"
        /\ manager'.object = manager.object /\ manager'.expected = manager.expected
    BY <1>1, <1>3, Zenon DEF Types, Operations
  <2>3. Types'
    BY <1>1, <1>3, <2>1, <2>2, Zenon DEF Types
  <2>4. ParentGrows /\ \A q : InUse(q)' <=> InUse(q)
    BY <1>1, <1>3, <2>2 DEF ParentGrows, Types, InUse
  <2>5. ManagerInv'
    <3>1. manager.expected <= row'.revision
      BY <1>2, <1>3, <2>1, Zenon DEF RowGrows
    <3>2. QED
      BY <1>1, <1>3, <2>1, <2>2, <3>1, Zenon DEF ManagerInv
  <2>6. BehindInv'
    <3>1. Advances' <=> Advances
      BY <1>3, <2>2, Zenon DEF Advances
    <3>2. Taken' => Taken /\ row'.revision = row.revision
      BY <1>1, <1>3, <2>1, <2>2, <3>1, Zenon DEF Taken
    <3>3. QED
      BY <1>1, <1>3, <3>2, Zenon DEF IInv, BehindInv, Returning, At
  <2>7. ScheduleInv'
    BY <1>1, <1>3, <2>4, Zenon DEF IInv, ScheduleInv, ScheduleKept, Removes, At
  <2>8. \A q \in Objects : Candidate(q) => Names(object[q].revision, object[q].credential)'
    BY <1>3, <2>1 DEF Candidate, Names
  <2>9. QED
    BY <1>1, <1>3, <2>1, <2>3, <2>4, <2>5, <2>6, <2>7, <2>8, OperationFrame, Zenon
<1>4. CASE /\ row.revision = manager.expected /\ row' = Snapshot
           /\ behind' = (behind \/ Advances) /\ Discard
  <2>1. /\ row' \in [revision : Nat, credential : Nat, auth : {"active", "reauth"},
                      enabled : BOOLEAN]
        /\ row'.credential \in 1..Len(parent) /\ RowGrows
        /\ ~Advances => row'.revision = row.revision
    BY <1>1, <1>4, SnapshotFacts, Zenon
  <2>2. Taken' => Taken /\ row'.revision = row.revision
    BY <1>1, <1>4, <2>1, Zenon DEF Taken
  <2>3. behind' \in BOOLEAN
    BY <1>2, <1>4, Zenon DEF Advances
  <2>4. QED
    BY <1>1, <1>4, <2>1, <2>2, <2>3, DiscardKeepsIInv, Zenon
<1>5. CASE UNCHANGED <<row, behind>> /\ Discard
  <2>1. RowGrows /\ (Taken' => Taken /\ row'.revision = row.revision)
    BY <1>1, <1>2, <1>5 DEF RowGrows, Taken
  <2>2. QED
    BY <1>1, <1>2, <1>5, <2>1, DiscardKeepsIInv, Zenon
<1>6. QED
  BY <1>3, <1>4, <1>5, Zenon DEF Commit

LEMMA AbandonKeepsIInv ==
  ASSUME IInv, Abandon
  PROVE  IInv'
<1>1. /\ Types /\ manager.step # "idle" /\ Discard
      /\ behind' = (behind \/ (manager.step = "committed" /\ Advances))
      /\ UNCHANGED <<row, parent, installed, task, scheduled, commands, presented, lost, cut>>
  BY Zenon DEF IInv, Abandon, durable
<1>2. /\ row \in [revision : Nat, credential : Nat, auth : {"active", "reauth"},
                   enabled : BOOLEAN]
      /\ row.revision \in Nat /\ row.credential \in 1..Len(parent) /\ behind \in BOOLEAN
  BY <1>1, Zenon DEF Types
<1>3. RowGrows /\ (Taken' => Taken /\ row'.revision = row.revision) /\ behind' \in BOOLEAN
  <2>1. RowGrows
    BY <1>1, <1>2 DEF RowGrows
  <2>2. Taken' => Taken
    BY <1>1, Zenon DEF Taken
  <2>3. behind' \in BOOLEAN
    BY <1>1, Zenon
  <2>4. QED
    BY <1>1, <2>1, <2>2, <2>3, Zenon
<1>4. QED
  BY <1>1, <1>2, <1>3, DiscardKeepsIInv, Zenon

LEMMA InstallKeepsIInv ==
  ASSUME IInv, Install
  PROVE  IInv'
<1>1. /\ Types /\ ManagerInv /\ manager.step = "committed" /\ manager' = NoOperation
      /\ installed' = (IF manager.enabled THEN manager.object ELSE 0)
      /\ behind' = manager.raced
      /\ UNCHANGED <<row, parent, object, built, task, scheduled, presented, lost, cut>>
  BY Zenon DEF IInv, Install, durable
<1>2. /\ manager.object = built /\ built \in Nat /\ built # 0 /\ row.revision \in Nat
      /\ manager.raced \in BOOLEAN /\ manager.enabled \in BOOLEAN /\ built \in Objects
      /\ ~manager.raced => object[built].revision = row.revision
  <2>1. manager.object = built /\ built \in Nat /\ built # 0 /\ row.revision \in Nat
        /\ manager.raced \in BOOLEAN /\ manager.enabled \in BOOLEAN
    BY <1>1, Zenon DEF Types, ManagerInv, Operations
  <2>2. QED
    BY <1>1, <2>1, BuiltObject DEF ManagerInv
<1>3. manager' \in Operations /\ manager'.step = "idle"
  BY <1>1, Zenon DEF NoOperation, Operations
<1>4. PICK c \in Commands : /\ \/ commands' = Append(commands, c)
                               \/ commands' = commands /\ ~manager.enabled
                            /\ c.kind = "remove" => c.object = 0
                            /\ manager.enabled => c.kind = "reschedule"
  <2>1. [kind |-> "reschedule", object |-> manager.object] \in Commands
    BY <1>2, Zenon DEF Commands
  <2>2. [kind |-> "remove", object |-> 0] \in Commands
    BY Zenon DEF Commands
  <2>3. QED
    BY <2>1, <2>2, Zenon DEF Install
<1>5. commands' \in Seq(Commands)
  <2>1. commands \in Seq(Commands)
    BY <1>1, Zenon DEF Types
  <2>2. QED
    BY <1>4, <2>1
<1>6. Types'
  BY <1>1, <1>2, <1>3, <1>5 DEF Types
<1>7. /\ RowGrows /\ ParentGrows
      /\ \A q : (InUse(q) => InUse(q)' /\ q # built) /\ ~Candidate(q)
  BY <1>1, <1>2, <1>3 DEF RowGrows, ParentGrows, Types, InUse, Candidate
<1>8. ManagerInv'
  BY <1>3, Zenon DEF ManagerInv
<1>9. BehindInv'
  <2>1. SUFFICES ASSUME Taken' PROVE BehindInv'
    BY Zenon DEF BehindInv
  <2>2. installed' = built /\ object'[installed'].revision = row'.revision
    BY <1>1, <1>2, <2>1, Zenon DEF Taken
  <2>3. ASSUME NEW t \in Tasks PROVE ~Returning(t)'
    <3>1. TaskInv(t)
      BY Zenon DEF IInv
    <3>2. task[t].step = "swapped" => task[t].object # built
      BY <1>7, <3>1, Zenon DEF TaskInv
    <3>3. QED
      BY <1>1, <2>2, <3>2, Zenon DEF Returning, At
  <2>4. QED
    BY <2>2, <2>3, Zenon DEF BehindInv
<1>10. ScheduleInv'
  <2>1. CASE commands' = commands /\ ~manager.enabled
    BY <1>1, <1>7, <2>1, Zenon DEF IInv, ScheduleInv, ScheduleKept, Removes
  <2>2. CASE commands' = Append(commands, c)
    <3>1. /\ \A o : Removes(o)' => Removes(o) \/ (c.kind = "remove" /\ c.object = o)
          /\ \E j \in DOMAIN commands' : commands'[j] = c
      BY <1>1, <2>2, AppendKeepsCommands, Zenon
    <3>2. ScheduleKept'
      BY <1>1, <1>4, <3>1, Zenon DEF ScheduleKept
    <3>3. \A o \in Nat \ {0} : Removes(o)' => InUse(o)' /\ object'[o].auth = "reauth"
      BY <1>1, <1>4, <1>7, <3>1 DEF IInv, ScheduleInv
    <3>4. QED
      BY <3>2, <3>3, Zenon DEF ScheduleInv
  <2>3. QED
    BY <1>4, <2>1, <2>2, Zenon
<1>11. QED
  BY <1>1, <1>6, <1>7, <1>8, <1>9, <1>10, OperationFrame, Zenon

-----------------------------------------------------------------------------
LEMMA InitKeepsIInv ==
  ASSUME Init
  PROVE  IInv
<1>1. /\ row = [revision |-> 0, credential |-> 1, auth |-> "active", enabled |-> TRUE]
      /\ parent = <<0>> /\ built = 1 /\ installed = 1 /\ scheduled = FALSE
      /\ commands = <<[kind |-> "reschedule", object |-> 1]>> /\ manager = NoOperation
      /\ presented = [oc \in Objects \X Credentials |-> 0]
      /\ lost = {} /\ behind = FALSE /\ cut = FALSE
      /\ object = [o \in Objects |-> IF o = 1 THEN State(1, 0, "active") ELSE Unbuilt]
      /\ task = [t \in Tasks |-> Idle]
  BY Zenon DEF Init
<1>2. PICK n : n = State(1, 0, "active")
  BY Zenon
<1>3. /\ n \in ObjectStates /\ n.credential = 1 /\ n.revision = 0 /\ n.auth = "active"
      /\ n.pending = NoUpdate /\ n.observation = 0
  BY <1>2, StateTypes
<1>4. /\ object \in [Objects -> ObjectStates] /\ 1 \in Objects /\ object[1] = n
      /\ \A o \in Objects : o # 1 => object[o] = Unbuilt
  BY <1>1, <1>2, <1>3, UnbuiltTypes, RefreshAssumption DEF Objects
<1>5. /\ row.revision = 0 /\ row.credential = 1 /\ Len(parent) = 1 /\ parent \in Seq(Nat)
      /\ row \in [revision : Nat, credential : Nat, auth : {"active", "reauth"},
                   enabled : BOOLEAN]
  BY <1>1
<1>6. manager \in Operations /\ manager.step = "idle"
  BY <1>1, Zenon DEF NoOperation, Operations
<1>7. /\ commands \in Seq(Commands) /\ DOMAIN commands = {1} /\ commands[1].kind = "reschedule"
  <2>1. [kind |-> "reschedule", object |-> 1] \in Commands
    BY Zenon DEF Commands
  <2>2. QED
    BY <1>1, <2>1
<1>8. task \in [Tasks -> TaskStates] /\ \A t \in Tasks : task[t].step = "idle"
  BY <1>1, IdleTypes, Zenon DEF Idle
<1>9. Types
  <2>1. presented \in [Objects \X Credentials -> Nat]
    BY <1>1, Zenon
  <2>2. /\ built \in Nat /\ built <= MaxObjects /\ installed \in 0..built
        /\ Len(parent) <= MaxCredentials /\ row.credential \in 1..Len(parent)
    BY <1>1, <1>5, RefreshAssumption
  <2>3. scheduled \in BOOLEAN /\ behind \in BOOLEAN /\ cut \in BOOLEAN
    BY <1>1, Zenon
  <2>4. QED
    BY <1>4, <1>5, <1>6, <1>7, <1>8, <2>1, <2>2, <2>3, Zenon DEF Types
<1>10. GateInv /\ ManagerInv /\ \A t \in Tasks : TaskInv(t)
  BY <1>6, <1>8, Zenon DEF GateInv, ManagerInv, TaskInv, HoldsGate, HoldsPermit, At
<1>11. BehindInv
  BY <1>1, <1>3, <1>4, <1>5, <1>8, Zenon DEF BehindInv, Returning, At
<1>12. ScheduleInv
  BY <1>7, Zenon DEF ScheduleInv, ScheduleKept, Removes
<1>13. ASSUME NEW o \in Objects PROVE ObjectInv(o)
  <2>1. \A c \in Credentials : presented[<<o, c>>] = 0
    BY <1>1, Zenon
  <2>2. CASE o = 1
    <3>1. 1 \in Credentials
      BY RefreshAssumption DEF Credentials
    <3>2. QED
      BY <1>3, <1>4, <1>5, <2>1, <2>2, <3>1 DEF ObjectInv, Names
  <2>3. CASE o # 1
    <3>1. ~(o <= built)
      BY <1>1, <2>3 DEF Objects
    <3>2. QED
      BY <1>4, <2>1, <2>3, <3>1, UnbuiltTypes, Zenon DEF ObjectInv
  <2>4. QED
    BY <2>2, <2>3, Zenon
<1>14. QED
  BY <1>9, <1>10, <1>11, <1>12, <1>13, Zenon DEF IInv

\* Nothing happens.
LEMMA StutterKeepsIInv ==
  ASSUME IInv, UNCHANGED vars
  PROVE  IInv'
<1>1. /\ UNCHANGED <<row, object, built, installed, parent, task, scheduled, commands, manager>>
      /\ UNCHANGED <<presented, lost, behind, cut>>
  BY Zenon DEF vars
<1>2. Types'
  BY <1>1, Zenon DEF IInv, Types
<1>3. GateInv' /\ ScheduleInv'
  BY <1>1, Zenon DEF IInv, GateInv, HoldsGate, HoldsPermit, At, ScheduleInv, ScheduleKept, Removes, InUse
<1>4. QED
  BY <1>1, <1>2, <1>3, SchedulerFrame, Zenon

LEMMA NextKeepsIInv ==
  ASSUME IInv, [Next]_vars
  PROVE  IInv'
<1>1. ASSUME RequestNext PROVE IInv'
  BY Zenon, <1>1, StartRequestKeepsIInv, ReadGenerationKeepsIInv, SendKeepsIInv, RespondKeepsIInv,
     DropKeepsIInv DEF RequestNext
<1>2. ASSUME RefreshNext PROVE IInv'
  BY Zenon, <1>2, LockGateKeepsIInv, AcquireLimitKeepsIInv, ExchangeKeepsIInv, MarkKeepsIInv,
     MarkReturnKeepsIInv, SwapKeepsIInv, SwapReturnKeepsIInv DEF RefreshNext
<1>3. ASSUME SchedulerNext PROVE IInv'
  BY <1>3, ObeyKeepsIInv, ExpireKeepsIInv, JoinKeepsIInv, Zenon DEF SchedulerNext
<1>4. ASSUME ManagerNext PROVE IInv'
  BY <1>4, LoadKeepsIInv, CommitKeepsIInv, InstallKeepsIInv, AbandonKeepsIInv, Zenon DEF ManagerNext
<1>5. QED
  BY <1>1, <1>2, <1>3, <1>4, StutterKeepsIInv, Zenon DEF Next

\* What objects, tasks and the manager remember of the row stays in step with it
\* through every step of requests, refreshes, the scheduler and the manager.
THEOREM InductiveInvariant == Spec => []IInv
<1>1. Init => IInv
  BY InitKeepsIInv, Zenon
<1>2. IInv /\ [Next]_vars => IInv'
  BY NextKeepsIInv, Zenon
<1>3. QED
  BY <1>1, <1>2, PTL DEF Spec

-----------------------------------------------------------------------------
(***************************************************************************)
(* The properties of CredentialRefresh.                                    *)
(***************************************************************************)
\* An account object at the row's revision has the row's credential, the installed
\* object is at the row's revision unless one of the known ways to part happened, and
\* quota observations belong to the credential of their object.
THEOREM ObjectsStayInStep == Spec => []ObjectsFollowRow
<1>1. ASSUME IInv PROVE ObjectsFollowRow
  <2>1. RevisionNamesCredential
    <3>1. ASSUME NEW o \in 1..built, object[o].pending = NoUpdate,
                 object[o].revision = row.revision
          PROVE  \/ object[o].credential = row.credential
                 \/ o = manager.object /\ manager.step = "discovering"
      <4>1. o \in Objects /\ o <= built
        BY <1>1, BuiltObject DEF IInv, Types
      <4>2. ObjectInv(o)
        BY <1>1, <4>1, Zenon DEF IInv
      <4>3. QED
        BY <3>1, <4>1, <4>2, Zenon DEF ObjectInv, Names, Candidate
    <3>2. QED
      BY <3>1, Zenon DEF RevisionNamesCredential
  <2>2. BehindOnlyWithCause
    BY <1>1, Zenon DEF IInv, BehindInv, Taken, Returning, BehindOnlyWithCause
  <2>3. ObservationIsCurrent
    BY <1>1, Zenon DEF IInv, ObjectInv, ObservationIsCurrent
  <2>4. QED
    BY <2>1, <2>2, <2>3, Zenon DEF ObjectsFollowRow
<1>2. QED
  BY <1>1, InductiveInvariant, PTL

\* No object presents a refresh token twice unless the first exchange came to nothing,
\* and a request exchanges only the credential it was refused with.
THEOREM TokensAreExchangedOnce == Spec => []ExchangedOnce
<1>1. ASSUME IInv PROVE ExchangedOnce
  <2>1. PresentedOnce
    <3>1. ASSUME NEW o \in Objects, NEW c \in Credentials \ lost PROVE presented[<<o, c>>] <= 1
      <4>1. ObjectInv(o)
        BY <1>1, Zenon DEF IInv
      <4>2. presented[<<o, c>>] \in {0, 1}
        BY <3>1, <4>1, Zenon DEF ObjectInv
      <4>3. QED
        BY <4>2
    <3>2. QED
      BY <3>1, Zenon DEF PresentedOnce
  <2>2. RefusedIsExchanged
    BY <1>1, Zenon DEF IInv, TaskInv, RefusedIsExchanged, At, Tasks
  <2>3. QED
    BY <2>1, <2>2, Zenon DEF ExchangedOnce
<1>2. QED
  BY <1>1, InductiveInvariant, PTL

\* An installed account that is to be refreshed is queued, about to be queued or being
\* refreshed, whatever results come back in whatever order.
THEOREM SchedulesAreKept == Spec => []ScheduleKept
<1>1. IInv => ScheduleKept
  BY Zenon DEF IInv, ScheduleInv
<1>2. QED
  BY <1>1, InductiveInvariant, PTL

\* No step of a refresh or of the manager undoes what another one committed.
LEMMA StepKeepsCommits ==
  ASSUME IInv, [Next]_vars
  PROVE  CredentialSucceeds /\ ReauthClearedByRevision
<1>1. CASE UNCHANGED row
  BY <1>1, Zenon DEF CredentialSucceeds, ReauthClearedByRevision
<1>2. ASSUME NEW t \in Tasks, Mark(t) PROVE CredentialSucceeds /\ ReauthClearedByRevision
  <2>1. /\ row'.revision = row.revision /\ row'.credential = row.credential
        /\ row'.auth \in {row.auth, "reauth"}
    BY <1>2, Zenon DEF Mark, IInv, Types
  <2>2. QED
    BY <2>1, Zenon DEF CredentialSucceeds, ReauthClearedByRevision
<1>3. ASSUME NEW t \in Tasks, Swap(t), ~UNCHANGED row
      PROVE  CredentialSucceeds /\ ReauthClearedByRevision
  <2>1. PICK u : u = task[t].update
    BY Zenon
  <2>2. /\ Types /\ TaskInv(t) /\ task[t].step = "swap" /\ row.revision = u.expected
        /\ row' = Swapped(u)
    BY <1>3, <2>1, Zenon DEF IInv, Swap, At
  <2>3. u \in Updates /\ row.revision \in Nat /\ Continues(u)
    BY <2>1, <2>2, TaskTypes, Zenon DEF TaskInv, Types
  <2>4. row'.revision = row.revision + 1 /\ parent[row'.credential] = row.credential
    BY <2>2, <2>3, SwappedRow, Zenon DEF Continues
  <2>5. QED
    BY <2>3, <2>4 DEF CredentialSucceeds, ReauthClearedByRevision
<1>4. ASSUME Commit, ~UNCHANGED row PROVE CredentialSucceeds /\ ReauthClearedByRevision
  <2>1. manager.step = "discovering" /\ row.revision = manager.expected /\ row' = Snapshot
    BY <1>4, Zenon DEF Commit
  <2>2. \/ /\ row'.revision = row.revision /\ row'.credential = row.credential
           /\ row'.auth = row.auth
        \/ row'.revision = row.revision + 1 /\ parent[row'.credential] = 0
    BY <2>1, SnapshotFacts, Zenon
  <2>3. row.revision \in Nat
    BY Zenon DEF IInv, Types
  <2>4. QED
    BY <2>2, <2>3 DEF CredentialSucceeds, ReauthClearedByRevision
<1>5. \/ UNCHANGED row \/ Commit
      \/ \E t \in Tasks : Mark(t) \/ Swap(t)
  <2>1. CASE RequestNext
    BY <2>1, Zenon DEF RequestNext, StartRequest, ReadGeneration, Send, Respond, Drop, durable
  <2>2. CASE RefreshNext
    BY <2>2, Zenon DEF RefreshNext, LockGate, AcquireLimit, Exchange, MarkReturn, SwapReturn,
                        durable
  <2>3. CASE SchedulerNext
    BY <2>3, Zenon DEF SchedulerNext, Obey, Expire, Join, durable
  <2>4. CASE ManagerNext
    BY <2>4, Zenon DEF ManagerNext, Load, Install, Abandon, durable
  <2>5. QED
    BY <2>1, <2>2, <2>3, <2>4, Zenon DEF Next, vars
<1>6. QED
  BY <1>1, <1>2, <1>3, <1>4, <1>5, Zenon

\* No writer undoes what another committed: refreshes of replaced objects, late persists
\* and edits loaded before a refresh replace a credential only by its successor, and
\* lift a rejection only with a new revision.
THEOREM CommitsAreKept == Spec => CommitsKept
<1>1. IInv /\ [Next]_vars => [CredentialSucceeds /\ ReauthClearedByRevision]_vars
  BY StepKeepsCommits, Zenon
<1>2. QED
  BY <1>1, InductiveInvariant, PTL DEF Spec, CommitsKept
=============================================================================
