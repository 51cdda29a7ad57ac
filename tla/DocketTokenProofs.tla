------------------------- MODULE DocketTokenProofs --------------------------
(* What each of a docket's two tokens, Case.version and __v, is enough for    *)
(* when requests overlap: theorems about Spec with some of the operations     *)
(* enabled, for any sets of users and handlers and any bounds.                *)
EXTENDS DocketWorkflowProofs

-----------------------------------------------------------------------------
(* A FILED docket stays FILED, as long as nothing but guarded updates, the    *)
(* two reassignments and the atomic operations run (FiledIsFinal is violated  *)
(* with any other operation enabled).  The argument is about versions: an     *)
(* update that has passed the lifecycle check may overtake a filing, but the  *)
(* filing has then made the docket newer than what the update read.           *)

FinalOps == GuardedOps \cup {"Reassign", "ReassignCase"} \cup AtomicOps

\* A request of FinalOps is where its kind of operation can be.
FinalRequest(r) ==
  /\ r.phase # "write"
  /\ r.phase \in GuardedPhases =>
       /\ r.op \in GuardedOps
       /\ r.op = "Unassign" => r.target # "FILED"
  /\ r.phase \in {"read", "save"} => r.op \in {"Reassign", "ReassignCase"}

\* A docket d is FILED, or is about to be changed by r, but not both.
NotBoth(r, d) ==
  /\ r.phase \in {"validate", "commit"} => r.snap.version <= d.version
  /\ r.phase = "commit" /\ r.snap.version = d.version => d.status # "FILED"

FiledInv ==
  /\ docket.status = "FILED" => docket.lifecycle = "DONE"
  /\ \A h \in Handlers : FinalRequest(req[h]) /\ NotBoth(req[h], docket)

\* What FiledInv says of a request survives a change of the docket that does not
\* file it, or files it under a new version.
LEMMA NotBothKept ==
  ASSUME NEW r \in Requests, ReqOK(r), NEW d \in Dockets, NEW e \in Dockets, NotBoth(r, d),
         d.version <= e.version,
         e.status = "FILED" => d.status = "FILED" \/ d.version < e.version
  PROVE  NotBoth(r, e)
  <1>1. CASE r.phase \in {"validate", "commit"}
    <2>1. r.snap \in Dockets
      BY <1>1 DEF ReqOK, HasRead
    <2>2. r.snap.version \in Nat /\ d.version \in Nat /\ e.version \in Nat
      BY <2>1, BoundAssumption DEF Dockets
    <2> QED
      BY <1>1, <2>2 DEF NotBoth
  <1>2. CASE r.phase \notin {"validate", "commit"}
    BY <1>2 DEF NotBoth
  <1> QED
    BY <1>1, <1>2

\* A step that changes at most one request, to a proper one, and the docket in a
\* way that NotBothKept allows.
LEMMA FiledKept ==
  ASSUME TypeInv, FiledInv, NEW h \in Handlers, NEW r \in Requests,
         req' = [req EXCEPT ![h] = r], FinalRequest(r), NotBoth(r, docket'),
         docket' \in Dockets, docket.version <= docket'.version,
         docket'.status = "FILED" => /\ docket'.lifecycle = "DONE"
                                     /\ \/ docket.status = "FILED"
                                        \/ docket.version < docket'.version
  PROVE  FiledInv'
  <1>1. ASSUME NEW k \in Handlers PROVE FinalRequest(req'[k]) /\ NotBoth(req'[k], docket')
    <2>1. CASE k = h
      BY <2>1 DEF TypeInv, TypeOK
    <2>2. CASE k # h
      <3>1. req'[k] = req[k] /\ req[k] \in Requests /\ ReqOK(req[k]) /\ docket \in Dockets
        BY <2>2 DEF TypeInv, TypeOK
      <3>2. FinalRequest(req[k]) /\ NotBoth(req[k], docket)
        BY DEF FiledInv
      <3> QED
        BY <3>1, <3>2, NotBothKept
    <2> QED
      BY <2>1, <2>2
  <1> QED
    BY <1>1 DEF FiledInv, FinalRequest, NotBoth

\* A step of one handler that leaves the docket.
LEMMA FiledGoesOn ==
  ASSUME TypeInv, FiledInv, NEW h \in Handlers, NEW r \in Requests,
         req' = [req EXCEPT ![h] = r], FinalRequest(r), NotBoth(r, docket), docket' = docket
  PROVE  FiledInv' /\ docket'.status = docket.status
  <1>1. ASSUME NEW k \in Handlers PROVE FinalRequest(req'[k]) /\ NotBoth(req'[k], docket)
    BY DEF FiledInv, TypeInv, TypeOK
  <1> QED
    BY <1>1 DEF FiledInv, FinalRequest, NotBoth

\* A finished request is a proper one.
LEMMA FinishedIsFinal ==
  /\ Idle \in Requests
  /\ FinalRequest(Idle)
  /\ \A d : NotBoth(Idle, d)
  BY DEF Idle, Requests, Phases, Statuses, Reasons, FinalRequest, GuardedPhases, NotBoth

\* Versions are numbers.
LEMMA VersionType == TypeInv => docket \in Dockets /\ docket.version \in Nat
  BY BoundAssumption DEF TypeInv, TypeOK, Dockets

\* A handler that answers without having changed the docket.
LEMMA FiledUnchanged ==
  ASSUME TypeInv, FiledInv, NEW h \in Handlers, NEW outcome, Finish(h, outcome),
         docket' = docket
  PROVE  FiledInv' /\ docket'.status = docket.status
  BY FiledGoesOn, FinishedIsFinal DEF Finish

\* A handler that answers having changed the docket.
LEMMA FiledFinish ==
  ASSUME TypeInv, FiledInv, NEW h \in Handlers, NEW outcome, Finish(h, outcome), TypeInv',
         docket.version <= docket'.version,
         docket'.status = "FILED" => /\ docket'.lifecycle = "DONE"
                                     /\ \/ docket.status = "FILED"
                                        \/ docket.version < docket'.version
  PROVE  FiledInv'
  <1>1. req' = [req EXCEPT ![h] = Idle] /\ docket' \in Dockets
    BY DEF Finish, TypeInv, TypeOK
  <1>2. Idle \in Requests /\ FinalRequest(Idle) /\ NotBoth(Idle, docket')
    BY FinishedIsFinal
  <1> HIDE DEF Idle
  <1> QED
    BY <1>1, <1>2, FiledKept

LEMMA InitFiled == Init => FiledInv
  <1> SUFFICES ASSUME Init PROVE FiledInv
    OBVIOUS
  <1>1. docket.status # "FILED"
    BY DEF Init, CreatedDockets, IntakeDockets, NewDocket
  <1>2. \A h \in Handlers : req[h] = Idle
    BY DEF Init
  <1> QED
    BY <1>1, <1>2, FinishedIsFinal DEF FiledInv

\* A handler starts an operation that is allowed to.
LEMMA StartFiled ==
  ASSUME Ops \subseteq FinalOps, TypeInv, FiledInv, NEW h \in Handlers,
         StartGuarded(h) \/ StartSave(h) \/ StartBlind(h), TypeInv'
  PROVE  FiledInv'
  <1>1. \E op, phase, target, user, reason, snap :
          /\ op \in FinalOps /\ phase \in {"load", "read", "save"}
          /\ Start(h, op, phase, target, user, reason, snap)
          /\ phase = "load" => op \in GuardedOps /\ (op = "Unassign" => target # "FILED")
          /\ phase # "load" => op \in {"Reassign", "ReassignCase"}
    <2> USE DEF Start, FinalOps, GuardedOps, AtomicOps
    <2>1. CASE StartGuarded(h)
      <3>1. CASE StartPend(h)
        <4> PICK reason : Start(h, "Pend", "load", "PENDING", None, reason, None)
          BY <3>1 DEF StartPend
        <4> QED
          OBVIOUS
      <3>2. CASE StartFile(h)
        BY <3>2 DEF StartFile
      <3>3. CASE StartClose(h)
        BY <3>3 DEF StartClose
      <3>4. CASE StartUnpend(h)
        BY <3>4 DEF StartUnpend
      <3>5. CASE StartAutoReopen(h)
        BY <3>5 DEF StartAutoReopen
      <3>6. CASE StartUnassign(h)
        <4> PICK target \in {"UNASSIGNED", "ROUTED"} :
                 Start(h, "Unassign", "load", target, None, "none", None)
          BY <3>6 DEF StartUnassign
        <4> QED
          OBVIOUS
      <3> QED
        BY <2>1, <3>1, <3>2, <3>3, <3>4, <3>5, <3>6 DEF StartGuarded
    <2>2. CASE StartSave(h)
      <3>1. CASE StartReassign(h)
        <4> PICK u \in Users :
                 Start(h, "Reassign", "read", "UNASSIGNED", u, "none", None)
          BY <3>1 DEF StartReassign
        <4> QED
          OBVIOUS
      <3>2. CASE StartReassignCase(h)
        <4> PICK u \in Users :
                 Start(h, "ReassignCase", "save", "UNASSIGNED", u, "none", docket)
          BY <3>2 DEF StartReassignCase
        <4> QED
          OBVIOUS
      <3>3. CASE StartQc(h)
        BY <3>3 DEF StartQc
      <3> QED
        BY <2>2, <3>1, <3>2, <3>3 DEF StartSave
    <2>3. ~StartBlind(h)
      BY DEF StartBlind, StartMove, StartReopenDue, StartEmailReopen, StartDeactivate
    <2> QED
      BY <2>1, <2>2, <2>3
  <1> PICK op, phase, target, user, reason, snap :
          /\ op \in FinalOps /\ phase \in {"load", "read", "save"}
          /\ Start(h, op, phase, target, user, reason, snap)
          /\ phase = "load" => op \in GuardedOps /\ (op = "Unassign" => target # "FILED")
          /\ phase # "load" => op \in {"Reassign", "ReassignCase"}
    BY <1>1
  <1> DEFINE r == [phase |-> phase, op |-> op, target |-> target,
                   user |-> user, reason |-> reason, snap |-> snap]
  <1>2. req' = [req EXCEPT ![h] = r] /\ docket' = docket
    BY DEF Start
  <1>3. FinalRequest(r) /\ NotBoth(r, docket')
    BY DEF FinalRequest, NotBoth, GuardedPhases
  <1>4. r \in Requests
    BY <1>2 DEF TypeInv, TypeOK
  <1> HIDE DEF r
  <1> QED
    BY <1>2, <1>3, <1>4, FiledKept, VersionType DEF FiledInv

\* A FILED docket has no lifecycle to go to.
LEMMA DoneIsLast == \A to : ~IsValidTransition("DONE", to)
  BY DEF IsValidTransition, LifecycleSuccessors

\* The two updates of a guarded status change give a new version, and the lifecycle
\* DONE to a docket they file.
LEMMA GuardedUpdateFiles ==
  ASSUME NEW d \in Dockets, NEW r, r.op = "Unassign" => r.target # "FILED"
  PROVE  /\ GuardedUpdate(d, r).version = d.version + 1
         /\ GuardedUpdate(d, r).status = "FILED" => GuardedUpdate(d, r).lifecycle = "DONE"
  <1>1. /\ GuardedUpdate(d, r).version = d.version + 1
        /\ GuardedUpdate(d, r).status = r.target
        /\ GuardedUpdate(d, r).lifecycle =
             IF r.op = "Unassign" THEN "WL"
             ELSE InferLifecycle(r.snap.lifecycle, r.snap.assignee, r.target)
    BY DEF GuardedUpdate, Dockets
  <1>2. \A life, owner : InferLifecycle(life, owner, "FILED") = "DONE"
    BY DEF InferLifecycle, TerminalStatuses
  <1> QED
    BY <1>1, <1>2

\* A reassignment writes neither the status nor the lifecycle nor the version.
LEMMA ReassignmentKeeps ==
  ASSUME NEW d \in Dockets, NEW r \in Requests, r.snap \in Dockets,
         r.op \in {"Reassign", "ReassignCase"}
  PROVE  LET e == SavedDocket(d, r.snap, Edited(r))
         IN  e.status = d.status /\ e.lifecycle = d.lifecycle /\ e.version = d.version
  <1>1. Edited(r).status = r.snap.status /\ Edited(r).lifecycle = r.snap.lifecycle
    BY DEF Edited, Dockets
  <1> QED
    BY <1>1 DEF SavedDocket, Changed, Dockets

\* A commit changes a docket that is not FILED.
LEMMA CommitFiled ==
  ASSUME TypeInv, FiledInv, NEW h \in Handlers, Commit(h), TypeInv'
  PROVE  FiledInv' /\ (docket.status = "FILED" => docket'.status = "FILED")
  <1>1. req[h] \in Requests /\ FinalRequest(req[h]) /\ NotBoth(req[h], docket)
    BY DEF TypeInv, TypeOK, FiledInv
  <1>2. docket \in Dockets /\ docket.version \in Nat
    BY VersionType
  <1>3. CASE /\ docket.version = req[h].snap.version
             /\ docket' = GuardedUpdate(docket, req[h])
             /\ Finish(h, "ok")
    <2>1. docket.status # "FILED"
      BY <1>1, <1>3 DEF Commit, NotBoth
    <2>2. /\ docket'.version = docket.version + 1
          /\ docket'.status = "FILED" => docket'.lifecycle = "DONE"
      BY <1>1, <1>2, <1>3, GuardedUpdateFiles DEF Commit, FinalRequest, GuardedPhases
    <2>3. docket.version <= docket'.version /\ docket.version < docket'.version
      BY <1>2, <2>2
    <2>4. FiledInv'
      BY <1>3, <2>2, <2>3, FiledFinish
    <2> QED
      BY <2>1, <2>4
  <1>4. CASE UNCHANGED docket /\ Finish(h, "conflict")
    BY <1>4, FiledUnchanged
  <1> QED
    BY <1>3, <1>4 DEF Commit

\* A save of FinalOps leaves the status.
LEMMA SaveFiled ==
  ASSUME TypeInv, FiledInv, NEW h \in Handlers, Save(h), TypeInv'
  PROVE  FiledInv' /\ docket'.status = docket.status
  <1>1. req[h] \in Requests /\ FinalRequest(req[h]) /\ ReqOK(req[h])
    BY DEF TypeInv, TypeOK, FiledInv
  <1>2. docket \in Dockets /\ docket.version \in Nat
    BY VersionType
  <1>3. CASE docket' = SavedDocket(docket, req[h].snap, Edited(req[h])) /\ Finish(h, "ok")
    <2>1. req[h].op \in {"Reassign", "ReassignCase"} /\ req[h].snap \in Dockets
      BY <1>1 DEF Save, FinalRequest, ReqOK, HasRead
    <2>2. /\ docket'.status = docket.status /\ docket'.lifecycle = docket.lifecycle
          /\ docket'.version = docket.version
      BY <1>1, <1>2, <1>3, <2>1, ReassignmentKeeps
    <2>3. docket.version <= docket'.version
      BY <1>2, <2>2
    <2>4. docket'.status = "FILED" => docket'.lifecycle = "DONE" /\ docket.status = "FILED"
      BY <2>2 DEF FiledInv
    <2>5. FiledInv'
      BY <1>3, <2>3, <2>4, FiledFinish
    <2> QED
      BY <2>2, <2>5
  <1>4. CASE UNCHANGED docket /\ \E outcome : Finish(h, outcome)
    BY <1>4, FiledUnchanged
  <1> QED
    BY <1>3, <1>4 DEF Save

\* A read moves the request on.
LEMMA ReadFiled ==
  ASSUME TypeInv, FiledInv, NEW h \in Handlers, Load(h) \/ ReadReassign(h)
  PROVE  FiledInv' /\ docket'.status = docket.status
  <1>1. req[h] \in Requests /\ FinalRequest(req[h]) /\ docket \in Dockets
    BY DEF TypeInv, TypeOK, FiledInv
  <1>2. docket.version \in Nat
    BY VersionType
  <1> DEFINE p == IF Load(h) THEN "validate" ELSE "save"
             r == [req[h] EXCEPT !.phase = p, !.snap = docket]
  <1>3. p \in Phases
    BY DEF Phases
  <1>4. req' = [req EXCEPT ![h] = r] /\ docket' = docket
    BY DEF Load, ReadReassign, TypeInv, TypeOK, Requests
  <1>5. r.phase = p /\ r.snap = docket /\ r.op = req[h].op /\ r.target = req[h].target
    BY <1>1 DEF Requests
  <1>6. r \in Requests
    BY <1>1, <1>3 DEF Requests
  <1>7. CASE Load(h)
    <2>1. r.phase = "validate" /\ req[h].phase = "load"
      BY <1>5, <1>7 DEF Load
    <2>2. FinalRequest(r) /\ NotBoth(r, docket)
      BY <1>1, <1>2, <1>5, <2>1 DEF FinalRequest, GuardedPhases, NotBoth
    <2> HIDE DEF r
    <2> QED
      BY <1>4, <1>6, <2>2, FiledGoesOn
  <1>8. CASE ReadReassign(h)
    <2>1. r.phase = "save" /\ req[h].phase = "read"
      BY <1>5, <1>8 DEF Load, ReadReassign
    <2>2. FinalRequest(r) /\ NotBoth(r, docket)
      BY <1>1, <1>5, <2>1 DEF FinalRequest, GuardedPhases, NotBoth
    <2> HIDE DEF r
    <2> QED
      BY <1>4, <1>6, <2>2, FiledGoesOn
  <1> QED
    BY <1>7, <1>8

\* The lifecycle check passes on a docket that is not FILED.
LEMMA ValidateFiled ==
  ASSUME TypeInv, FiledInv, NEW h \in Handlers, Validate(h)
  PROVE  FiledInv' /\ docket'.status = docket.status
  <1>1. req[h] \in Requests /\ FinalRequest(req[h]) /\ NotBoth(req[h], docket)
    BY DEF TypeInv, TypeOK, FiledInv
  <1>2. CASE /\ IsValidTransition(docket.lifecycle, ToLifecycleFromStatus(req[h].target))
             /\ req' = [req EXCEPT ![h].phase = "commit"]
    <2> DEFINE r == [req[h] EXCEPT !.phase = "commit"]
    <2>1. req' = [req EXCEPT ![h] = r] /\ docket' = docket
      BY <1>2 DEF Validate, TypeInv, TypeOK, Requests
    <2>2. docket.status # "FILED"
      BY <1>2, DoneIsLast DEF FiledInv
    <2>3. /\ r \in Requests
          /\ r.phase = "commit" /\ r.snap = req[h].snap
          /\ r.op = req[h].op /\ r.target = req[h].target
      BY <1>1 DEF Requests, Phases
    <2>4. FinalRequest(r) /\ NotBoth(r, docket)
      BY <1>1, <2>2, <2>3 DEF Validate, FinalRequest, GuardedPhases, NotBoth
    <2> HIDE DEF r
    <2> QED
      BY <2>1, <2>3, <2>4, FiledGoesOn
  <1>3. CASE Finish(h, "refused")
    BY <1>3, FiledUnchanged DEF Validate
  <1> QED
    BY <1>2, <1>3 DEF Validate

\* The later steps of the operations.
LEMMA HandleFiled ==
  ASSUME TypeInv, FiledInv, NEW h \in Handlers, Handle(h), TypeInv'
  PROVE  FiledInv' /\ (docket.status = "FILED" => docket'.status = "FILED")
  <1>1. ~Write(h)
    BY DEF Write, FiledInv, FinalRequest
  <1> QED
    BY <1>1, ReadFiled, ValidateFiled, CommitFiled, SaveFiled DEF Handle

\* A change of the docket outside the requests that leaves its version, or raises
\* it, and does not file it.
LEMMA OutsideFiled ==
  ASSUME TypeInv, FiledInv, TypeInv', UNCHANGED req, docket.version <= docket'.version,
         docket'.status = "FILED" => docket.status = "FILED" /\ docket'.lifecycle = docket.lifecycle
  PROVE  FiledInv'
  <1>1. ASSUME NEW k \in Handlers PROVE FinalRequest(req[k]) /\ NotBoth(req[k], docket')
    <2>1. /\ req[k] \in Requests /\ ReqOK(req[k])
          /\ docket \in Dockets /\ docket' \in Dockets
      BY DEF TypeInv, TypeOK
    <2>2. FinalRequest(req[k]) /\ NotBoth(req[k], docket)
      BY DEF FiledInv
    <2> QED
      BY <2>1, <2>2, NotBothKept
  <1> QED
    BY <1>1 DEF FiledInv, FinalRequest, NotBoth

\* The atomic operations neither file a docket nor change a FILED one.
LEMMA AtomicFiled ==
  ASSUME TypeInv, FiledInv, TypeInv', Pull \/ BulkPull \/ Transition \/ TimePasses
  PROVE  FiledInv' /\ (docket.status = "FILED" => docket'.status = "FILED")
  <1>1. docket \in Dockets /\ docket.version \in Nat
    BY VersionType
  <1>2. docket.status = "FILED" => docket.lifecycle = "DONE"
    BY DEF FiledInv
  <1>3. CASE Pull
    <2>1. /\ docket.status # "FILED" /\ docket'.status # "FILED"
          /\ docket'.version = docket.version + 1
      BY <1>1, <1>3 DEF Pull, Assigned, Dockets
    <2> QED
      BY <1>1, <1>3, <2>1, OutsideFiled DEF Pull
  <1>4. CASE BulkPull
    <2>1. /\ docket.status # "FILED" /\ docket'.status # "FILED"
          /\ docket'.version = docket.version
      BY <1>1, <1>4 DEF BulkPull, Assigned, Dockets
    <2> QED
      BY <1>1, <1>4, <2>1, OutsideFiled DEF BulkPull
  <1>5. CASE Transition
    <2>1. CASE UNCHANGED docket
      BY <1>1, <1>5, <2>1, OutsideFiled DEF Transition
    <2>2. CASE ~UNCHANGED docket
      <3> PICK target \in Statuses, actor \in Users, date \in {"none", "later"} :
               /\ TransitionAllowed(target)
               /\ docket' = Transitioned(docket, target, actor, date)
        BY <1>5, <2>2 DEF Transition
      <3>1. docket'.status = target /\ docket'.version = docket.version
        BY <1>1 DEF Transitioned, Dockets
      <3>2. docket.status # "FILED"
        BY <1>2, DoneIsLast DEF TransitionAllowed
      <3>3. target # "FILED"
        <4>1. \A a, q : Canonical("FILED", a, q) = "FILED"
          BY DEF Canonical
        <4>2. Canonical(docket.status, docket.assignee, docket.queue) \in CanonicalStates
          BY <1>1, CanonicalType DEF Dockets
        <4>3. Canonical(docket.status, docket.assignee, docket.queue) # "FILED"
          BY <1>1, <3>2 DEF Canonical, Dockets, Statuses
        <4>4. \A from \in CanonicalStates : ~CanTransition(from, "FILED")
          BY DEF CanTransition, CanonicalSuccessors, CanonicalStates
        <4> QED
          BY <4>1, <4>2, <4>3, <4>4 DEF TransitionAllowed
      <3> QED
        BY <1>1, <1>5, <3>1, <3>2, <3>3, OutsideFiled DEF Transition
    <2> QED
      BY <2>1, <2>2
  <1>6. CASE TimePasses
    <2>1. /\ docket'.status = docket.status /\ docket'.lifecycle = docket.lifecycle
          /\ docket'.version = docket.version
      BY <1>1, <1>6 DEF TimePasses, Dockets
    <2> QED
      BY <1>1, <1>6, <2>1, OutsideFiled DEF TimePasses
  <1> QED
    BY <1>3, <1>4, <1>5, <1>6

LEMMA StepFiled ==
  ASSUME Ops \subseteq FinalOps, TypeInv, FiledInv, [Next]_vars
  PROVE  FiledInv' /\ (docket.status = "FILED" => docket'.status = "FILED")
  <1>1. TypeInv'
    BY StepTyped
  <1>2. CASE \E h \in Handlers : StartGuarded(h) \/ StartSave(h) \/ StartBlind(h)
    <2>1. FiledInv'
      BY <1>1, <1>2, StartFiled
    <2>2. UNCHANGED docket
      BY <1>2 DEF StartGuarded, StartSave, StartBlind, Start, StartPend, StartFile, StartClose,
                  StartUnpend, StartAutoReopen, StartUnassign, StartReassign,
                  StartReassignCase, StartQc, StartMove, StartReopenDue, StartEmailReopen,
                  StartDeactivate
    <2> QED
      BY <2>1, <2>2
  <1>3. CASE \E h \in Handlers : Handle(h)
    BY <1>1, <1>3, HandleFiled
  <1>4. CASE Pull \/ BulkPull \/ Transition \/ TimePasses
    BY <1>1, <1>4, AtomicFiled
  <1>5. CASE UNCHANGED vars
    BY <1>5 DEF vars, FiledInv, FinalRequest, NotBoth
  <1> QED
    BY <1>2, <1>3, <1>4, <1>5 DEF Next

\* A FILED docket is never reopened (lifecycle specification, rule R7), however many
\* guarded updates, reassignments, pulls and transitions overlap.
THEOREM FiledStaysFiled ==
  ASSUME Ops \subseteq FinalOps
  PROVE  Spec => FiledIsFinal
  <1>1. TypeInv /\ FiledInv /\ [Next]_vars => FiledInv'
    BY StepFiled
  <1>2. TypeInv /\ FiledInv /\ [Next]_vars =>
          [docket.status = "FILED" => docket'.status = "FILED"]_vars
    BY StepFiled
  <1> QED
    BY <1>1, <1>2, InitFiled, AlwaysTyped, PTL DEF Spec, FiledIsFinal
-----------------------------------------------------------------------------
(* Where the version filter is enough: with the guarded updates, the two      *)
(* reassignments and the two pulls enabled, a check made on an earlier read   *)
(* holds of the docket that is written.                                       *)

PullOps == {"Pull", "BulkPull"}
GuardRunOps == GuardedOps \cup {"Reassign", "ReassignCase"} \cup PullOps

\* A request of GuardRunOps is where its kind of operation can be.
GuardRequest(r) ==
  /\ r.phase # "write"
  /\ r.phase \in GuardedPhases =>
       /\ r.op \in GuardedOps
       /\ r.op = "Unassign" => r.target \in {"UNASSIGNED", "ROUTED"}
  /\ r.phase \in {"read", "save"} => r.op \in {"Reassign", "ReassignCase"}

\* What does not change while the version does not: the lifecycle, and that the
\* docket has an owner.  (A pull in bulk and a reassignment leave the version.)
SameVersion(d, e) ==
  d.version = e.version => /\ e.lifecycle = d.lifecycle
                           /\ d.assignee # None => e.assignee # None

\* What a request has read and checked holds of d, unless d is newer.
Knows(r, d) ==
  /\ r.phase \in {"validate", "commit"} => /\ r.snap.version <= d.version
                                           /\ SameVersion(r.snap, d)
  /\ r.phase = "commit" /\ r.snap.version = d.version =>
       IsValidTransition(d.lifecycle, ToLifecycleFromStatus(r.target))

\* A docket that waits for an owner in a workbasket has not been begun.
UnownedInWL == docket.status \in {"UNASSIGNED", "ROUTED"} /\ docket.assignee = None
                 => docket.lifecycle = "WL"

GuardInv ==
  /\ TerminalMatchesLifecycle /\ UnownedInWL
  /\ \A h \in Handlers : GuardRequest(req[h]) /\ Knows(req[h], docket)

-----------------------------------------------------------------------------
(* The requests.                                                              *)

LEMMA KnowsKept ==
  ASSUME NEW r \in Requests, ReqOK(r), NEW d \in Dockets, NEW e \in Dockets, Knows(r, d),
         d.version <= e.version, SameVersion(d, e)
  PROVE  Knows(r, e)
  <1>1. CASE r.phase \in {"validate", "commit"}
    <2>1. r.snap \in Dockets
      BY <1>1 DEF ReqOK, HasRead
    <2>2. r.snap.version \in Nat /\ d.version \in Nat /\ e.version \in Nat
      BY <2>1, BoundAssumption DEF Dockets
    <2>3. r.snap.version <= e.version
      BY <1>1, <2>2 DEF Knows
    <2>4. r.snap.version = e.version => r.snap.version = d.version /\ d.version = e.version
      BY <1>1, <2>2 DEF Knows
    <2> QED
      BY <1>1, <2>3, <2>4 DEF Knows, SameVersion
  <1>2. CASE r.phase \notin {"validate", "commit"}
    BY <1>2 DEF Knows
  <1> QED
    BY <1>1, <1>2

\* A handler that has answered claims nothing.
LEMMA IdleKnows == Idle \in Requests /\ GuardRequest(Idle) /\ \A d : Knows(Idle, d)
  BY DEF Idle, Requests, Phases, Statuses, Reasons, GuardRequest, GuardedPhases, Knows

\* A step of one handler, or of none, in terms of the two dockets.
LEMMA RequestsKept ==
  ASSUME TypeInv, GuardInv, docket' \in Dockets, NEW h \in Handlers, NEW r \in Requests,
         req' = [req EXCEPT ![h] = r], GuardRequest(r), Knows(r, docket'),
         docket.version <= docket'.version, SameVersion(docket, docket')
  PROVE  \A k \in Handlers : GuardRequest(req'[k]) /\ Knows(req'[k], docket')
  <1> TAKE k \in Handlers
  <1>1. CASE k = h
    BY <1>1 DEF TypeInv, TypeOK
  <1>2. CASE k # h
    <2>1. req'[k] = req[k] /\ req[k] \in Requests /\ ReqOK(req[k]) /\ docket \in Dockets
      BY <1>2 DEF TypeInv, TypeOK
    <2>2. GuardRequest(req[k]) /\ Knows(req[k], docket)
      BY DEF GuardInv
    <2> QED
      BY <2>1, <2>2, KnowsKept
  <1> QED
    BY <1>1, <1>2

\* A step that leaves the docket.
LEMMA GoesOn ==
  ASSUME TypeInv, GuardInv, NEW h \in Handlers, NEW r \in Requests,
         req' = [req EXCEPT ![h] = r], GuardRequest(r), Knows(r, docket), docket' = docket
  PROVE  GuardInv'
  <1>1. docket \in Dockets /\ docket.version \in Nat
    BY VersionType
  <1>2. docket.version <= docket'.version /\ SameVersion(docket, docket')
    BY <1>1 DEF SameVersion
  <1>3. docket' \in Dockets /\ Knows(r, docket')
    BY <1>1
  <1>4. \A k \in Handlers : GuardRequest(req'[k]) /\ Knows(req'[k], docket')
    BY <1>2, <1>3, RequestsKept
  <1>5. (TerminalMatchesLifecycle /\ UnownedInWL)'
    BY DEF GuardInv, TerminalMatchesLifecycle, UnownedInWL
  <1> QED
    BY <1>4, <1>5 DEF GuardInv, GuardRequest, Knows, SameVersion

\* A step that changes the docket ends its request.
LEMMA Ends ==
  ASSUME TypeInv, GuardInv, NEW h \in Handlers, NEW outcome, Finish(h, outcome), TypeInv',
         docket.version <= docket'.version, SameVersion(docket, docket'),
         (TerminalMatchesLifecycle /\ UnownedInWL)'
  PROVE  GuardInv'
  <1>1. req' = [req EXCEPT ![h] = Idle] /\ docket' \in Dockets
    BY DEF Finish, TypeInv, TypeOK
  <1>2. Idle \in Requests /\ GuardRequest(Idle) /\ Knows(Idle, docket')
    BY IdleKnows
  <1> HIDE DEF Idle
  <1>3. \A k \in Handlers : GuardRequest(req'[k]) /\ Knows(req'[k], docket')
    BY <1>1, <1>2, RequestsKept
  <1> QED
    BY <1>3 DEF GuardInv, GuardRequest, Knows, SameVersion

\* A step outside the requests.
LEMMA Outside ==
  ASSUME TypeInv, GuardInv, UNCHANGED req, TypeInv',
         docket.version <= docket'.version, SameVersion(docket, docket'),
         (TerminalMatchesLifecycle /\ UnownedInWL)'
  PROVE  GuardInv'
  <1>1. ASSUME NEW k \in Handlers PROVE GuardRequest(req[k]) /\ Knows(req[k], docket')
    <2>1. /\ req[k] \in Requests /\ ReqOK(req[k])
          /\ docket \in Dockets /\ docket' \in Dockets
      BY DEF TypeInv, TypeOK
    <2>2. GuardRequest(req[k]) /\ Knows(req[k], docket)
      BY DEF GuardInv
    <2> QED
      BY <2>1, <2>2, KnowsKept
  <1> QED
    BY <1>1 DEF GuardInv, GuardRequest, Knows, SameVersion

-----------------------------------------------------------------------------
(* The steps.                                                                 *)

LEMMA InitGuard == Init => GuardInv
  <1> SUFFICES ASSUME Init PROVE GuardInv
    OBVIOUS
  <1>1. TerminalMatchesLifecycle /\ UnownedInWL
    BY DEF Init, CreatedDockets, IntakeDockets, NewDocket, TerminalMatchesLifecycle,
           UnownedInWL, TerminalStatuses
  <1>2. \A h \in Handlers : req[h] = Idle
    BY DEF Init
  <1> QED
    BY <1>1, <1>2, IdleKnows DEF GuardInv

\* A handler starts an operation that is allowed to.
LEMMA StartGuard ==
  ASSUME Ops \subseteq GuardRunOps, TypeInv, GuardInv, NEW h \in Handlers,
         StartGuarded(h) \/ StartSave(h) \/ StartBlind(h), TypeInv'
  PROVE  GuardInv'
  <1>1. \E op, phase, target, user, reason, snap :
          /\ op \in GuardRunOps /\ phase \in {"load", "read", "save"}
          /\ Start(h, op, phase, target, user, reason, snap)
          /\ phase = "load" => /\ op \in GuardedOps
                               /\ op = "Unassign" => target \in {"UNASSIGNED", "ROUTED"}
          /\ phase # "load" => op \in {"Reassign", "ReassignCase"}
    <2> USE DEF Start, GuardRunOps, PullOps, GuardedOps
    <2>1. CASE StartGuarded(h)
      <3>1. CASE StartPend(h)
        <4> PICK reason : Start(h, "Pend", "load", "PENDING", None, reason, None)
          BY <3>1 DEF StartPend
        <4> QED
          OBVIOUS
      <3>2. CASE StartFile(h)
        BY <3>2 DEF StartFile
      <3>3. CASE StartClose(h)
        BY <3>3 DEF StartClose
      <3>4. CASE StartUnpend(h)
        BY <3>4 DEF StartUnpend
      <3>5. CASE StartAutoReopen(h)
        BY <3>5 DEF StartAutoReopen
      <3>6. CASE StartUnassign(h)
        <4> PICK target \in {"UNASSIGNED", "ROUTED"} :
                 Start(h, "Unassign", "load", target, None, "none", None)
          BY <3>6 DEF StartUnassign
        <4> QED
          OBVIOUS
      <3> QED
        BY <2>1, <3>1, <3>2, <3>3, <3>4, <3>5, <3>6 DEF StartGuarded
    <2>2. CASE StartSave(h)
      <3>1. CASE StartReassign(h)
        <4> PICK u \in Users :
                 Start(h, "Reassign", "read", "UNASSIGNED", u, "none", None)
          BY <3>1 DEF StartReassign
        <4> QED
          OBVIOUS
      <3>2. CASE StartReassignCase(h)
        <4> PICK u \in Users :
                 Start(h, "ReassignCase", "save", "UNASSIGNED", u, "none", docket)
          BY <3>2 DEF StartReassignCase
        <4> QED
          OBVIOUS
      <3>3. CASE StartQc(h)
        BY <3>3 DEF StartQc
      <3> QED
        BY <2>2, <3>1, <3>2, <3>3 DEF StartSave
    <2>3. ~StartBlind(h)
      BY DEF StartBlind, StartMove, StartReopenDue, StartEmailReopen, StartDeactivate
    <2> QED
      BY <2>1, <2>2, <2>3
  <1> PICK op, phase, target, user, reason, snap :
          /\ op \in GuardRunOps /\ phase \in {"load", "read", "save"}
          /\ Start(h, op, phase, target, user, reason, snap)
          /\ phase = "load" => /\ op \in GuardedOps
                               /\ op = "Unassign" => target \in {"UNASSIGNED", "ROUTED"}
          /\ phase # "load" => op \in {"Reassign", "ReassignCase"}
    BY <1>1
  <1> DEFINE r == [phase |-> phase, op |-> op, target |-> target,
                   user |-> user, reason |-> reason, snap |-> snap]
  <1>2. req' = [req EXCEPT ![h] = r] /\ docket' = docket
    BY DEF Start
  <1>3. GuardRequest(r) /\ Knows(r, docket)
    BY DEF GuardRequest, Knows, GuardedPhases
  <1>4. r \in Requests
    BY <1>2 DEF TypeInv, TypeOK
  <1> HIDE DEF r
  <1> QED
    BY <1>2, <1>3, <1>4, GoesOn

\* A read moves the request on.
LEMMA ReadGuard ==
  ASSUME TypeInv, GuardInv, NEW h \in Handlers, Load(h) \/ ReadReassign(h)
  PROVE  GuardInv'
  <1>1. req[h] \in Requests /\ GuardRequest(req[h])
    BY DEF TypeInv, TypeOK, GuardInv
  <1>2. docket \in Dockets /\ docket.version \in Nat
    BY VersionType
  <1> DEFINE p == IF Load(h) THEN "validate" ELSE "save"
             r == [req[h] EXCEPT !.phase = p, !.snap = docket]
  <1>3. p \in Phases
    BY DEF Phases
  <1>4. req' = [req EXCEPT ![h] = r] /\ docket' = docket
    BY DEF Load, ReadReassign, TypeInv, TypeOK, Requests
  <1>5. r.phase = p /\ r.snap = docket /\ r.op = req[h].op /\ r.target = req[h].target
    BY <1>1 DEF Requests
  <1>6. r \in Requests
    BY <1>1, <1>2, <1>3 DEF Requests
  <1>7. p = "validate" => req[h].phase = "load"
    BY DEF Load
  <1>8. p = "save" => req[h].phase = "read"
    BY DEF ReadReassign
  <1>9. GuardRequest(r) /\ Knows(r, docket)
    BY <1>1, <1>2, <1>5, <1>7, <1>8 DEF GuardRequest, GuardedPhases, Knows, SameVersion
  <1> HIDE DEF r
  <1> QED
    BY <1>4, <1>6, <1>9, GoesOn

\* The lifecycle check.
LEMMA ValidateGuard ==
  ASSUME TypeInv, GuardInv, NEW h \in Handlers, Validate(h)
  PROVE  GuardInv'
  <1>1. req[h] \in Requests /\ GuardRequest(req[h]) /\ Knows(req[h], docket)
    BY DEF TypeInv, TypeOK, GuardInv
  <1>2. CASE /\ IsValidTransition(docket.lifecycle, ToLifecycleFromStatus(req[h].target))
             /\ req' = [req EXCEPT ![h].phase = "commit"]
    <2> DEFINE r == [req[h] EXCEPT !.phase = "commit"]
    <2>1. req' = [req EXCEPT ![h] = r] /\ docket' = docket
      BY <1>2 DEF Validate, TypeInv, TypeOK, Requests
    <2>2. /\ r \in Requests
          /\ r.phase = "commit" /\ r.snap = req[h].snap
          /\ r.op = req[h].op /\ r.target = req[h].target
      BY <1>1 DEF Requests, Phases
    <2>3. GuardRequest(r) /\ Knows(r, docket)
      BY <1>1, <1>2, <2>2 DEF Validate, GuardRequest, GuardedPhases, Knows
    <2> HIDE DEF r
    <2> QED
      BY <2>1, <2>2, <2>3, GoesOn
  <1>3. CASE Finish(h, "refused")
    <2> HIDE DEF Idle
    <2> QED
      BY <1>3, IdleKnows, GoesOn DEF Finish, Validate
  <1> QED
    BY <1>2, <1>3 DEF Validate

\* What the inferred lifecycle is, by status.
LEMMA Inferred ==
  ASSUME NEW lifecycle \in Lifecycles, NEW assignee, NEW status \in Statuses
  PROVE  LET to == InferLifecycle(lifecycle, assignee, status) IN
         /\ status \in TerminalStatuses => to = "DONE"
         /\ status \notin TerminalStatuses /\ lifecycle # "DONE" => to # "DONE"
         /\ status \notin TerminalStatuses /\ lifecycle # "DONE" /\ assignee = None => to = "WL"
  BY DEF InferLifecycle, TerminalStatuses, Lifecycles, Statuses

\* A commit that finds the version it read changes a docket on which its check
\* holds, and finishes it in both vocabularies or in none.
LEMMA CommitGuard ==
  ASSUME TypeInv, GuardInv, NEW h \in Handlers, Commit(h), TypeInv'
  PROVE  /\ GuardInv'
         /\ docket' = docket
            \/ /\ docket.lifecycle # "DONE" /\ docket'.status = req[h].target
               /\ IsValidTransition(docket.lifecycle, ToLifecycleFromStatus(req[h].target))
  <1>1. req[h] \in Requests /\ GuardRequest(req[h]) /\ Knows(req[h], docket) /\ ReqOK(req[h])
    BY DEF TypeInv, TypeOK, GuardInv
  <1>2. docket \in Dockets /\ docket.version \in Nat
    BY VersionType
  <1> DEFINE r == req[h]
  <1>3. CASE /\ docket.version = r.snap.version
             /\ docket' = GuardedUpdate(docket, r)
             /\ Finish(h, "ok")
    <2>1. /\ r.phase = "commit" /\ r.snap \in Dockets
          /\ r.op \in GuardedOps /\ (r.op = "Unassign" => r.target \in {"UNASSIGNED", "ROUTED"})
      BY <1>1 DEF Commit, ReqOK, HasRead, GuardRequest, GuardedPhases
    <2>2. /\ IsValidTransition(docket.lifecycle, ToLifecycleFromStatus(r.target))
          /\ r.snap.lifecycle = docket.lifecycle
          /\ docket.assignee = None => r.snap.assignee = None
      BY <1>1, <1>3, <2>1 DEF Knows, SameVersion
    <2>3. docket.lifecycle # "DONE"
      BY <2>2, DoneIsLast
    <2>4. /\ docket'.version = docket.version + 1
          /\ docket'.status = r.target
          /\ docket'.lifecycle = IF r.op = "Unassign" THEN "WL"
                                 ELSE InferLifecycle(r.snap.lifecycle, r.snap.assignee, r.target)
          /\ docket'.assignee = IF r.op = "Unassign" THEN None ELSE docket.assignee
      BY <1>2, <1>3 DEF GuardedUpdate, Dockets
    <2>5. r.target \in Statuses /\ r.snap.lifecycle \in Lifecycles
      BY <1>1, <2>1 DEF Requests, Dockets
    <2>6. docket.version <= docket'.version /\ SameVersion(docket, docket')
      BY <1>2, <2>4 DEF SameVersion
    <2>7. ASSUME r.op = "Unassign"
          PROVE  (TerminalMatchesLifecycle /\ UnownedInWL)'
      <3>1. docket'.lifecycle = "WL" /\ docket'.status \in {"UNASSIGNED", "ROUTED"}
        BY <2>1, <2>4, <2>7
      <3> QED
        BY <3>1 DEF TerminalMatchesLifecycle, UnownedInWL, TerminalStatuses
    <2>8. ASSUME r.op # "Unassign"
          PROVE  (TerminalMatchesLifecycle /\ UnownedInWL)'
      <3>1. /\ docket'.lifecycle = InferLifecycle(r.snap.lifecycle, r.snap.assignee, r.target)
            /\ docket'.assignee = docket.assignee
        BY <2>4, <2>8
      <3>2. docket'.status \in TerminalStatuses <=> docket'.lifecycle = "DONE"
        BY <2>2, <2>3, <2>4, <2>5, <3>1, Inferred
      <3>3. docket'.status \notin TerminalStatuses /\ docket'.assignee = None
              => docket'.lifecycle = "WL"
        BY <2>2, <2>3, <2>4, <2>5, <3>1, Inferred
      <3> QED
        BY <3>2, <3>3 DEF TerminalMatchesLifecycle, UnownedInWL, TerminalStatuses
    <2>9. (TerminalMatchesLifecycle /\ UnownedInWL)'
      BY <2>7, <2>8
    <2>10. GuardInv'
      BY <1>3, <2>6, <2>9, Ends
    <2> QED
      BY <2>2, <2>3, <2>4, <2>10
  <1>4. CASE UNCHANGED docket /\ Finish(h, "conflict")
    <2> HIDE DEF Idle
    <2> QED
      BY <1>4, IdleKnows, GoesOn DEF Finish
  <1> QED
    BY <1>3, <1>4 DEF Commit

\* A reassignment leaves the docket an owner.
LEMMA ReassignmentOwns ==
  ASSUME NEW d \in Dockets, NEW r \in Requests, r.snap \in Dockets, r.user \in Users,
         r.op \in {"Reassign", "ReassignCase"}
  PROVE  d.assignee # None => SavedDocket(d, r.snap, Edited(r)).assignee # None
  <1>1. Edited(r).assignee = r.user
    BY DEF Edited, Dockets
  <1>2. SavedDocket(d, r.snap, Edited(r)).assignee
          = Changed(d.assignee, r.snap.assignee, Edited(r).assignee)
    BY DEF SavedDocket, Dockets
  <1> QED
    BY <1>1, <1>2, NoneAssumption DEF Changed

\* It leaves status and lifecycle, and so all that was checked.
LEMMA SaveGuard ==
  ASSUME TypeInv, GuardInv, NEW h \in Handlers, Save(h), TypeInv'
  PROVE  GuardInv' /\ docket'.status = docket.status
  <1>1. req[h] \in Requests /\ GuardRequest(req[h]) /\ ReqOK(req[h])
    BY DEF TypeInv, TypeOK, GuardInv
  <1>2. docket \in Dockets /\ docket.version \in Nat
    BY VersionType
  <1>3. CASE docket' = SavedDocket(docket, req[h].snap, Edited(req[h])) /\ Finish(h, "ok")
    <2>1. /\ req[h].op \in {"Reassign", "ReassignCase"} /\ req[h].snap \in Dockets
          /\ req[h].user \in Users
      BY <1>1 DEF Save, GuardRequest, ReqOK, HasRead
    <2>2. /\ docket'.status = docket.status /\ docket'.lifecycle = docket.lifecycle
          /\ docket'.version = docket.version
      BY <1>1, <1>2, <1>3, <2>1, ReassignmentKeeps
    <2>3. docket.assignee # None => docket'.assignee # None
      BY <1>1, <1>2, <1>3, <2>1, ReassignmentOwns
    <2>4. docket.version <= docket'.version /\ SameVersion(docket, docket')
      BY <1>2, <2>2, <2>3 DEF SameVersion
    <2>5. (TerminalMatchesLifecycle /\ UnownedInWL)'
      BY <2>2, <2>3 DEF GuardInv, TerminalMatchesLifecycle, UnownedInWL
    <2>6. GuardInv'
      BY <1>3, <2>4, <2>5, Ends
    <2> QED
      BY <2>2, <2>6
  <1>4. CASE UNCHANGED docket /\ \E outcome : Finish(h, outcome)
    <2> HIDE DEF Idle
    <2> QED
      BY <1>4, IdleKnows, GoesOn DEF Finish
  <1> QED
    BY <1>3, <1>4 DEF Save

\* The pulls take dockets that nobody has begun; the clock touches no more than dates.
LEMMA AtomicGuard ==
  ASSUME Ops \subseteq GuardRunOps, TypeInv, GuardInv, TypeInv',
         Pull \/ BulkPull \/ Transition \/ TimePasses
  PROVE  /\ GuardInv'
         /\ docket.status \in TerminalStatuses => docket'.status = docket.status
         /\ reply'.op \notin GuardedOps
  <1>1. docket \in Dockets /\ docket.version \in Nat
    BY VersionType
  <1>2. ~Transition
    BY DEF Transition, GuardRunOps, PullOps, GuardedOps
  <1>3. CASE Pull
    <2>1. /\ docket.status = "UNASSIGNED" /\ docket'.status = "ASSIGNED"
          /\ docket'.lifecycle = "WL" /\ docket'.version = docket.version + 1
      BY <1>1, <1>3 DEF Pull, Assigned, Dockets
    <2>2. docket.version <= docket'.version /\ SameVersion(docket, docket')
      BY <1>1, <2>1 DEF SameVersion
    <2>3. (TerminalMatchesLifecycle /\ UnownedInWL)'
      BY <2>1 DEF TerminalMatchesLifecycle, UnownedInWL, TerminalStatuses
    <2>4. GuardInv'
      BY <1>3, <2>2, <2>3, Outside DEF Pull
    <2> QED
      BY <1>3, <2>1, <2>4 DEF Pull, Answer, GuardedOps, TerminalStatuses
  <1>4. CASE BulkPull
    <2>1. /\ docket.status \in {"UNASSIGNED", "ROUTED"} /\ docket.assignee = None
          /\ docket'.status \in {"ASSIGNED", "ROUTED_ASSIGNED"}
          /\ docket'.lifecycle = "WL" /\ docket'.version = docket.version
      BY <1>1, <1>4 DEF BulkPull, Assigned, Dockets
    <2>2. docket.lifecycle = "WL"
      BY <2>1 DEF GuardInv, UnownedInWL
    <2>3. docket.version <= docket'.version /\ SameVersion(docket, docket')
      BY <1>1, <2>1, <2>2 DEF SameVersion
    <2>4. (TerminalMatchesLifecycle /\ UnownedInWL)'
      BY <2>1 DEF TerminalMatchesLifecycle, UnownedInWL, TerminalStatuses
    <2>5. GuardInv'
      BY <1>4, <2>3, <2>4, Outside DEF BulkPull
    <2> QED
      BY <1>4, <2>1, <2>5 DEF BulkPull, Answer, GuardedOps, TerminalStatuses
  <1>5. CASE TimePasses
    <2>1. /\ docket'.status = docket.status /\ docket'.lifecycle = docket.lifecycle
          /\ docket'.assignee = docket.assignee /\ docket'.version = docket.version
      BY <1>1, <1>5 DEF TimePasses, Dockets
    <2>2. docket.version <= docket'.version /\ SameVersion(docket, docket')
      BY <1>1, <2>1 DEF SameVersion
    <2>3. (TerminalMatchesLifecycle /\ UnownedInWL)'
      BY <2>1 DEF GuardInv, TerminalMatchesLifecycle, UnownedInWL
    <2>4. GuardInv'
      BY <1>5, <2>2, <2>3, Outside DEF TimePasses
    <2> QED
      BY <1>5, <2>1, <2>4 DEF TimePasses, NoAnswer, Answer, GuardedOps
  <1> QED
    BY <1>2, <1>3, <1>4, <1>5

\* What the three properties say of a step.
Validated == Completes(GuardedOps) =>
               IsValidTransition(docket.lifecycle, ToLifecycleFromStatus(docket'.status))
StaysFinal == docket.status \in TerminalStatuses => docket'.status = docket.status

\* The later steps of the operations.
LEMMA HandleGuard ==
  ASSUME TypeInv, GuardInv, NEW h \in Handlers, Handle(h), TypeInv'
  PROVE  GuardInv' /\ StaysFinal /\ Validated
  <1>1. GuardRequest(req[h]) /\ ~Write(h)
    BY DEF Write, GuardInv, GuardRequest
  <1>2. CASE Load(h) \/ ReadReassign(h)
    BY <1>2, ReadGuard DEF Load, ReadReassign, StaysFinal, Validated, Completes, NoAnswer, Answer
  <1>3. CASE Validate(h)
    <2>1. UNCHANGED docket /\ reply'.outcome # "ok"
      BY <1>3 DEF Validate, NoAnswer, Answer, Finish
    <2> QED
      BY <1>3, <2>1, ValidateGuard DEF StaysFinal, Validated, Completes
  <1>4. CASE Commit(h)
    <2>1. docket' = docket => docket.version \in Nat /\ reply'.outcome # "ok"
      <3>1. docket \in Dockets /\ docket.version \in Nat
        BY VersionType
      <3>2. docket' = GuardedUpdate(docket, req[h]) => docket'.version = docket.version + 1
        BY <3>1 DEF GuardedUpdate, Dockets
      <3> QED
        BY <1>4, <3>1, <3>2 DEF Commit, Finish, Answer
    <2>2. docket' # docket => docket.status \notin TerminalStatuses
      BY <1>4, CommitGuard DEF GuardInv, TerminalMatchesLifecycle
    <2> QED
      BY <1>4, <2>1, <2>2, CommitGuard DEF StaysFinal, Validated, Completes
  <1>5. CASE Save(h)
    <2>1. req[h].op \notin GuardedOps
      BY <1>1, <1>5 DEF GuardRequest, Save, GuardedOps
    <2>2. reply'.op = req[h].op
      BY <1>5 DEF Save, Finish, Answer
    <2> QED
      BY <1>5, <2>1, <2>2, SaveGuard DEF StaysFinal, Validated, Completes
  <1> QED
    BY <1>1, <1>2, <1>3, <1>4, <1>5 DEF Handle

LEMMA StepGuard ==
  ASSUME Ops \subseteq GuardRunOps, TypeInv, GuardInv, [Next]_vars
  PROVE  GuardInv' /\ [StaysFinal /\ Validated]_vars
  <1>1. TypeInv'
    BY StepTyped
  <1>2. CASE \E h \in Handlers : StartGuarded(h) \/ StartSave(h) \/ StartBlind(h)
    <2>1. GuardInv'
      BY <1>1, <1>2, StartGuard
    <2>2. UNCHANGED docket /\ NoAnswer
      BY <1>2 DEF StartGuarded, StartSave, StartBlind, Start, StartPend, StartFile, StartClose,
                  StartUnpend, StartAutoReopen, StartUnassign, StartReassign,
                  StartReassignCase, StartQc, StartMove, StartReopenDue, StartEmailReopen,
                  StartDeactivate
    <2> QED
      BY <2>1, <2>2 DEF StaysFinal, Validated, Completes, NoAnswer, Answer
  <1>3. CASE \E h \in Handlers : Handle(h)
    BY <1>1, <1>3, HandleGuard
  <1>4. CASE Pull \/ BulkPull \/ Transition \/ TimePasses
    BY <1>1, <1>4, AtomicGuard DEF StaysFinal, Validated, Completes
  <1>5. CASE UNCHANGED vars
    BY <1>5 DEF vars, GuardInv, TerminalMatchesLifecycle, UnownedInWL, GuardRequest, Knows,
                SameVersion
  <1> QED
    BY <1>2, <1>3, <1>4, <1>5 DEF Next

LEMMA AlwaysGuarded ==
  ASSUME Ops \subseteq GuardRunOps
  PROVE  Spec => []GuardInv /\ [][StaysFinal /\ Validated]_vars
  <1>1. TypeInv /\ GuardInv /\ [Next]_vars => GuardInv' /\ [StaysFinal /\ Validated]_vars
    BY StepGuard
  <1> QED
    BY <1>1, InitGuard, AlwaysTyped, PTL DEF Spec

\* However many guarded updates, reassignments and pulls overlap, status and
\* lifecycle agree on what is finished, though each comes from another read.
THEOREM GuardedTerminalMatches ==
  ASSUME Ops \subseteq GuardRunOps
  PROVE  Spec => []TerminalMatchesLifecycle
  BY AlwaysGuarded, PTL DEF GuardInv

\* Among guarded updates, reassignments and pulls, a guarded update's lifecycle check
\* holds of the docket it changes.  The assumption excludes transition(), which raises
\* no version and with which this is false.
THEOREM GuardedCommitsValidated ==
  ASSUME Ops \subseteq GuardRunOps
  PROVE  Spec => CommitValidated
  <1>1. [StaysFinal /\ Validated]_vars =>
          [Completes(GuardedOps) =>
             IsValidTransition(docket.lifecycle, ToLifecycleFromStatus(docket'.status))]_vars
    BY DEF Validated
  <1> QED
    BY <1>1, AlwaysGuarded, PTL DEF CommitValidated

\* A resolved, filed or closed docket keeps its status.
THEOREM GuardedTerminalFinal ==
  ASSUME Ops \subseteq GuardRunOps
  PROVE  Spec => TerminalIsFinal
  <1>1. [StaysFinal /\ Validated]_vars =>
          [docket.status \in TerminalStatuses => docket'.status = docket.status]_vars
    BY DEF StaysFinal
  <1> QED
    BY <1>1, AlwaysGuarded, PTL DEF TerminalIsFinal

-----------------------------------------------------------------------------
(* Where __v is enough: with the saving operations and the in-transaction     *)
(* transitions enabled, a QC decision is written on the docket it was made    *)
(* for.                                                                       *)

QcOps    == {"QcPass", "QcFail"}
QcRunOps == SaveOps \cup {"Transition"}

\* What a decision depends on, and what no step changes without raising __v.
Same(d, e) == /\ d.status = e.status /\ d.assignee = e.assignee
              /\ d.queue = e.queue /\ d.submitter = e.submitter

\* From d to e: either __v is raised or nothing of that changes.
Moves(d, e) == d.v < e.v \/ (d.v = e.v /\ Same(d, e))

\* A request of QcRunOps is where its kind of operation can be.
QcRequest(r) ==
  /\ r.phase \in {"idle", "read", "save"}
  /\ r.phase = "read" => r.op = "Reassign"
  /\ r.phase = "save" => r.op \in SaveOps
  /\ r.phase = "save" /\ r.op \in QcOps => r.snap.status = "QC_PENDING"

\* What a request has read is d, unless d is newer.
Seen(r, d) == r.phase = "save" => Moves(r.snap, d)

\* Who has submitted a docket to QC is known.
SubmitterKnown == docket.status = "QC_PENDING" => docket.submitter # None

QcInv ==
  /\ SubmitterKnown
  /\ \A h \in Handlers : QcRequest(req[h]) /\ Seen(req[h], docket)

\* What the two properties say of a step.
Decides == Completes(QcOps) => docket.status = "QC_PENDING"
Returns == Completes({"QcFail"}) => /\ docket'.assignee = docket.submitter
                                    /\ docket'.queue = "PERSONAL"

-----------------------------------------------------------------------------
(* The requests.                                                              *)

LEMMA MovesOn ==
  ASSUME NEW c \in Dockets, NEW d \in Dockets, NEW e \in Dockets, Moves(c, d), Moves(d, e)
  PROVE  Moves(c, e)
  <1>1. c.v \in Nat /\ d.v \in Nat /\ e.v \in Nat
    BY BoundAssumption DEF Dockets
  <1> QED
    BY <1>1 DEF Moves, Same

\* A step of one request, in terms of the two dockets.
LEMMA OneRequest ==
  ASSUME TypeInv, QcInv, docket' \in Dockets, NEW h \in Handlers, NEW r,
         req' = [req EXCEPT ![h] = r], QcRequest(r), Seen(r, docket'),
         Moves(docket, docket'), SubmitterKnown'
  PROVE  QcInv'
  <1>1. ASSUME NEW k \in Handlers PROVE QcRequest(req'[k]) /\ Seen(req'[k], docket')
    <2>1. CASE k = h
      BY <2>1 DEF TypeInv, TypeOK
    <2>2. CASE k # h
      <3>1. /\ req'[k] = req[k] /\ QcRequest(req[k]) /\ Seen(req[k], docket)
            /\ ReqOK(req[k]) /\ docket \in Dockets
        BY <2>2 DEF TypeInv, TypeOK, QcInv
      <3>2. req[k].phase = "save" => req[k].snap \in Dockets
        BY <3>1 DEF ReqOK, HasRead
      <3> QED
        BY <3>1, <3>2, MovesOn DEF Seen
    <2> QED
      BY <2>1, <2>2
  <1> QED
    BY <1>1 DEF QcInv, QcRequest, Seen

\* A step that leaves the requests.
LEMMA NoRequest ==
  ASSUME TypeInv, QcInv, docket' \in Dockets, UNCHANGED req, Moves(docket, docket'),
         SubmitterKnown'
  PROVE  QcInv'
  <1>1. ASSUME NEW k \in Handlers PROVE QcRequest(req[k]) /\ Seen(req[k], docket')
    <2>1. /\ QcRequest(req[k]) /\ Seen(req[k], docket) /\ ReqOK(req[k]) /\ docket \in Dockets
      BY DEF TypeInv, TypeOK, QcInv
    <2>2. req[k].phase = "save" => req[k].snap \in Dockets
      BY <2>1 DEF ReqOK, HasRead
    <2> QED
      BY <2>1, <2>2, MovesOn DEF Seen
  <1> QED
    BY <1>1 DEF QcInv, QcRequest, Seen

LEMMA IdleSeen == QcRequest(Idle) /\ \A d : Seen(Idle, d)
  BY DEF Idle, QcRequest, Seen

\* A step that leaves the docket.
LEMMA DocketStays ==
  ASSUME TypeInv, QcInv, NEW h \in Handlers, NEW r, req' = [req EXCEPT ![h] = r],
         QcRequest(r), Seen(r, docket), UNCHANGED docket
  PROVE  QcInv'
  <1>1. docket' \in Dockets /\ Moves(docket, docket') /\ SubmitterKnown'
    BY DEF TypeInv, TypeOK, Moves, Same, QcInv, SubmitterKnown
  <1> QED
    BY <1>1, OneRequest DEF Seen

-----------------------------------------------------------------------------
(* The steps.                                                                 *)

LEMMA InitQc == Init => QcInv
  <1> SUFFICES ASSUME Init PROVE QcInv
    OBVIOUS
  <1>1. SubmitterKnown
    BY DEF Init, CreatedDockets, IntakeDockets, NewDocket, SubmitterKnown
  <1>2. \A h \in Handlers : req[h] = Idle
    BY DEF Init
  <1> QED
    BY <1>1, <1>2, IdleSeen DEF QcInv

\* A handler starts an operation that is allowed to.
LEMMA StartQcRun ==
  ASSUME Ops \subseteq QcRunOps, TypeInv, QcInv, NEW h \in Handlers,
         StartGuarded(h) \/ StartSave(h) \/ StartBlind(h)
  PROVE  QcInv'
  <1> DEFINE Request(op, phase, target, user, reason, snap) ==
               [phase |-> phase, op |-> op, target |-> target,
                user |-> user, reason |-> reason, snap |-> snap]
  <1>1. ASSUME NEW op, NEW phase, NEW target, NEW user, NEW reason, NEW snap,
               Start(h, op, phase, target, user, reason, snap),
               QcRequest(Request(op, phase, target, user, reason, snap)),
               phase = "save" => snap = docket
        PROVE  QcInv'
    <2> DEFINE r == Request(op, phase, target, user, reason, snap)
    <2>1. req' = [req EXCEPT ![h] = r] /\ docket' = docket
      BY <1>1 DEF Start
    <2>2. Seen(r, docket)
      BY <1>1 DEF Seen, Moves, Same
    <2> HIDE DEF Request, r
    <2>3. QcRequest(r)
      BY <1>1 DEF r
    <2> QED
      BY <2>1, <2>2, <2>3, DocketStays
  <1> HIDE DEF Request
  <1>2. ~StartGuarded(h) /\ ~StartBlind(h)
    BY DEF StartGuarded, StartPend, StartFile, StartClose, StartUnpend, StartAutoReopen,
           StartUnassign, StartBlind, StartMove, StartReopenDue, StartEmailReopen,
           StartDeactivate, Start, QcRunOps, SaveOps
  <1>3. CASE StartReassign(h)
    <2>1. PICK u \in Users : Start(h, "Reassign", "read", "UNASSIGNED", u, "none", None)
      BY <1>3 DEF StartReassign
    <2>2. QcRequest(Request("Reassign", "read", "UNASSIGNED", u, "none", None))
      BY DEF QcRequest, Request
    <2> QED
      BY <2>1, <2>2, <1>1
  <1>4. CASE StartReassignCase(h)
    <2>1. PICK u \in Users :
            Start(h, "ReassignCase", "save", "UNASSIGNED", u, "none", docket)
      BY <1>4 DEF StartReassignCase
    <2>2. QcRequest(Request("ReassignCase", "save", "UNASSIGNED", u, "none", docket))
      BY DEF QcRequest, Request, SaveOps, QcOps
    <2> QED
      BY <2>1, <2>2, <1>1
  <1>5. CASE StartQc(h)
    <2>1. PICK op \in QcOps :
            Start(h, op, "save", IF op = "QcFail" THEN "IN_PROGRESS" ELSE "RESOLVED",
                  None, "none", docket)
      BY <1>5 DEF StartQc, QcOps
    <2> DEFINE target == IF op = "QcFail" THEN "IN_PROGRESS" ELSE "RESOLVED"
    <2>2. docket.status = "QC_PENDING"
      <3>1. docket.status \in Statuses
        BY DEF TypeInv, TypeOK, Dockets
      <3> QED
        BY <1>5, <3>1 DEF StartQc, Canonical, Statuses
    <2> HIDE DEF target
    <2>3. QcRequest(Request(op, "save", target, None, "none", docket))
      BY <2>2 DEF QcRequest, Request, SaveOps, QcOps
    <2>4. Start(h, op, "save", target, None, "none", docket)
      BY <2>1 DEF target
    <2> QED
      BY <2>3, <2>4, <1>1
  <1> QED
    BY <1>2, <1>3, <1>4, <1>5 DEF StartSave

LEMMA ReadQc ==
  ASSUME TypeInv, QcInv, NEW h \in Handlers, ReadReassign(h)
  PROVE  QcInv'
  <1> DEFINE r == [req[h] EXCEPT !.phase = "save", !.snap = docket]
  <1>1. req[h] \in Requests /\ QcRequest(req[h]) /\ req[h].phase = "read"
    BY DEF TypeInv, TypeOK, QcInv, ReadReassign
  <1>2. r.phase = "save" /\ r.op = "Reassign" /\ r.snap = docket
    BY <1>1 DEF Requests, QcRequest
  <1>3. req' = [req EXCEPT ![h] = r] /\ docket' = docket
    BY DEF ReadReassign, TypeInv, TypeOK
  <1> HIDE DEF r
  <1>4. QcRequest(r) /\ Seen(r, docket)
    BY <1>2 DEF QcRequest, QcOps, SaveOps, Seen, Moves, Same
  <1> QED
    BY <1>3, <1>4, DocketStays

\* What a save writes: if the docket is as it was read, what the handler made of it.
LEMMA SavedFields ==
  ASSUME NEW d \in Dockets, NEW old \in Dockets, NEW new \in Dockets, Same(old, d)
  PROVE  /\ SavedDocket(d, old, new).v = d.v + 1
         /\ SavedDocket(d, old, new).status = new.status
         /\ SavedDocket(d, old, new).assignee = new.assignee
         /\ SavedDocket(d, old, new).queue = new.queue
         /\ SavedDocket(d, old, new).submitter = d.submitter
  BY DEF SavedDocket, Changed, Same, Dockets

\* A decision is saved on the docket it was made for.
LEMMA SaveQc ==
  ASSUME TypeInv, QcInv, TypeInv', NEW h \in Handlers, Save(h)
  PROVE  QcInv' /\ Decides /\ Returns
  <1> DEFINE r == req[h]
             new == Edited(r)
  <1>1. /\ r \in Requests /\ ReqOK(r) /\ QcRequest(r) /\ Seen(r, docket)
        /\ r.phase = "save" /\ docket \in Dockets /\ docket' \in Dockets
    BY DEF TypeInv, TypeOK, QcInv, Save
  <1>2. r.snap \in Dockets /\ docket.v \in Nat /\ r.op \in SaveOps
    BY <1>1, BoundAssumption DEF ReqOK, HasRead, QcRequest, Dockets
  <1>3. CASE UNCHANGED docket /\ \E o \in Outcomes \ {"ok"} : Finish(h, o)
    <2>1. req' = [req EXCEPT ![h] = Idle] /\ reply'.outcome # "ok"
      BY <1>3 DEF Finish, Answer
    <2> HIDE DEF Idle
    <2> QED
      BY <1>3, <2>1, IdleSeen, DocketStays DEF Decides, Returns, Completes
  <1>4. CASE /\ docket.v = r.snap.v /\ docket' = SavedDocket(docket, r.snap, new)
             /\ Finish(h, "ok")
    <2>1. new \in Dockets
      BY <1>1, <1>2, EditedType DEF ReqOK
    <2>2. Same(r.snap, docket)
      BY <1>1, <1>2, <1>4 DEF Seen, Moves
    <2>3. /\ docket'.v = docket.v + 1 /\ docket'.status = new.status
          /\ docket'.assignee = new.assignee /\ docket'.queue = new.queue
          /\ docket'.submitter = docket.submitter
      BY <1>1, <1>2, <1>4, <2>1, <2>2, SavedFields
    <2>4. r.op \in QcOps => docket.status = "QC_PENDING"
      BY <1>1, <2>2 DEF QcRequest, Same
    <2>5. new.status = "QC_PENDING" => r.snap.status = "QC_PENDING"
      <3>1. CASE r.op \in {"Reassign", "ReassignCase"}
        BY <1>2, <3>1 DEF Edited, Dockets
      <3>2. CASE r.op = "QcFail"
        <4>1. new.status = "IN_PROGRESS"
          BY <1>2, <3>2 DEF Edited, Dockets
        <4> QED
          BY <4>1
      <3>3. CASE r.op = "QcPass"
        <4>1. new.status = "RESOLVED"
          BY <1>2, <3>3 DEF Edited, Dockets
        <4> QED
          BY <4>1
      <3> QED
        BY <1>2, <3>1, <3>2, <3>3 DEF SaveOps
    <2>6. SubmitterKnown'
      BY <2>2, <2>3, <2>5 DEF QcInv, SubmitterKnown, Same
    <2>7. QcInv'
      <3>1. Moves(docket, docket')
        BY <1>2, <2>3 DEF Moves
      <3>2. req' = [req EXCEPT ![h] = Idle]
        BY <1>4 DEF Finish
      <3> HIDE DEF Idle, r, new
      <3> QED
        BY <1>1, <2>6, <3>1, <3>2, IdleSeen, OneRequest
    <2>8. reply'.op = r.op
      BY <1>4 DEF Finish, Answer
    <2>9. r.op = "QcFail" => new.assignee = docket.submitter /\ new.queue = "PERSONAL"
      <3> SUFFICES ASSUME r.op = "QcFail"
                   PROVE  new.assignee = docket.submitter /\ new.queue = "PERSONAL"
        OBVIOUS
      <3>1. new.assignee = QcOwner(r.snap) /\ new.queue = "PERSONAL"
        BY <1>2 DEF Edited, Dockets
      <3>2. r.snap.submitter = docket.submitter /\ docket.submitter # None
        BY <2>2, <2>4 DEF Same, QcInv, SubmitterKnown, QcOps
      <3> QED
        BY <3>1, <3>2 DEF QcOwner
    <2> QED
      BY <2>3, <2>4, <2>7, <2>8, <2>9 DEF Decides, Returns, Completes
  <1> QED
    BY <1>3, <1>4 DEF Save, Outcomes

LEMMA TransitionedFields ==
  ASSUME NEW d \in Dockets, NEW target \in Statuses, NEW actor \in Users, NEW date
  PROVE  LET e == Transitioned(d, target, actor, date) IN
           /\ e.v = d.v + 1 /\ e.status = target
           /\ target = "QC_PENDING" => e.submitter # None
  <1> DEFINE to    == Canonical(target, d.assignee, d.queue)
             life  == ToLifecycleFromStatus(target)
             when  == IF target = "PENDING" THEN date ELSE "none"
             sub   == IF target = "QC_PENDING"
                      THEN (IF d.assignee # None THEN d.assignee ELSE actor)
                      ELSE d.submitter
             free  == target = "QC_PENDING" \/ to = "IN_WB"
             owner == IF free THEN None ELSE d.assignee
             queue == IF free THEN "GLOBAL" ELSE d.queue
             route == IF target = "QC_PENDING" THEN FALSE ELSE d.routed
             e     == [d EXCEPT !.status = target, !.state = to, !.lifecycle = life,
                                !.reopenAt = when, !.pendingUntil = when, !.submitter = sub,
                                !.assignee = owner, !.queue = queue, !.routed = route,
                                !.v = d.v + 1]
  <1>1. Transitioned(d, target, actor, date) = e
    BY DEF Transitioned, Dockets
  <1>2. target = "QC_PENDING" => sub # None
    BY NoneAssumption
  <1> HIDE DEF to, life, when, sub, free, owner, queue, route
  <1>3. e.v = d.v + 1 /\ e.status = target /\ e.submitter = sub
    BY DEF Dockets
  <1> QED
    BY <1>1, <1>2, <1>3

\* A transition raises __v, and one to QC names the submitter.
LEMMA TransitionQc ==
  ASSUME TypeInv, QcInv, TypeInv', Transition
  PROVE  QcInv' /\ reply'.op = "Transition"
  <1>1. docket \in Dockets /\ docket' \in Dockets /\ docket.v \in Nat
    BY BoundAssumption DEF TypeInv, TypeOK, Dockets
  <1>2. reply'.op = "Transition" /\ UNCHANGED req
    BY DEF Transition, Answer
  <1>3. CASE UNCHANGED docket
    <2>1. Moves(docket, docket') /\ SubmitterKnown'
      BY <1>3 DEF Moves, Same, QcInv, SubmitterKnown
    <2> QED
      BY <1>1, <1>2, <2>1, NoRequest
  <1>4. CASE docket' # docket
    <2>1. PICK target \in Statuses \ {"OPEN"}, actor \in Users, date \in {"none", "later"} :
            docket' = Transitioned(docket, target, actor, date)
      BY <1>4 DEF Transition
    <2>2. /\ docket'.v = docket.v + 1 /\ docket'.status = target
          /\ target = "QC_PENDING" => docket'.submitter # None
      BY <1>1, <2>1, TransitionedFields
    <2>3. Moves(docket, docket') /\ SubmitterKnown'
      BY <1>1, <2>2 DEF Moves, SubmitterKnown
    <2> QED
      BY <1>1, <1>2, <2>3, NoRequest
  <1> QED
    BY <1>2, <1>3, <1>4

LEMMA StepQc ==
  ASSUME Ops \subseteq QcRunOps, TypeInv, QcInv, [Next]_vars
  PROVE  QcInv' /\ [Decides /\ Returns]_vars
  <1>1. TypeInv'
    BY StepTyped
  <1>2. CASE \E h \in Handlers : StartGuarded(h) \/ StartSave(h) \/ StartBlind(h)
    <2>1. QcInv'
      BY <1>2, StartQcRun
    <2>2. NoAnswer
      BY <1>2 DEF StartGuarded, StartSave, StartBlind, Start, StartPend, StartFile, StartClose,
                  StartUnpend, StartAutoReopen, StartUnassign, StartReassign,
                  StartReassignCase, StartQc, StartMove, StartReopenDue, StartEmailReopen,
                  StartDeactivate
    <2> QED
      BY <2>1, <2>2 DEF Decides, Returns, Completes, NoAnswer, Answer
  <1>3. ASSUME NEW h \in Handlers, Handle(h) PROVE QcInv' /\ Decides /\ Returns
    <2>1. req[h].phase \in {"idle", "read", "save"}
      BY DEF QcInv, QcRequest
    <2>2. CASE ReadReassign(h)
      BY <2>2, ReadQc DEF ReadReassign, NoAnswer, Answer, Decides, Returns, Completes
    <2>3. CASE Save(h)
      BY <1>1, <2>3, SaveQc
    <2> QED
      BY <1>3, <2>1, <2>2, <2>3 DEF Handle, Load, Validate, Commit, Write
  <1>4. CASE Transition
    BY <1>1, <1>4, TransitionQc DEF Decides, Returns, Completes, QcOps
  <1>5. CASE TimePasses
    <2>1. docket \in Dockets /\ docket' \in Dockets
      BY <1>1 DEF TypeInv, TypeOK
    <2>2. docket'.v = docket.v /\ Same(docket, docket')
      BY <1>5, <2>1 DEF TimePasses, Same, Dockets
    <2>3. Moves(docket, docket') /\ SubmitterKnown'
      BY <2>2 DEF Moves, Same, QcInv, SubmitterKnown
    <2> QED
      BY <1>5, <2>1, <2>3, NoRequest
         DEF TimePasses, NoAnswer, Answer, Decides, Returns, Completes, QcOps
  <1>6. CASE UNCHANGED vars
    BY <1>6 DEF vars, QcInv, SubmitterKnown, QcRequest, Seen, Moves, Same
  <1>7. ~Pull /\ ~BulkPull
    BY DEF Pull, BulkPull, QcRunOps, SaveOps
  <1> QED
    BY <1>2, <1>3, <1>4, <1>5, <1>6, <1>7 DEF Next

LEMMA AlwaysQc ==
  ASSUME Ops \subseteq QcRunOps
  PROVE  Spec => []QcInv /\ [][Decides /\ Returns]_vars
  <1>1. TypeInv /\ QcInv /\ [Next]_vars => QcInv' /\ [Decides /\ Returns]_vars
    BY StepQc
  <1> QED
    BY <1>1, InitQc, AlwaysTyped, PTL DEF Spec

\* However many decisions, reassignments and transitions overlap, a QC decision is
\* written on a docket that waits for one (the save of qcDecision).
THEOREM DecisionsOnQc ==
  ASSUME Ops \subseteq QcRunOps
  PROVE  Spec => QcDecidesOnQc
  <1>1. [Decides /\ Returns]_vars =>
          [Completes({"QcPass", "QcFail"}) => docket.status = "QC_PENDING"]_vars
    BY DEF Decides, QcOps
  <1> QED
    BY <1>1, AlwaysQc, PTL DEF QcDecidesOnQc

\* A docket that fails QC goes to the worklist of the user who submitted it, whoever
\* owned it since (qcDecision's choice of the owner).
THEOREM FailedGoBack ==
  ASSUME Ops \subseteq QcRunOps
  PROVE  Spec => QcReturnsToSubmitter
  <1>1. [Decides /\ Returns]_vars =>
          [Completes({"QcFail"}) => /\ docket'.assignee = docket.submitter
                                    /\ docket'.queue = "PERSONAL"]_vars
    BY DEF Returns
  <1> QED
    BY <1>1, AlwaysQc, PTL DEF QcReturnsToSubmitter
=============================================================================
