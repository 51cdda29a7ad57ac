----------------------- MODULE DocketWorkflowProofs -------------------------
(* Theorems about DocketWorkflow, for any sets of users and handlers, any     *)
(* bounds and any set of enabled operations.                                  *)
EXTENDS DocketWorkflow, TLAPS

-----------------------------------------------------------------------------
(* What the conversions of DocketStates return.                               *)

\* Every persisted status has a canonical state.
LEMMA CanonicalType ==
  ASSUME NEW status \in Statuses, NEW assignee, NEW queue
  PROVE  Canonical(status, assignee, queue) \in CanonicalStates
  BY DEF Canonical, CanonicalStates, Statuses, TerminalStatuses

\* Every persisted status has a lifecycle.
LEMMA ToLifecycleType ==
  ASSUME NEW status \in Statuses
  PROVE  ToLifecycleFromStatus(status) \in Lifecycles
  BY DEF ToLifecycleFromStatus, Lifecycles, TerminalStatuses

\* The inferred lifecycle is one of the four.
LEMMA InferLifecycleType ==
  ASSUME NEW lifecycle \in Lifecycles, NEW assignee, NEW status \in Statuses
  PROVE  InferLifecycle(lifecycle, assignee, status) \in Lifecycles
  BY DEF InferLifecycle, Lifecycles, Statuses, TerminalStatuses

\* A pended docket reopens with a status of the table.
LEMMA ReopenStatusType ==
  ASSUME NEW assignee, NEW routed
  PROVE  ReopenStatus(assignee, routed) \in Statuses
  BY DEF ReopenStatus, Statuses

-----------------------------------------------------------------------------
(* Type correctness.  A handler that has read the docket holds a docket, and  *)
(* one that reassigns it holds a user.                                        *)

HasRead == {"validate", "commit", "save", "write"}

ReqOK(r) == /\ r.phase \in HasRead => r.snap \in Dockets
            /\ r.op \in {"Reassign", "ReassignCase"} => r.user \in Users

TypeInv == TypeOK /\ \A h \in Handlers : ReqOK(req[h])

\* A new docket is a docket.
LEMMA NewDocketType ==
  ASSUME NEW status \in Statuses, NEW state \in CanonicalStates,
         NEW lifecycle \in Lifecycles, NEW assignee \in Users \cup {None},
         NEW queue \in Queues, NEW routed \in BOOLEAN
  PROVE  NewDocket(status, state, lifecycle, assignee, queue, routed) \in Dockets
  BY BoundAssumption DEF NewDocket, Dockets, Dates, Reasons

LEMMA InitTyped == Init => TypeInv
  <1> SUFFICES ASSUME Init PROVE TypeInv
    OBVIOUS
  <1>1. docket \in Dockets
    <2>1. docket \in CreatedDockets => docket \in Dockets
      BY NewDocketType DEF CreatedDockets, Statuses, CanonicalStates, Lifecycles, Queues
    <2>2. docket \in IntakeDockets => docket \in Dockets
      BY NewDocketType DEF IntakeDockets, Statuses, CanonicalStates, Lifecycles, Queues
    <2> QED
      BY <2>1, <2>2 DEF Init
  <1>2. Idle \in Requests
    BY DEF Idle, Requests, Phases, Statuses, Reasons
  <1>3. req \in [Handlers -> Requests]
    BY <1>2 DEF Init
  <1>4. reply \in Replies
    BY DEF Init, Replies, Outcomes
  <1>5. \A h \in Handlers : ReqOK(req[h])
    BY DEF Init, ReqOK, Idle, HasRead
  <1> QED
    BY <1>1, <1>3, <1>4, <1>5 DEF TypeInv, TypeOK

-----------------------------------------------------------------------------
(* Each way of changing the docket yields a docket.                           *)

\* The two updates of a guarded status change.
LEMMA GuardedUpdateType ==
  ASSUME NEW d \in Dockets, NEW r \in Requests, r.snap \in Dockets,
         d.version < MaxVersion
  PROVE  GuardedUpdate(d, r) \in Dockets
  <1>1. r.target \in Statuses /\ r.reason \in Reasons /\ r.snap.lifecycle \in Lifecycles
    BY DEF Requests, Dockets
  <1>2. Canonical(r.target, None, None) \in CanonicalStates
    BY <1>1, CanonicalType
  <1>3. InferLifecycle(r.snap.lifecycle, r.snap.assignee, r.target) \in Lifecycles
    BY <1>1, InferLifecycleType
  <1> DEFINE state == Canonical(r.target, None, None)
             life  == IF r.op = "Unassign" THEN "WL"
                      ELSE InferLifecycle(r.snap.lifecycle, r.snap.assignee, r.target)
             owner == IF r.op = "Unassign" THEN None ELSE d.assignee
             queue == IF r.op = "Unassign" THEN "GLOBAL" ELSE d.queue
             until == IF r.target = "PENDING" THEN "later" ELSE "none"
             at    == IF r.target = "PENDING" THEN "later"
                      ELSE IF r.op \in {"Close", "Unassign"} THEN d.reopenAt ELSE "none"
             why   == IF r.target = "PENDING" THEN r.reason ELSE d.pendingReason
  <1>4. life \in Lifecycles /\ state \in CanonicalStates
    BY <1>2, <1>3 DEF Lifecycles
  <1>5. owner \in Users \cup {None} /\ queue \in Queues /\ until \in Dates
    BY DEF Dockets, Queues, Dates
  <1>6. at \in Dates /\ why \in Reasons
    BY <1>1 DEF Dockets, Dates
  <1>7. d.version + 1 \in 0..MaxVersion
    BY BoundAssumption DEF Dockets
  <1> DEFINE d1 == [d EXCEPT !.status = r.target, !.state = state, !.lifecycle = life,
                             !.assignee = owner, !.queue = queue]
             d2 == [d1 EXCEPT !.pendingUntil = until, !.reopenAt = at,
                              !.pendingReason = why, !.version = d.version + 1]
  <1>8. GuardedUpdate(d, r) = d2
    BY DEF GuardedUpdate, Dockets
  <1> HIDE DEF state, life, owner, queue, until, at, why
  <1>9. d1 \in Dockets
    BY <1>1, <1>4, <1>5 DEF Dockets
  <1> HIDE DEF d1
  <1>10. d2 \in Dockets
    BY <1>1, <1>5, <1>6, <1>7, <1>9 DEF Dockets
  <1> QED
    BY <1>8, <1>10

\* The copy of the docket a saving handler has edited.
LEMMA EditedType ==
  ASSUME NEW r \in Requests, r.snap \in Dockets, r.op = "Reassign" => r.user \in Users,
         r.op = "ReassignCase" => r.user \in Users
  PROVE  Edited(r) \in Dockets
  <1>1. QcOwner(r.snap) \in Users \cup {None}
    BY DEF QcOwner, Dockets
  <1>2. CASE r.op = "Reassign"
    BY <1>2 DEF Edited, Dockets, CanonicalStates, Queues
  <1>3. CASE r.op = "ReassignCase"
    BY <1>3 DEF Edited, Dockets
  <1>4. CASE r.op = "QcFail"
    <2>1. Edited(r) = [r.snap EXCEPT !.assignee = QcOwner(r.snap), !.queue = "PERSONAL",
                                     !.status = "IN_PROGRESS", !.state = "IN_PROGRESS",
                                     !.lifecycle = "ACTIVE"]
      BY <1>4 DEF Edited
    <2> QED
      BY <1>1, <2>1 DEF Dockets, Statuses, CanonicalStates, Lifecycles, Queues
  <1>5. CASE r.op \notin {"Reassign", "ReassignCase", "QcFail"}
    BY <1>5 DEF Edited, Dockets, Statuses, CanonicalStates, Lifecycles
  <1> QED
    BY <1>2, <1>3, <1>4, <1>5

\* The fields a save writes.
LEMMA SavedDocketType ==
  ASSUME NEW d \in Dockets, NEW old \in Dockets, NEW new \in Dockets, d.v < MaxV
  PROVE  SavedDocket(d, old, new) \in Dockets
  <1> DEFINE status == Changed(d.status, old.status, new.status)
             state  == Changed(d.state, old.state, new.state)
             life   == Changed(d.lifecycle, old.lifecycle, new.lifecycle)
             owner  == Changed(d.assignee, old.assignee, new.assignee)
             queue  == Changed(d.queue, old.queue, new.queue)
  <1>1. status \in Statuses /\ state \in CanonicalStates /\ life \in Lifecycles
    BY DEF Changed, Dockets
  <1>2. owner \in Users \cup {None} /\ queue \in Queues
    BY DEF Changed, Dockets
  <1>3. d.v + 1 \in 0..MaxV
    BY BoundAssumption DEF Dockets
  <1>4. SavedDocket(d, old, new) =
          [d EXCEPT !.status = status, !.state = state, !.lifecycle = life,
                    !.assignee = owner, !.queue = queue, !.v = d.v + 1]
    BY DEF SavedDocket, Dockets
  <1> HIDE DEF status, state, life, owner, queue
  <1> QED
    BY <1>1, <1>2, <1>3, <1>4 DEF Dockets

\* A move to a worklist or to a workbasket.
LEMMA MovedDocketType ==
  ASSUME NEW d \in Dockets, NEW user \in Users \cup {None}
  PROVE  MovedDocket(d, user) \in Dockets
  BY DEF MovedDocket, Dockets, Statuses, CanonicalStates, Lifecycles, Queues

\* A reopening, whichever status it reopens to.
LEMMA ReopenedDocketType ==
  ASSUME NEW d \in Dockets, NEW r \in Requests
  PROVE  ReopenedDocket(d, r) \in Dockets
  BY DEF ReopenedDocket, Requests, Dockets, CanonicalStates, Lifecycles, Queues, Dates

\* The hand-back of a deactivated user's docket.
LEMMA DeactivatedDocketType ==
  ASSUME NEW d \in Dockets
  PROVE  DeactivatedDocket(d) \in Dockets
  BY DEF DeactivatedDocket, Dockets, Statuses, CanonicalStates, Queues

\* A pull.
LEMMA AssignedType ==
  ASSUME NEW d \in Dockets, NEW user \in Users, NEW status \in Statuses
  PROVE  Assigned(d, user, status) \in Dockets
  BY DEF Assigned, Dockets, CanonicalStates, Lifecycles, Queues

\* A transition.
LEMMA TransitionedType ==
  ASSUME NEW d \in Dockets, NEW target \in Statuses, NEW actor \in Users,
         NEW date \in {"none", "later"}, d.v < MaxV
  PROVE  Transitioned(d, target, actor, date) \in Dockets
  <1> DEFINE to    == Canonical(target, d.assignee, d.queue)
             life  == ToLifecycleFromStatus(target)
             when  == IF target = "PENDING" THEN date ELSE "none"
             sub   == IF target = "QC_PENDING"
                      THEN (IF d.assignee # None THEN d.assignee ELSE actor)
                      ELSE d.submitter
             free  == target = "QC_PENDING" \/ to = "IN_WB"
             owner == IF free THEN None ELSE d.assignee
             queue == IF free THEN "GLOBAL" ELSE d.queue
             route == IF target = "QC_PENDING" THEN FALSE ELSE d.routed
  <1>1. to \in CanonicalStates /\ life \in Lifecycles
    BY CanonicalType, ToLifecycleType
  <1>2. when \in Dates /\ sub \in Users \cup {None}
    BY DEF Dates, Dockets
  <1>3. owner \in Users \cup {None} /\ queue \in Queues /\ route \in BOOLEAN
    BY DEF Queues, Dockets
  <1>4. d.v + 1 \in 0..MaxV
    BY BoundAssumption DEF Dockets
  <1> DEFINE d1 == [d EXCEPT !.status = target, !.state = to, !.lifecycle = life,
                             !.reopenAt = when, !.pendingUntil = when]
             d2 == [d1 EXCEPT !.submitter = sub, !.assignee = owner, !.queue = queue,
                              !.routed = route, !.v = d.v + 1]
  <1>5. Transitioned(d, target, actor, date) = d2
    BY DEF Transitioned, Dockets
  <1> HIDE DEF to, life, when, sub, free, owner, queue, route
  <1>6. d1 \in Dockets
    BY <1>1, <1>2 DEF Dockets
  <1> HIDE DEF d1
  <1>7. d2 \in Dockets
    BY <1>2, <1>3, <1>4, <1>6 DEF Dockets
  <1> QED
    BY <1>5, <1>7

-----------------------------------------------------------------------------
(* Every step keeps TypeInv.                                                  *)

\* A handler starts.
LEMMA StartTyped ==
  ASSUME TypeInv, NEW h \in Handlers, NEW op, NEW phase \in Phases,
         NEW target \in Statuses, NEW user \in Users \cup {None}, NEW reason \in Reasons,
         NEW snap \in Dockets \cup {None}, Start(h, op, phase, target, user, reason, snap),
         phase \in HasRead => snap \in Dockets,
         op \in {"Reassign", "ReassignCase"} => user \in Users
  PROVE  TypeInv'
  <1> DEFINE r == [phase |-> phase, op |-> op, target |-> target,
                   user |-> user, reason |-> reason, snap |-> snap]
  <1>1. op \in AllOps \cup {"none"}
    BY OpsAssumption DEF Start
  <1>2. r \in Requests /\ ReqOK(r)
    BY <1>1 DEF Requests, ReqOK
  <1>3. req' = [req EXCEPT ![h] = r] /\ docket' = docket
    BY DEF Start
  <1>4. reply' \in Replies
    BY DEF Start, NoAnswer, Answer, Replies, Outcomes
  <1> HIDE DEF r
  <1>5. req' \in [Handlers -> Requests] /\ \A k \in Handlers : ReqOK(req'[k])
    BY <1>2, <1>3 DEF TypeInv, TypeOK
  <1> QED
    BY <1>3, <1>4, <1>5 DEF TypeInv, TypeOK, ReqOK

\* A handler goes on, its request changed to one of the right type.
LEMMA GoesOnTyped ==
  ASSUME TypeInv, NEW h \in Handlers, NEW r \in Requests, ReqOK(r),
         req' = [req EXCEPT ![h] = r], UNCHANGED docket, NoAnswer
  PROVE  TypeInv'
  <1>1. reply' \in Replies
    BY DEF NoAnswer, Answer, Replies, Outcomes
  <1>2. req' \in [Handlers -> Requests] /\ \A k \in Handlers : ReqOK(req'[k])
    BY DEF TypeInv, TypeOK
  <1> QED
    BY <1>1, <1>2 DEF TypeInv, TypeOK, ReqOK

\* A handler answers, having left a docket.
LEMMA FinishTyped ==
  ASSUME TypeInv, NEW h \in Handlers, NEW outcome \in Outcomes, docket' \in Dockets,
         Finish(h, outcome)
  PROVE  TypeInv'
  <1>1. Idle \in Requests /\ ReqOK(Idle)
    BY DEF Idle, Requests, ReqOK, HasRead, Phases, Statuses, Reasons
  <1>2. req' = [req EXCEPT ![h] = Idle] /\ reply' = [op |-> req[h].op, outcome |-> outcome]
    BY DEF Finish, Answer
  <1>3. req[h].op \in AllOps \cup {"none"}
    BY DEF TypeInv, TypeOK, Requests
  <1>4. reply' \in Replies
    BY <1>2, <1>3 DEF Replies
  <1>5. req' \in [Handlers -> Requests] /\ \A k \in Handlers : ReqOK(req'[k])
    BY <1>1, <1>2 DEF TypeInv, TypeOK
  <1> QED
    BY <1>4, <1>5 DEF TypeInv, TypeOK, ReqOK

\* An atomic operation or the clock changes the docket and leaves the requests.
LEMMA AtomicTyped ==
  ASSUME TypeInv, NEW op \in AllOps \cup {"none"}, NEW outcome \in Outcomes,
         docket' \in Dockets, Answer(op, outcome), UNCHANGED req
  PROVE  TypeInv'
  BY DEF TypeInv, TypeOK, Answer, Replies, ReqOK

\* The start of every operation.
LEMMA StartsTyped ==
  ASSUME TypeInv, NEW h \in Handlers, StartGuarded(h) \/ StartSave(h) \/ StartBlind(h)
  PROVE  TypeInv'
  <1>0. docket \in Dockets
    BY DEF TypeInv, TypeOK
  <1>a. /\ "load" \in Phases \ HasRead /\ "read" \in Phases \ HasRead
        /\ "save" \in Phases /\ "write" \in Phases /\ "none" \in Reasons
    BY DEF Phases, HasRead, Reasons
  <1>b. /\ "UNASSIGNED" \in Statuses /\ "ROUTED" \in Statuses /\ "ASSIGNED" \in Statuses
        /\ "IN_PROGRESS" \in Statuses /\ "PENDING" \in Statuses /\ "RESOLVED" \in Statuses
        /\ "FILED" \in Statuses /\ "CLOSED" \in Statuses
    BY DEF Statuses
  <1>1. CASE StartPend(h)
    <2> PICK reason \in Reasons : Start(h, "Pend", "load", "PENDING", None, reason, None)
      BY <1>1 DEF StartPend
    <2> QED
      BY <1>a, <1>b, StartTyped
  <1>2. CASE StartFile(h)
    BY <1>2, <1>a, <1>b, StartTyped DEF StartFile
  <1>3. CASE StartClose(h)
    BY <1>3, <1>a, <1>b, StartTyped DEF StartClose
  <1>4. CASE StartUnpend(h)
    <2> PICK target \in Statuses : Start(h, "Unpend", "load", target, None, "none", None)
      BY <1>4, ReopenStatusType DEF StartUnpend
    <2> QED
      BY <1>a, StartTyped
  <1>5. CASE StartAutoReopen(h)
    <2> PICK target \in Statuses : Start(h, "AutoReopen", "load", target, None, "none", None)
      BY <1>5, ReopenStatusType DEF StartAutoReopen
    <2> QED
      BY <1>a, StartTyped
  <1>6. CASE StartUnassign(h)
    <2> PICK target \in {"UNASSIGNED", "ROUTED"} :
             Start(h, "Unassign", "load", target, None, "none", None)
      BY <1>6 DEF StartUnassign
    <2> QED
      BY <1>a, <1>b, StartTyped
  <1>7. CASE StartReassign(h)
    <2> PICK u \in Users : Start(h, "Reassign", "read", "UNASSIGNED", u, "none", None)
      BY <1>7 DEF StartReassign
    <2> QED
      BY <1>a, <1>b, StartTyped
  <1>8. CASE StartReassignCase(h)
    <2> PICK u \in Users : Start(h, "ReassignCase", "save", "UNASSIGNED", u, "none", docket)
      BY <1>8 DEF StartReassignCase
    <2> QED
      BY <1>0, <1>a, <1>b, StartTyped
  <1>9. CASE StartQc(h)
    <2> PICK op \in {"QcPass", "QcFail"}, target \in {"IN_PROGRESS", "RESOLVED"} :
             Start(h, op, "save", target, None, "none", docket)
      BY <1>9 DEF StartQc
    <2> QED
      BY <1>0, <1>a, <1>b, StartTyped
  <1>10. CASE StartMove(h)
    <2> PICK u \in Users \cup {None} : Start(h, "Move", "write", "ASSIGNED", u, "none", docket)
      BY <1>10 DEF StartMove
    <2> QED
      BY <1>0, <1>a, <1>b, StartTyped
  <1>11. CASE StartReopenDue(h)
    <2> PICK target \in Statuses : Start(h, "ReopenDue", "write", target, None, "none", docket)
      BY <1>11, ReopenStatusType DEF StartReopenDue
    <2> QED
      BY <1>0, <1>a, StartTyped
  <1>12. CASE StartEmailReopen(h)
    <2> PICK target \in {"IN_PROGRESS", "UNASSIGNED"} :
             Start(h, "EmailReopen", "write", target, None, "none", docket)
      BY <1>12 DEF StartEmailReopen
    <2> QED
      BY <1>0, <1>a, <1>b, StartTyped
  <1>13. CASE StartDeactivate(h)
    <2> PICK u \in Users : Start(h, "Deactivate", "write", "UNASSIGNED", u, "none", docket)
      BY <1>13 DEF StartDeactivate
    <2> QED
      BY <1>0, <1>a, <1>b, StartTyped
  <1> QED
    BY <1>1, <1>2, <1>3, <1>4, <1>5, <1>6, <1>7, <1>8, <1>9, <1>10, <1>11, <1>12, <1>13
    DEF StartGuarded, StartSave, StartBlind

\* The later steps of every operation.
LEMMA HandleTyped ==
  ASSUME TypeInv, NEW h \in Handlers, Handle(h)
  PROVE  TypeInv'
  <1>0. docket \in Dockets /\ req[h] \in Requests /\ ReqOK(req[h])
    BY DEF TypeInv, TypeOK
  <1> USE DEF Outcomes
  <1>1. ASSUME NEW p \in {"validate", "save"}, req' = [req EXCEPT ![h].phase = p,
               ![h].snap = docket], UNCHANGED docket, NoAnswer
        PROVE  TypeInv'
    <2> DEFINE r == [req[h] EXCEPT !.phase = p, !.snap = docket]
    <2>1. r \in Requests /\ ReqOK(r)
      BY <1>0 DEF Requests, ReqOK, Phases
    <2>2. req' = [req EXCEPT ![h] = r]
      BY <1>1 DEF TypeInv, TypeOK, Requests
    <2> HIDE DEF r
    <2> QED
      BY <1>1, <2>1, <2>2, GoesOnTyped
  <1>2. CASE Load(h)
    BY <1>1, <1>2 DEF Load
  <1>3. CASE ReadReassign(h)
    BY <1>1, <1>3 DEF ReadReassign
  <1>4. CASE Validate(h)
    <2> DEFINE r == [req[h] EXCEPT !.phase = "commit"]
    <2>1. CASE req' = [req EXCEPT ![h].phase = "commit"] /\ NoAnswer
      <3>1. r \in Requests /\ ReqOK(r)
        BY <1>0, <1>4 DEF Validate, Requests, ReqOK, HasRead, Phases
      <3>2. req' = [req EXCEPT ![h] = r]
        BY <2>1 DEF TypeInv, TypeOK, Requests
      <3> HIDE DEF r
      <3> QED
        BY <1>4, <2>1, <3>1, <3>2, GoesOnTyped DEF Validate
    <2>2. CASE Finish(h, "refused")
      BY <1>0, <1>4, <2>2, FinishTyped DEF Validate
    <2> QED
      BY <1>4, <2>1, <2>2 DEF Validate
  <1>5. CASE Commit(h)
    <2>1. req[h].snap \in Dockets
      BY <1>0, <1>5 DEF Commit, ReqOK, HasRead
    <2>2. docket' \in Dockets
      BY <1>0, <1>5, <2>1, GuardedUpdateType DEF Commit
    <2> QED
      BY <1>5, <2>2, FinishTyped DEF Commit
  <1>6. CASE Save(h)
    <2>1. req[h].snap \in Dockets
      BY <1>0, <1>6 DEF Save, ReqOK, HasRead
    <2>2. Edited(req[h]) \in Dockets
      BY <1>0, <2>1, EditedType DEF ReqOK
    <2>3. docket' \in Dockets
      BY <1>0, <1>6, <2>1, <2>2, SavedDocketType DEF Save
    <2> QED
      BY <1>6, <2>3, FinishTyped DEF Save
  <1>7. CASE Write(h)
    <2>1. docket' \in Dockets
      BY <1>0, <1>7, MovedDocketType, ReopenedDocketType, DeactivatedDocketType
      DEF Write, Requests
    <2> QED
      BY <1>7, <2>1, FinishTyped DEF Write
  <1> QED
    BY <1>2, <1>3, <1>4, <1>5, <1>6, <1>7 DEF Handle

\* The operations of a single step, and the clock.
LEMMA AtomicsTyped ==
  ASSUME TypeInv, Pull \/ BulkPull \/ Transition \/ TimePasses
  PROVE  TypeInv'
  <1>0. docket \in Dockets
    BY DEF TypeInv, TypeOK
  <1> USE DEF Outcomes, AllOps, AtomicOps
  <1>1. CASE Pull
    <2> PICK u \in Users : docket' = [Assigned(docket, u, "ASSIGNED") EXCEPT !.version = @ + 1]
      BY <1>1 DEF Pull
    <2>1. Assigned(docket, u, "ASSIGNED") \in Dockets
      BY <1>0, AssignedType DEF Statuses
    <2>2. Assigned(docket, u, "ASSIGNED").version = docket.version
      BY <1>0 DEF Assigned, Dockets
    <2>3. docket.version + 1 \in 0..MaxVersion
      BY <1>0, <1>1, BoundAssumption DEF Pull, Dockets
    <2>4. docket' \in Dockets
      BY <2>1, <2>2, <2>3 DEF Dockets
    <2> QED
      BY <1>1, <2>4, AtomicTyped DEF Pull
  <1>2. CASE BulkPull
    <2>1. docket' \in Dockets
      BY <1>0, <1>2, AssignedType DEF BulkPull, Statuses
    <2> QED
      BY <1>2, <2>1, AtomicTyped DEF BulkPull
  <1>3. CASE Transition
    <2>1. docket' \in Dockets
      BY <1>0, <1>3, TransitionedType DEF Transition
    <2> QED
      BY <1>3, <2>1, AtomicTyped DEF Transition
  <1>4. CASE TimePasses
    <2>1. docket' \in Dockets
      BY <1>0, <1>4 DEF TimePasses, Dockets, Dates
    <2> QED
      BY <1>4, <2>1, AtomicTyped DEF TimePasses, NoAnswer
  <1> QED
    BY <1>1, <1>2, <1>3, <1>4

LEMMA StepTyped == TypeInv /\ [Next]_vars => TypeInv'
  <1> SUFFICES ASSUME TypeInv, [Next]_vars PROVE TypeInv'
    OBVIOUS
  <1>1. CASE Next
    BY <1>1, StartsTyped, HandleTyped, AtomicsTyped DEF Next
  <1>2. CASE UNCHANGED vars
    BY <1>2 DEF vars, TypeInv, TypeOK, ReqOK
  <1> QED
    BY <1>1, <1>2

LEMMA AlwaysTyped == Spec => []TypeInv
  BY InitTyped, StepTyped, PTL DEF Spec

\* No operation, in any interleaving, leaves a docket, a request or an answer
\* outside its type: every status, state and lifecycle that the conversions and the
\* partial updates of the handlers produce is a persisted one.
THEOREM TypeCorrect == Spec => []TypeOK
  BY AlwaysTyped, PTL DEF TypeInv

-----------------------------------------------------------------------------
(* One request at a time.  Each operation alone keeps the fields of a docket  *)
(* in step with each other, because what it has read is still the docket when *)
(* it writes; from this it follows that it does what Worklist promises.       *)

GuardedPhases == {"load", "validate", "commit"}

\* How the fields of a docket belong together.
InStep(d) ==
  /\ d.queue = "PERSONAL" => d.assignee # None
  /\ d.status = "FILED" <=> d.state = "FILED"
  /\ d.status \in TerminalStatuses => d.lifecycle = "DONE"
  /\ d.status = "PENDING" => d.lifecycle \in {"WL", "WAITING"}
  /\ d.status = "QC_PENDING" => d.lifecycle = "WAITING" /\ d.submitter # None
  /\ d.status # "RESOLVED"

\* The target of a guarded operation, and the status it was asked for in.
Asked(op, target, status) ==
  \/ op = "Pend" /\ target = "PENDING" /\ status \in {"ASSIGNED", "OPEN", "IN_PROGRESS"}
  \/ op = "File" /\ target = "FILED"
  \/ op = "Close" /\ target = "CLOSED"
  \/ op \in {"Unpend", "AutoReopen"} /\ status = "PENDING"
                                     /\ target \in {"ASSIGNED", "ROUTED", "UNASSIGNED"}
  \/ op = "Unassign" /\ target \in {"UNASSIGNED", "ROUTED"}

\* What the request under way knows of docket d.
Alone(r, d) ==
  /\ r.phase \in HasRead => r.snap = d
  /\ r.phase \in GuardedPhases => Asked(r.op, r.target, d.status)
  /\ r.phase = "commit" => IsValidTransition(d.lifecycle, ToLifecycleFromStatus(r.target))
  /\ r.phase = "read" => r.op = "Reassign" /\ d.status # "FILED"
  /\ r.phase = "save" => /\ r.op \in SaveOps /\ d.status # "FILED"
                         /\ r.op \in {"QcPass", "QcFail"} => d.status = "QC_PENDING"
  /\ r.phase = "write" =>
       \/ r.op = "Move" /\ d.status # "FILED"
       \/ r.op = "Deactivate" /\ d.status # "FILED"
       \/ /\ r.op \in {"ReopenDue", "EmailReopen"} /\ d.status = "PENDING"
          /\ r.target \in {"ASSIGNED", "ROUTED", "UNASSIGNED", "IN_PROGRESS"}

\* At most one request is under way.
OneBusy == \A h, k \in Handlers :
             h # k => req[h].phase = "idle" \/ req[k].phase = "idle"

AloneInv == InStep(docket) /\ OneBusy /\ \A h \in Handlers : Alone(req[h], docket)

\* The step does what Worklist promises.
Promised == [Desk!Next]_(Desk!vars)

\* A request that is not under way knows nothing.
LEMMA IdleAlone == \A r, d : r.phase = "idle" => Alone(r, d)
  BY DEF Alone, HasRead, GuardedPhases

\* One request starts or goes on, the others being idle.
LEMMA BusyAlone ==
  ASSUME TypeInv, NEW h \in Handlers, NEW r, req' = [req EXCEPT ![h] = r],
         \A k \in Handlers \ {h} : req[k].phase = "idle",
         InStep(docket'), Alone(r, docket')
  PROVE  AloneInv'
  <1>1. req'[h] = r /\ \A k \in Handlers \ {h} : req'[k].phase = "idle"
    BY DEF TypeInv, TypeOK
  <1>2. OneBusy'
    BY <1>1 DEF OneBusy
  <1>3. \A k \in Handlers : Alone(req'[k], docket')
    BY <1>1, IdleAlone
  <1> QED
    BY <1>2, <1>3 DEF AloneInv, Alone, InStep

\* The clock or an atomic operation runs while all are idle.
LEMMA OutsideAlone ==
  ASSUME AllIdle, UNCHANGED req, InStep(docket')
  PROVE  AloneInv'
  <1>1. \A k \in Handlers : req'[k].phase = "idle"
    BY DEF AllIdle
  <1>2. OneBusy' /\ \A k \in Handlers : Alone(req'[k], docket')
    BY <1>1, IdleAlone DEF OneBusy
  <1> QED
    BY <1>2 DEF AloneInv, Alone, InStep

\* While a request is under way the others are idle.
LEMMA OthersIdle ==
  ASSUME AloneInv, NEW h \in Handlers, req[h].phase # "idle"
  PROVE  \A k \in Handlers \ {h} : req[k].phase = "idle"
  BY DEF AloneInv, OneBusy

\* A step that leaves the docket and completes nothing.
LEMMA RestPromised ==
  ASSUME UNCHANGED docket, reply'.outcome = "ok" => reply'.op = "none"
  PROVE  Promised
  BY DEF Promised, Desk!Next, Desk!Rest

-----------------------------------------------------------------------------
(* The starts.                                                                *)

LEMMA InitAlone == Init => AloneInv /\ Desk!Init
  <1> SUFFICES ASSUME Init PROVE AloneInv /\ Desk!Init
    OBVIOUS
  <1>1. /\ docket.status \in {"UNASSIGNED", "ASSIGNED", "OPEN"}
        /\ docket.state \in {"IN_WB", "IN_PROGRESS"}
        /\ docket.queue = "PERSONAL" => docket.assignee # None
        /\ docket.submitter = None /\ docket.assignee \in Users \cup {None}
    BY NoneAssumption DEF Init, CreatedDockets, IntakeDockets, NewDocket
  <1>2. InStep(docket)
    BY <1>1 DEF InStep, TerminalStatuses
  <1>3. \A h \in Handlers : req[h].phase = "idle"
    BY DEF Init, Idle
  <1>4. AloneInv
    BY <1>2, <1>3, IdleAlone DEF AloneInv, OneBusy
  <1>5. Desk!Init
    BY <1>1 DEF Init, Desk!Init, Stage, TerminalStatuses
  <1> QED
    BY <1>4, <1>5

LEMMA StartAlone ==
  ASSUME TypeInv, AloneInv, AllIdle, NEW h \in Handlers,
         NEW op, NEW phase, NEW target, NEW user, NEW reason, NEW snap,
         Start(h, op, phase, target, user, reason, snap),
         Alone([phase |-> phase, op |-> op, target |-> target,
                user |-> user, reason |-> reason, snap |-> snap], docket)
  PROVE  AloneInv' /\ Promised
  <1> DEFINE r == [phase |-> phase, op |-> op, target |-> target,
                   user |-> user, reason |-> reason, snap |-> snap]
  <1>1. /\ req' = [req EXCEPT ![h] = r] /\ docket' = docket
        /\ \A k \in Handlers \ {h} : req[k].phase = "idle"
        /\ reply' = [op |-> "none", outcome |-> "none"]
    BY DEF Start, AllIdle, NoAnswer, Answer
  <1>2. Alone(r, docket') /\ InStep(docket')
    BY <1>1 DEF AloneInv
  <1> HIDE DEF r
  <1>3. AloneInv'
    BY <1>1, <1>2, BusyAlone
  <1> QED
    BY <1>1, <1>3, RestPromised

LEMMA StartsAlone ==
  ASSUME TypeInv, AloneInv, AllIdle, NEW h \in Handlers,
         StartGuarded(h) \/ StartSave(h) \/ StartBlind(h)
  PROVE  AloneInv' /\ Promised
  <1>0. docket \in Dockets /\ docket.status # "RESOLVED" /\ docket.status \in Statuses
    BY DEF TypeInv, TypeOK, AloneInv, InStep, Dockets
  <1> USE DEF Alone, HasRead, GuardedPhases, Asked
  <1>1. CASE StartPend(h)
    <2> PICK reason : /\ "PENDING" \in ActionSuccessors(docket.status)
                      /\ Start(h, "Pend", "load", "PENDING", None, reason, None)
      BY <1>1 DEF StartPend
    <2>1. docket.status \in {"ASSIGNED", "OPEN", "IN_PROGRESS"}
      BY DEF ActionSuccessors
    <2> QED
      BY <2>1, StartAlone
  <1>2. CASE StartFile(h)
    BY <1>2, StartAlone DEF StartFile
  <1>3. CASE StartClose(h)
    BY <1>3, StartAlone DEF StartClose
  <1>4. CASE StartUnpend(h)
    <2> DEFINE target == ReopenStatus(docket.assignee, docket.routed)
    <2>1. target \in {"ASSIGNED", "ROUTED", "UNASSIGNED"}
      BY DEF ReopenStatus
    <2>2. docket.status = "PENDING"
      BY <1>4, <2>1, <1>0 DEF StartUnpend, ActionSuccessors
    <2>3. Start(h, "Unpend", "load", target, None, "none", None)
      BY <1>4 DEF StartUnpend
    <2> HIDE DEF target
    <2> QED
      BY <2>1, <2>2, <2>3, StartAlone
  <1>5. CASE StartAutoReopen(h)
    <2> DEFINE target == ReopenStatus(docket.assignee, docket.routed)
    <2>1. target \in {"ASSIGNED", "ROUTED", "UNASSIGNED"}
      BY DEF ReopenStatus
    <2>2. docket.status = "PENDING" /\ Start(h, "AutoReopen", "load", target, None, "none", None)
      BY <1>5 DEF StartAutoReopen
    <2> HIDE DEF target
    <2> QED
      BY <2>1, <2>2, StartAlone
  <1>6. CASE StartUnassign(h)
    <2> PICK target \in {"UNASSIGNED", "ROUTED"} :
             Start(h, "Unassign", "load", target, None, "none", None)
      BY <1>6 DEF StartUnassign
    <2> QED
      BY StartAlone
  <1>7. CASE StartReassign(h)
    <2> PICK u \in Users : Start(h, "Reassign", "read", "UNASSIGNED", u, "none", None)
      BY <1>7 DEF StartReassign
    <2>1. docket.status # "FILED"
      BY <1>7 DEF StartReassign, IsTerminal
    <2> QED
      BY <2>1, StartAlone
  <1>8. CASE StartReassignCase(h)
    <2> PICK u \in Users : Start(h, "ReassignCase", "save", "UNASSIGNED", u, "none", docket)
      BY <1>8 DEF StartReassignCase
    <2>1. docket.status # "FILED"
      BY <1>8 DEF StartReassignCase
    <2> QED
      BY <2>1, StartAlone DEF SaveOps
  <1>9. CASE StartQc(h)
    <2> PICK op \in {"QcPass", "QcFail"} :
             Start(h, op, "save", IF op = "QcFail" THEN "IN_PROGRESS" ELSE "RESOLVED",
                   None, "none", docket)
      BY <1>9 DEF StartQc
    <2>1. docket.status = "QC_PENDING"
      BY <1>0, <1>9 DEF StartQc, Canonical, Statuses
    <2> QED
      BY <2>1, StartAlone DEF SaveOps
  <1>10. CASE StartMove(h)
    <2> PICK u : Start(h, "Move", "write", "ASSIGNED", u, "none", docket)
      BY <1>10 DEF StartMove
    <2>1. docket.status # "FILED"
      BY <1>10 DEF StartMove, IsTerminal
    <2> QED
      BY <2>1, StartAlone
  <1>11. CASE StartReopenDue(h)
    <2> DEFINE target == ReopenStatus(docket.assignee, docket.routed)
    <2>1. target \in {"ASSIGNED", "ROUTED", "UNASSIGNED"}
      BY DEF ReopenStatus
    <2>2. /\ docket.status = "PENDING"
          /\ Start(h, "ReopenDue", "write", target, None, "none", docket)
      BY <1>11 DEF StartReopenDue, IsDue
    <2> HIDE DEF target
    <2> QED
      BY <2>1, <2>2, StartAlone
  <1>12. CASE StartEmailReopen(h)
    <2> DEFINE target == IF docket.assignee # None THEN "IN_PROGRESS" ELSE "UNASSIGNED"
    <2>1. /\ docket.status = "PENDING" /\ target \in {"IN_PROGRESS", "UNASSIGNED"}
          /\ Start(h, "EmailReopen", "write", target, None, "none", docket)
      BY <1>12 DEF StartEmailReopen
    <2> HIDE DEF target
    <2> QED
      BY <2>1, StartAlone
  <1>13. CASE StartDeactivate(h)
    <2> PICK u \in Users : Start(h, "Deactivate", "write", "UNASSIGNED", u, "none", docket)
      BY <1>13 DEF StartDeactivate
    <2>1. docket.status # "FILED"
      BY <1>13 DEF StartDeactivate
    <2> QED
      BY <2>1, StartAlone
  <1> QED
    BY <1>1, <1>2, <1>3, <1>4, <1>5, <1>6, <1>7, <1>8, <1>9, <1>10, <1>11, <1>12, <1>13
       DEF StartGuarded, StartSave, StartBlind

-----------------------------------------------------------------------------
(* The writes: what each leaves of the docket, and that Worklist promises it. *)

\* Docket d is left as e by an operation, as Worklist has it.
Stays(d, e) == /\ e.assignee = d.assignee
               /\ e.submitter = d.submitter

\* A guarded update of the docket it was validated against.
LEMMA GuardedAlone ==
  ASSUME NEW d \in Dockets, InStep(d), NEW r \in Requests, r.snap = d,
         Asked(r.op, r.target, d.status),
         IsValidTransition(d.lifecycle, ToLifecycleFromStatus(r.target))
  PROVE  LET e == GuardedUpdate(d, r) IN
           /\ InStep(e) /\ e.submitter = d.submitter /\ e.status = r.target
           /\ e.assignee = IF r.op = "Unassign" THEN None ELSE d.assignee
           /\ d.status \notin TerminalStatuses
           /\ r.op \in {"File", "Close"} => d.status \notin {"PENDING", "QC_PENDING"}
  <1> DEFINE e == GuardedUpdate(d, r)
  <1>1. /\ d.lifecycle # "DONE"
        /\ r.op \in {"File", "Close"} => d.lifecycle = "ACTIVE"
    BY DEF IsValidTransition, LifecycleSuccessors, Asked, ToLifecycleFromStatus,
           TerminalStatuses, Dockets, Lifecycles
  <1>2. /\ e.status = r.target /\ e.state = Canonical(r.target, None, None)
        /\ e.lifecycle = IF r.op = "Unassign" THEN "WL"
                         ELSE InferLifecycle(d.lifecycle, d.assignee, r.target)
        /\ e.assignee = IF r.op = "Unassign" THEN None ELSE d.assignee
        /\ e.queue = IF r.op = "Unassign" THEN "GLOBAL" ELSE d.queue
        /\ e.submitter = d.submitter
    BY DEF GuardedUpdate, Dockets
  <1> HIDE DEF e
  <1>3. e.queue = "PERSONAL" => e.assignee # None
    BY <1>2 DEF InStep
  <1>4. e.status = "FILED" <=> e.state = "FILED"
    <2>1. r.target \in Statuses
      BY DEF Requests
    <2> QED
      BY <1>2, <2>1 DEF Canonical, Statuses
  <1>5. e.status \in TerminalStatuses => e.lifecycle = "DONE"
    BY <1>2 DEF InferLifecycle, Asked, TerminalStatuses
  <1>6. e.status = "PENDING" => e.lifecycle \in {"WL", "WAITING"}
    BY <1>1, <1>2 DEF InferLifecycle, Asked, TerminalStatuses
  <1>7. e.status \notin {"QC_PENDING", "RESOLVED"}
    BY <1>2 DEF Asked
  <1>8. InStep(e)
    BY <1>3, <1>4, <1>5, <1>6, <1>7 DEF InStep
  <1> QED
    BY <1>1, <1>2, <1>8 DEF e, InStep

\* The fields of a save that was read from the docket itself.
LEMMA SavedAlone ==
  ASSUME NEW d \in Dockets, NEW new \in Dockets
  PROVE  LET e == SavedDocket(d, d, new) IN
           /\ e.status = new.status /\ e.state = new.state /\ e.lifecycle = new.lifecycle
           /\ e.assignee = new.assignee /\ e.queue = new.queue /\ e.submitter = d.submitter
  BY DEF SavedDocket, Changed, Dockets

\* Each of the four saves.
LEMMA EditedAlone ==
  ASSUME NEW d \in Dockets, InStep(d), d.status # "FILED", NEW r \in Requests, r.snap = d,
         r.op \in SaveOps, ~EditRefused(r),
         r.op \in {"Reassign", "ReassignCase"} => r.user \in Users,
         r.op \in {"QcPass", "QcFail"} => d.status = "QC_PENDING"
  PROVE  LET e == SavedDocket(d, d, Edited(r)) IN
           /\ InStep(e) /\ e.submitter = d.submitter
           /\ r.op # "QcPass"
           /\ r.op \in {"Reassign", "ReassignCase"} => e.assignee \in Users /\ e.status = d.status
           /\ r.op = "QcFail" => /\ e.assignee = d.submitter /\ e.assignee # None
                                 /\ e.status = "IN_PROGRESS"
  <1> DEFINE new == Edited(r)
             e   == SavedDocket(d, d, new)
  <1>1. new \in Dockets
    BY EditedType
  <1>2. /\ e.status = new.status /\ e.state = new.state /\ e.lifecycle = new.lifecycle
        /\ e.assignee = new.assignee /\ e.queue = new.queue /\ e.submitter = d.submitter
    BY <1>1, SavedAlone
  <1>3. CASE r.op = "Reassign"
    <2>1. /\ new.assignee = r.user /\ new.queue = "PERSONAL" /\ new.status = d.status
          /\ new.lifecycle = d.lifecycle /\ new.state = "IN_PROGRESS"
      BY <1>3 DEF Edited, Dockets
    <2> HIDE DEF e, new
    <2>2. InStep(e)
      BY <1>2, <1>3, <2>1, NoneAssumption DEF InStep
    <2> QED
      BY <1>2, <1>3, <2>1, <2>2 DEF e, new
  <1>4. CASE r.op = "ReassignCase"
    <2>1. /\ new.assignee = r.user /\ new.queue = d.queue /\ new.status = d.status
          /\ new.lifecycle = d.lifecycle /\ new.state = d.state
      BY <1>4 DEF Edited, Dockets
    <2> HIDE DEF e, new
    <2>2. InStep(e)
      BY <1>2, <1>4, <2>1, NoneAssumption DEF InStep
    <2> QED
      BY <1>2, <1>4, <2>1, <2>2 DEF e, new
  <1>5. CASE r.op = "QcFail"
    <2>1. new = [d EXCEPT !.assignee = QcOwner(d), !.queue = "PERSONAL",
                          !.status = "IN_PROGRESS", !.state = "IN_PROGRESS",
                          !.lifecycle = "ACTIVE"]
      BY <1>5 DEF Edited
    <2>2. /\ new.assignee = QcOwner(d) /\ new.status = "IN_PROGRESS" /\ new.assignee # None
          /\ new.state = "IN_PROGRESS"
      BY <1>5, <2>1 DEF Dockets, EditRefused
    <2>3. d.submitter # None /\ QcOwner(d) = d.submitter
      BY <1>5 DEF InStep, QcOwner
    <2> HIDE DEF e, new
    <2>4. InStep(e)
      BY <1>2, <2>2 DEF InStep, TerminalStatuses
    <2> QED
      BY <1>2, <1>5, <2>2, <2>3, <2>4 DEF e, new
  <1>6. r.op # "QcPass"
    <2> SUFFICES ASSUME r.op = "QcPass" PROVE FALSE
      OBVIOUS
    <2>1. Edited(r) = [d EXCEPT !.status = "RESOLVED", !.state = "RESOLVED", !.lifecycle = "DONE"]
      BY DEF Edited
    <2>2. Edited(r).lifecycle = "DONE"
      BY <2>1 DEF Dockets
    <2>3. d.lifecycle = "WAITING"
      BY DEF InStep
    <2>4. ~IsValidTransition("WAITING", "DONE")
      BY DEF IsValidTransition, LifecycleSuccessors
    <2> QED
      BY <2>2, <2>3, <2>4 DEF EditRefused
  <1> QED
    BY <1>3, <1>4, <1>5, <1>6 DEF SaveOps

\* What transition() accepts, and what it leaves.
LEMMA TransitionAlone ==
  ASSUME NEW d \in Dockets, InStep(d), NEW target \in Statuses \ {"OPEN", "RESOLVED"},
         NEW actor \in Users, NEW date \in Dates, docket = d, TransitionAllowed(target)
  PROVE  LET e == Transitioned(d, target, actor, date) IN
           /\ InStep(e) /\ e.status = target
           /\ d.status \notin TerminalStatuses /\ target # "FILED"
           /\ target = "QC_PENDING" =>
                /\ d.status # "PENDING" /\ d.status # "QC_PENDING" /\ e.assignee = None
                /\ e.submitter \in Users /\ (d.assignee # None => e.submitter = d.assignee)
           /\ target = "PENDING" => d.status # "QC_PENDING" /\ Stays(d, e)
           /\ target = "CLOSED" => d.status \notin {"PENDING", "QC_PENDING"} /\ Stays(d, e)
           /\ target \notin {"QC_PENDING", "PENDING", "CLOSED"} =>
                d.status # "QC_PENDING" /\ e.assignee = None /\ e.submitter = d.submitter
  <1> DEFINE from == Canonical(d.status, d.assignee, d.queue)
             to   == Canonical(target, d.assignee, d.queue)
             free == target = "QC_PENDING" \/ to = "IN_WB"
             life == ToLifecycleFromStatus(target)
             e    == Transitioned(d, target, actor, date)
  <1>1. /\ to # "IN_PROGRESS" /\ (from = to \/ CanTransition(from, to))
        /\ IsValidTransition(d.lifecycle, life)
    BY DEF TransitionAllowed
  <1>2. d.lifecycle # "DONE" /\ (life = "DONE" => d.lifecycle = "ACTIVE")
        /\ (life = "WAITING" => d.lifecycle # "WAITING")
    BY <1>1 DEF IsValidTransition, LifecycleSuccessors, Dockets, Lifecycles
  <1>3. /\ e.status = target /\ e.state = to /\ e.lifecycle = life
        /\ e.assignee = IF free THEN None ELSE d.assignee
        /\ e.queue = IF free THEN "GLOBAL" ELSE d.queue
        /\ e.submitter = IF target = "QC_PENDING"
                         THEN (IF d.assignee # None THEN d.assignee ELSE actor)
                         ELSE d.submitter
    <2> DEFINE route == IF target = "QC_PENDING" THEN FALSE ELSE d.routed
               when  == IF target = "PENDING" THEN date ELSE "none"
               sub   == IF target = "QC_PENDING"
                        THEN (IF d.assignee # None THEN d.assignee ELSE actor)
                        ELSE d.submitter
               owner == IF free THEN None ELSE d.assignee
               queue == IF free THEN "GLOBAL" ELSE d.queue
    <2>1. e = [d EXCEPT !.status = target, !.state = to, !.lifecycle = life,
                        !.reopenAt = when, !.pendingUntil = when, !.submitter = sub,
                        !.assignee = owner, !.queue = queue, !.routed = route,
                        !.v = d.v + 1]
      BY DEF Transitioned, Dockets
    <2> HIDE DEF to, life, free, when, sub, owner, queue, route
    <2>2. /\ e.status = target /\ e.state = to /\ e.lifecycle = life
          /\ e.assignee = owner /\ e.queue = queue /\ e.submitter = sub
      BY <2>1 DEF Dockets
    <2> QED
      BY <2>2 DEF sub, owner, queue
  <1>4. /\ target = "PENDING" => to = "PENDED"
        /\ target = "QC_PENDING" => to = "IN_QC"
        /\ target = "FILED" => to = "FILED"
        /\ target \notin {"PENDING", "QC_PENDING", "FILED"} => to \in {"IN_WB", "IN_PROGRESS"}
        /\ target = "CLOSED" /\ to = "IN_WB" => d.assignee = None
    BY DEF Canonical, Statuses
  <1>5. /\ d.status = "PENDING" => from = "PENDED"
        /\ d.status = "QC_PENDING" => from = "IN_QC"
        /\ from = "FILED" => d.status = "FILED"
        /\ from = "RESOLVED" => d.status = "RESOLVED"
        /\ from \in CanonicalStates
    BY CanonicalType DEF Canonical, Dockets, Statuses
  <1>6. /\ life \in {"WL", "ACTIVE", "WAITING", "DONE"}
        /\ target \in {"PENDING", "QC_PENDING"} => life = "WAITING"
        /\ target \in TerminalStatuses => life = "DONE"
    BY DEF ToLifecycleFromStatus, TerminalStatuses
  <1>7. /\ to = "IN_QC" => from \in {"IN_QC", "IN_PROGRESS"}
        /\ to = "FILED" => from = "FILED"
        /\ to = "PENDED" => from \in {"PENDED", "IN_PROGRESS"}
        /\ to = "IN_WB" => from \in {"IN_WB", "PENDED"}
    BY <1>1, <1>5 DEF CanTransition, CanonicalSuccessors, CanonicalStates
  <1> HIDE DEF from, to, life, e
  <1>8. d.status \notin TerminalStatuses /\ d.status # "FILED"
    BY <1>2 DEF InStep, TerminalStatuses
  <1>9. target # "FILED"
    BY <1>4, <1>5, <1>7, <1>8
  <1>10. target = "QC_PENDING" => d.status # "PENDING" /\ d.status # "QC_PENDING"
    BY <1>2, <1>4, <1>5, <1>6, <1>7 DEF InStep
  <1>11. target # "QC_PENDING" => d.status # "QC_PENDING"
    BY <1>1, <1>4, <1>5, <1>7, <1>9
  <1>12. target = "CLOSED" => d.status # "PENDING"
    BY <1>2, <1>6 DEF InStep, TerminalStatuses
  <1>13. e.queue = "PERSONAL" => e.assignee # None
    BY <1>3 DEF InStep
  <1>14. target = "QC_PENDING" => e.submitter \in Users /\ (d.assignee # None => e.submitter = d.assignee)
    BY <1>3 DEF Dockets
  <1>15. InStep(e)
    BY <1>3, <1>4, <1>6, <1>9, <1>13, <1>14, NoneAssumption DEF InStep
  <1>16. target \notin {"QC_PENDING", "PENDING", "CLOSED"} => e.assignee = None
    BY <1>1, <1>3, <1>4, <1>9
  <1>17. target \in {"PENDING", "CLOSED"} => Stays(d, e)
    BY <1>1, <1>3, <1>4 DEF Stays
  <1> QED
    BY <1>3, <1>8, <1>9, <1>10, <1>11, <1>12, <1>14, <1>15, <1>16, <1>17 DEF e

-----------------------------------------------------------------------------
(* The steps.                                                                 *)

\* A request answers and has left the docket in step.
LEMMA FinishAlone ==
  ASSUME TypeInv, AloneInv, NEW h \in Handlers, NEW outcome, Finish(h, outcome),
         req[h].phase # "idle", InStep(docket')
  PROVE  AloneInv'
  <1>1. req' = [req EXCEPT ![h] = Idle]
    BY DEF Finish
  <1>2. Alone(Idle, docket')
    BY IdleAlone DEF Idle
  <1>3. \A k \in Handlers \ {h} : req[k].phase = "idle"
    BY OthersIdle
  <1> HIDE DEF Idle
  <1> QED
    BY <1>1, <1>2, <1>3, BusyAlone

\* It answers and has left the docket alone.
LEMMA RefusedAlone ==
  ASSUME TypeInv, AloneInv, NEW h \in Handlers, NEW outcome, Finish(h, outcome),
         req[h].phase # "idle", outcome # "ok", UNCHANGED docket
  PROVE  AloneInv' /\ Promised
  <1>1. InStep(docket')
    BY DEF AloneInv
  <1>2. reply'.outcome # "ok"
    BY DEF Finish, Answer
  <1> QED
    BY <1>1, <1>2, FinishAlone, RestPromised

\* It goes on to a phase in which it knows what it should.
LEMMA GoesOnAlone ==
  ASSUME TypeInv, AloneInv, NEW h \in Handlers, NEW r, req' = [req EXCEPT ![h] = r],
         req[h].phase # "idle", UNCHANGED docket, NoAnswer, Alone(r, docket)
  PROVE  AloneInv' /\ Promised
  <1>1. /\ InStep(docket') /\ Alone(r, docket')
        /\ \A k \in Handlers \ {h} : req[k].phase = "idle"
    BY OthersIdle DEF AloneInv
  <1>2. AloneInv'
    BY <1>1, BusyAlone
  <1>3. reply'.outcome # "ok"
    BY DEF NoAnswer, Answer
  <1> QED
    BY <1>2, <1>3, RestPromised

LEMMA ReadAlone ==
  ASSUME TypeInv, AloneInv, NEW h \in Handlers, Load(h) \/ Validate(h) \/ ReadReassign(h)
  PROVE  AloneInv' /\ Promised
  <1>1. req[h] \in Requests /\ Alone(req[h], docket)
    BY DEF TypeInv, TypeOK, AloneInv
  <1>2. CASE Load(h)
    <2> DEFINE r == [req[h] EXCEPT !.phase = "validate", !.snap = docket]
    <2>1. /\ req[h].phase = "load" /\ req' = [req EXCEPT ![h] = r]
          /\ NoAnswer /\ UNCHANGED docket
      BY <1>2 DEF Load, TypeInv, TypeOK
    <2>2. /\ r.phase = "validate" /\ r.snap = docket /\ r.op = req[h].op
          /\ r.target = req[h].target
      BY <1>1 DEF Requests
    <2> HIDE DEF r
    <2>3. Alone(r, docket)
      BY <1>1, <2>1, <2>2 DEF Alone, GuardedPhases, HasRead
    <2> QED
      BY <2>1, <2>3, GoesOnAlone
  <1>3. CASE Validate(h)
    <2> DEFINE r == [req[h] EXCEPT !.phase = "commit"]
    <2>1. req[h].phase = "validate" /\ UNCHANGED docket
      BY <1>3 DEF Validate
    <2>2. CASE /\ IsValidTransition(docket.lifecycle, ToLifecycleFromStatus(req[h].target))
               /\ req' = [req EXCEPT ![h].phase = "commit"]
               /\ NoAnswer
      <3>1. req' = [req EXCEPT ![h] = r]
        BY <2>2
      <3>2. /\ r.phase = "commit" /\ r.snap = req[h].snap /\ r.op = req[h].op
            /\ r.target = req[h].target
        BY <1>1 DEF Requests
      <3> HIDE DEF r
      <3>3. Alone(r, docket)
        BY <1>1, <2>1, <2>2, <3>2 DEF Alone, GuardedPhases, HasRead
      <3> QED
        BY <2>1, <2>2, <3>1, <3>3, GoesOnAlone
    <2>3. CASE Finish(h, "refused")
      BY <2>1, <2>3, RefusedAlone
    <2> QED
      BY <1>3, <2>2, <2>3 DEF Validate
  <1>4. CASE ReadReassign(h)
    <2> DEFINE r == [req[h] EXCEPT !.phase = "save", !.snap = docket]
    <2>1. /\ req[h].phase = "read" /\ req' = [req EXCEPT ![h] = r]
          /\ NoAnswer /\ UNCHANGED docket
      BY <1>4 DEF ReadReassign, TypeInv, TypeOK
    <2>2. r.phase = "save" /\ r.snap = docket /\ r.op = req[h].op
      BY <1>1 DEF Requests
    <2> HIDE DEF r
    <2>3. Alone(r, docket)
      BY <1>1, <2>1, <2>2 DEF Alone, GuardedPhases, HasRead, SaveOps
    <2> QED
      BY <2>1, <2>3, GoesOnAlone
  <1> QED
    BY <1>2, <1>3, <1>4

\* What Worklist asks of a step that completes an operation.
LEMMA DeedPromised ==
  ASSUME NEW op, reply' = [op |-> op, outcome |-> "ok"],
         docket \in Dockets, docket' \in Dockets,
         LET d == docket
             e == docket'
         IN \/ /\ op \in {"Pull", "BulkPull"} /\ d.status \in {"UNASSIGNED", "ROUTED"}
               /\ e.status \in {"ASSIGNED", "ROUTED_ASSIGNED"} /\ d.assignee = None
               /\ e.assignee \in Users /\ e.submitter = d.submitter
            \/ /\ op \in {"Reassign", "ReassignCase"} /\ d.status # "FILED"
               /\ e.status = d.status /\ e.assignee \in Users /\ e.submitter = d.submitter
            \/ /\ op = "Move" /\ d.status \notin {"RESOLVED", "FILED"}
               /\ e.submitter = d.submitter
               /\ \/ e.assignee = None /\ e.status = d.status
                  \/ e.assignee \in Users /\ e.status = "ASSIGNED"
            \/ /\ op \in {"Unassign", "Deactivate"} /\ d.status \notin {"RESOLVED", "FILED"}
               /\ e.status \in {"UNASSIGNED", "ROUTED"}
               /\ e.assignee = None /\ e.submitter = d.submitter
            \/ /\ op = "Pend" /\ d.status \in {"ASSIGNED", "OPEN", "IN_PROGRESS"}
               /\ e.status = "PENDING" /\ Stays(d, e)
            \/ /\ op \in {"Unpend", "AutoReopen", "ReopenDue", "EmailReopen"}
               /\ d.status = "PENDING" /\ Stays(d, e)
               /\ e.status \in {"ASSIGNED", "ROUTED", "UNASSIGNED", "IN_PROGRESS"}
            \/ /\ \/ op = "File" /\ e.status = "FILED"
                  \/ op = "Close" /\ e.status = "CLOSED"
               /\ d.status \notin TerminalStatuses \cup {"PENDING", "QC_PENDING"}
               /\ Stays(d, e)
            \/ /\ op = "QcFail" /\ d.status = "QC_PENDING" /\ e.status = "IN_PROGRESS"
               /\ e.assignee = d.submitter /\ e.assignee # None /\ e.submitter = d.submitter
            \/ /\ op = "Transition" /\ e.status # "FILED" /\ e.status # "RESOLVED"
               /\ d.status \notin TerminalStatuses \cup {"QC_PENDING"}
               /\ \/ /\ e.status = "QC_PENDING" /\ d.status # "PENDING" /\ e.assignee = None
                     /\ e.submitter \in Users /\ (d.assignee # None => e.submitter = d.assignee)
                  \/ e.status = "PENDING" /\ Stays(d, e)
                  \/ e.status = "CLOSED" /\ d.status # "PENDING" /\ Stays(d, e)
                  \/ /\ e.status \notin {"QC_PENDING", "PENDING", "CLOSED"}
                     /\ e.assignee = None /\ e.submitter = d.submitter
  PROVE  Promised
  <1>1. (IF reply'.outcome = "ok" THEN reply'.op ELSE "none") = op
    OBVIOUS
  <1>2. ASSUME NEW s \in Statuses
        PROVE  /\ s \in TerminalStatuses => Stage(s) = s
               /\ s = "PENDING" => Stage(s) = "pending"
               /\ s = "QC_PENDING" => Stage(s) = "qc"
               /\ s \notin TerminalStatuses \cup {"PENDING", "QC_PENDING"} => Stage(s) = "open"
    BY DEF Stage, TerminalStatuses
  <1>3. /\ docket.status \in Statuses /\ docket'.status \in Statuses
        /\ docket.assignee \in Users \cup {None}
    BY DEF Dockets
  <1> DEFINE before == Stage(docket.status)
             after  == Stage(docket'.status)
  <1>4. /\ docket.status \in TerminalStatuses => before = docket.status
        /\ docket.status = "PENDING" => before = "pending"
        /\ docket.status = "QC_PENDING" => before = "qc"
        /\ docket.status \notin TerminalStatuses \cup {"PENDING", "QC_PENDING"} => before = "open"
        /\ docket'.status \in TerminalStatuses => after = docket'.status
        /\ docket'.status = "PENDING" => after = "pending"
        /\ docket'.status = "QC_PENDING" => after = "qc"
        /\ docket'.status \notin TerminalStatuses \cup {"PENDING", "QC_PENDING"} => after = "open"
    BY <1>2, <1>3
  <1>5. Desk!Next
    <2> SUFFICES ASSUME ~Desk!Next PROVE FALSE
      OBVIOUS
    <2>1. CASE op \in {"Pull", "BulkPull"}
      <3>1. Desk!Take
        BY <1>1, <1>4, <2>1 DEF Desk!Take, TerminalStatuses
      <3> QED
        BY <3>1 DEF Desk!Next
    <2>2. CASE op \in {"Reassign", "ReassignCase"}
      <3>1. Desk!Hand
        BY <1>1, <1>3, <1>4, <2>2 DEF Desk!Hand, TerminalStatuses
      <3> QED
        BY <3>1 DEF Desk!Next
    <2>3. CASE op = "Move"
      <3>1. Desk!Move
        BY <1>1, <1>3, <1>4, <2>3, NoneAssumption DEF Desk!Move, Desk!Final, TerminalStatuses
      <3> QED
        BY <3>1 DEF Desk!Next
    <2>4. CASE op \in {"Unassign", "Deactivate"}
      <3>1. Desk!Release
        BY <1>1, <1>3, <1>4, <2>4 DEF Desk!Release, Desk!Final, TerminalStatuses
      <3> QED
        BY <3>1 DEF Desk!Next
    <2>5. CASE op = "Pend"
      <3>1. Desk!Pend
        BY <1>1, <1>4, <2>5 DEF Desk!Pend, Stays, TerminalStatuses
      <3> QED
        BY <3>1 DEF Desk!Next
    <2>6. CASE op \in {"Unpend", "AutoReopen", "ReopenDue", "EmailReopen"}
      <3>1. Desk!Resume
        BY <1>1, <1>4, <2>6 DEF Desk!Resume, Stays, TerminalStatuses
      <3> QED
        BY <3>1 DEF Desk!Next
    <2>7. CASE op \in {"File", "Close"}
      <3>1. Desk!End
        BY <1>1, <1>4, <2>7 DEF Desk!End, Stays, TerminalStatuses
      <3> QED
        BY <3>1 DEF Desk!Next
    <2>8. CASE op = "QcFail"
      <3>1. Desk!Return
        BY <1>1, <1>4, <2>8 DEF Desk!Return, TerminalStatuses
      <3> QED
        BY <3>1 DEF Desk!Next
    <2>9. CASE op = "Transition"
      <3>1. CASE docket'.status = "QC_PENDING"
        <4>1. Desk!Submit
          BY <1>1, <1>4, <2>9, <3>1 DEF Desk!Submit, TerminalStatuses
        <4> QED
          BY <4>1 DEF Desk!Next
      <3>2. CASE docket'.status = "PENDING"
        <4>1. Desk!Pend
          BY <1>1, <1>4, <2>9, <3>2 DEF Desk!Pend, Stays, TerminalStatuses
        <4> QED
          BY <4>1 DEF Desk!Next
      <3>3. CASE docket'.status = "CLOSED"
        <4>1. Desk!End
          BY <1>1, <1>4, <2>9, <3>3 DEF Desk!End, Stays, TerminalStatuses
        <4> QED
          BY <4>1 DEF Desk!Next
      <3>4. CASE docket'.status \notin {"QC_PENDING", "PENDING", "CLOSED"}
        <4>1. Desk!Route
          BY <1>1, <1>4, <2>9, <3>4 DEF Desk!Route, TerminalStatuses
        <4> QED
          BY <4>1 DEF Desk!Next
      <3> QED
        BY <3>1, <3>2, <3>3, <3>4
    <2> QED
      BY <2>1, <2>2, <2>3, <2>4, <2>5, <2>6, <2>7, <2>8, <2>9
  <1> QED
    BY <1>5 DEF Promised

LEMMA CommitAlone ==
  ASSUME TypeInv, AloneInv, NEW h \in Handlers, Commit(h), TypeInv'
  PROVE  AloneInv' /\ Promised
  <1> DEFINE r == req[h]
  <1>1. /\ r \in Requests /\ Alone(r, docket) /\ docket \in Dockets /\ docket' \in Dockets
        /\ r.phase = "commit" /\ InStep(docket)
    BY DEF TypeInv, TypeOK, AloneInv, Commit
  <1>2. /\ r.snap = docket /\ Asked(r.op, r.target, docket.status)
        /\ IsValidTransition(docket.lifecycle, ToLifecycleFromStatus(r.target))
    BY <1>1 DEF Alone, HasRead, GuardedPhases
  <1>3. docket.version = r.snap.version
    BY <1>2
  <1>4. docket' = GuardedUpdate(docket, r) /\ Finish(h, "ok")
    BY <1>3 DEF Commit
  <1> HIDE DEF r
  <1>5. /\ InStep(docket') /\ docket'.submitter = docket.submitter /\ docket'.status = r.target
        /\ docket'.assignee = IF r.op = "Unassign" THEN None ELSE docket.assignee
        /\ docket.status \notin TerminalStatuses
        /\ r.op \in {"File", "Close"} => docket.status \notin {"PENDING", "QC_PENDING"}
    BY <1>1, <1>2, <1>4, GuardedAlone
  <1>6. AloneInv'
    BY <1>1, <1>4, <1>5, FinishAlone DEF r
  <1>7. reply' = [op |-> r.op, outcome |-> "ok"]
    BY <1>4 DEF Finish, Answer, r
  <1>8. r.op # "Unassign" => Stays(docket, docket')
    BY <1>5 DEF Stays
  <1>9. Promised
    <2>1. CASE r.op = "Pend"
      <3>1. docket.status \in {"ASSIGNED", "OPEN", "IN_PROGRESS"} /\ docket'.status = "PENDING"
        BY <1>2, <1>5, <2>1 DEF Asked
      <3> QED
        BY <1>1, <1>7, <1>8, <2>1, <3>1, DeedPromised
    <2>2. CASE r.op \in {"File", "Close"}
      <3>1. /\ \/ r.op = "File" /\ docket'.status = "FILED"
               \/ r.op = "Close" /\ docket'.status = "CLOSED"
            /\ docket.status \notin TerminalStatuses \cup {"PENDING", "QC_PENDING"}
        BY <1>2, <1>5, <2>2 DEF Asked
      <3> QED
        BY <1>1, <1>7, <1>8, <2>2, <3>1, DeedPromised
    <2>3. CASE r.op \in {"Unpend", "AutoReopen"}
      <3>1. /\ docket.status = "PENDING"
            /\ docket'.status \in {"ASSIGNED", "ROUTED", "UNASSIGNED", "IN_PROGRESS"}
        BY <1>2, <1>5, <2>3 DEF Asked
      <3> QED
        BY <1>1, <1>7, <1>8, <2>3, <3>1, DeedPromised
    <2>4. CASE r.op = "Unassign"
      <3>1. /\ docket.status \notin {"RESOLVED", "FILED"}
            /\ docket'.status \in {"UNASSIGNED", "ROUTED"}
        BY <1>2, <1>5, <2>4 DEF Asked, TerminalStatuses
      <3>2. docket'.assignee = None /\ docket'.submitter = docket.submitter
        BY <1>5, <2>4
      <3> QED
        BY <1>1, <1>7, <2>4, <3>1, <3>2, DeedPromised
    <2> QED
      BY <1>2, <2>1, <2>2, <2>3, <2>4 DEF Asked
  <1> QED
    BY <1>6, <1>9

LEMMA SaveAlone ==
  ASSUME TypeInv, AloneInv, NEW h \in Handlers, Save(h), TypeInv'
  PROVE  AloneInv' /\ Promised
  <1> DEFINE r == req[h]
  <1>1. /\ r \in Requests /\ ReqOK(r) /\ Alone(r, docket)
        /\ docket \in Dockets /\ docket' \in Dockets
        /\ r.phase = "save" /\ InStep(docket)
    BY DEF TypeInv, TypeOK, AloneInv, Save
  <1>2. /\ r.snap = docket /\ r.op \in SaveOps /\ docket.status # "FILED"
        /\ r.op \in {"QcPass", "QcFail"} => docket.status = "QC_PENDING"
        /\ r.op \in {"Reassign", "ReassignCase"} => r.user \in Users
    BY <1>1 DEF Alone, HasRead, ReqOK
  <1>3. CASE UNCHANGED docket /\ \E outcome \in {"refused", "invalid", "conflict"} : Finish(h, outcome)
    BY <1>1, <1>3, RefusedAlone
  <1>4. CASE /\ ~EditRefused(r)
             /\ docket' = SavedDocket(docket, r.snap, Edited(r))
             /\ Finish(h, "ok")
    <2> HIDE DEF r
    <2>1. /\ InStep(docket') /\ docket'.submitter = docket.submitter
          /\ r.op # "QcPass"
          /\ r.op \in {"Reassign", "ReassignCase"} => /\ docket'.assignee \in Users
                                                      /\ docket'.status = docket.status
          /\ r.op = "QcFail" => /\ docket'.assignee = docket.submitter /\ docket'.assignee # None
                                /\ docket'.status = "IN_PROGRESS"
      BY <1>1, <1>2, <1>4, EditedAlone
    <2>2. AloneInv'
      BY <1>1, <1>4, <2>1, FinishAlone DEF r
    <2>3. reply' = [op |-> r.op, outcome |-> "ok"]
      BY <1>4 DEF Finish, Answer, r
    <2>4. r.op \in {"Reassign", "ReassignCase", "QcFail"}
      BY <1>2, <2>1 DEF SaveOps
    <2>5. Promised
      BY <1>1, <1>2, <2>1, <2>3, <2>4, DeedPromised
    <2> QED
      BY <2>2, <2>5
  <1> QED
    BY <1>3, <1>4 DEF Save

LEMMA WriteAlone ==
  ASSUME TypeInv, AloneInv, NEW h \in Handlers, Write(h), TypeInv'
  PROVE  AloneInv' /\ Promised
  <1> DEFINE r == req[h]
  <1>1. /\ r \in Requests /\ Alone(r, docket) /\ docket \in Dockets /\ docket' \in Dockets
        /\ r.phase = "write" /\ InStep(docket) /\ Finish(h, "ok")
        /\ r.user \in Users \cup {None}
    BY DEF TypeInv, TypeOK, AloneInv, Write, Requests
  <1>2. /\ r.snap = docket
        /\ reply' = [op |-> r.op, outcome |-> "ok"]
    BY <1>1 DEF Alone, HasRead, Finish, Answer
  <1>3. InStep(docket') => AloneInv'
    BY <1>1, FinishAlone
  <1>4. CASE r.op = "Move" /\ docket.status # "FILED"
    <2>1. docket' = MovedDocket(docket, r.user)
      BY <1>4 DEF Write
    <2> HIDE DEF r
    <2>2. CASE r.user # None
      <3>1. /\ docket'.assignee = r.user /\ docket'.status = "ASSIGNED"
            /\ docket'.submitter = docket.submitter /\ docket'.state = "IN_PROGRESS"
        BY <1>1, <2>1, <2>2 DEF MovedDocket, Dockets
      <3>2. InStep(docket')
        BY <2>2, <3>1 DEF InStep, TerminalStatuses
      <3>3. Promised
        BY <1>1, <1>2, <1>4, <2>2, <3>1, DeedPromised DEF InStep
      <3> QED
        BY <1>3, <3>2, <3>3
    <2>3. CASE r.user = None
      <3>1. /\ docket'.assignee = None /\ docket'.status = docket.status
            /\ docket'.submitter = docket.submitter /\ docket'.queue = "GLOBAL"
            /\ docket'.state = docket.state /\ docket'.lifecycle = docket.lifecycle
        BY <1>1, <2>1, <2>3 DEF MovedDocket, Dockets
      <3>2. InStep(docket')
        BY <1>1, <3>1 DEF InStep
      <3>3. Promised
        BY <1>1, <1>2, <1>4, <3>1, DeedPromised DEF InStep
      <3> QED
        BY <1>3, <3>2, <3>3
    <2> QED
      BY <2>2, <2>3
  <1>5. CASE r.op = "Deactivate" /\ docket.status # "FILED"
    <2>1. docket' = DeactivatedDocket(docket)
      BY <1>5 DEF Write
    <2> HIDE DEF r
    <2>2. /\ docket'.assignee = None /\ docket'.status = "UNASSIGNED"
          /\ docket'.queue = "GLOBAL" /\ docket'.submitter = docket.submitter
          /\ docket'.state = "IN_WB"
      BY <1>1, <2>1 DEF DeactivatedDocket, Dockets
    <2>3. InStep(docket')
      BY <2>2 DEF InStep, TerminalStatuses
    <2>4. Promised
      BY <1>1, <1>2, <1>5, <2>2, DeedPromised DEF InStep
    <2> QED
      BY <1>3, <2>3, <2>4
  <1>6. CASE /\ r.op \in {"ReopenDue", "EmailReopen"} /\ docket.status = "PENDING"
             /\ r.target \in {"ASSIGNED", "ROUTED", "UNASSIGNED", "IN_PROGRESS"}
    <2>1. docket' = ReopenedDocket(docket, r)
      BY <1>6 DEF Write
    <2> HIDE DEF r
    <2>2. /\ docket'.assignee = docket.assignee /\ docket'.status = r.target
          /\ docket'.queue = (IF docket.assignee # None THEN "PERSONAL" ELSE "GLOBAL")
          /\ docket'.submitter = docket.submitter /\ docket'.state \in {"IN_WB", "IN_PROGRESS"}
      BY <1>1, <1>2, <2>1 DEF ReopenedDocket, Dockets
    <2>3. InStep(docket')
      BY <1>6, <2>2 DEF InStep, TerminalStatuses
    <2>4. Promised
      BY <1>1, <1>2, <1>6, <2>2, DeedPromised DEF Stays
    <2> QED
      BY <1>3, <2>3, <2>4
  <1> QED
    BY <1>1, <1>4, <1>5, <1>6 DEF Alone

LEMMA AtomicsAlone ==
  ASSUME TypeInv, AloneInv, AllIdle, Pull \/ BulkPull \/ Transition \/ TimePasses, TypeInv'
  PROVE  AloneInv' /\ Promised
  <1>1. docket \in Dockets /\ docket' \in Dockets /\ InStep(docket) /\ UNCHANGED req
    BY DEF TypeInv, TypeOK, AloneInv, Pull, BulkPull, Transition, TimePasses
  <1>2. InStep(docket') => AloneInv'
    BY <1>1, OutsideAlone
  <1>3. CASE Pull
    <2> PICK u \in Users :
             docket' = [Assigned(docket, u, "ASSIGNED") EXCEPT !.version = @ + 1]
      BY <1>3 DEF Pull
    <2>1. /\ docket'.assignee = u /\ docket'.status = "ASSIGNED"
          /\ docket'.submitter = docket.submitter /\ docket'.state = "IN_PROGRESS"
      BY <1>1 DEF Assigned, Dockets
    <2>2. /\ reply' = [op |-> "Pull", outcome |-> "ok"]
          /\ docket.status = "UNASSIGNED" /\ docket.assignee = None
      BY <1>3 DEF Pull, Answer
    <2>3. InStep(docket')
      BY <2>1, NoneAssumption DEF InStep, TerminalStatuses
    <2>4. Promised
      BY <1>1, <2>1, <2>2, DeedPromised
    <2> QED
      BY <1>2, <2>3, <2>4
  <1>4. CASE BulkPull
    <2> DEFINE status == IF docket.status = "ROUTED" THEN "ROUTED_ASSIGNED" ELSE "ASSIGNED"
    <2> PICK u \in Users : docket' = Assigned(docket, u, status)
      BY <1>4 DEF BulkPull
    <2>1. /\ docket'.assignee = u /\ docket'.status \in {"ASSIGNED", "ROUTED_ASSIGNED"}
          /\ docket'.submitter = docket.submitter /\ docket'.state = "IN_PROGRESS"
      BY <1>1 DEF Assigned, Dockets
    <2>2. /\ reply' = [op |-> "BulkPull", outcome |-> "ok"]
          /\ docket.status \in {"UNASSIGNED", "ROUTED"} /\ docket.assignee = None
      BY <1>4 DEF BulkPull, Answer
    <2>3. InStep(docket')
      BY <2>1, NoneAssumption DEF InStep, TerminalStatuses
    <2>4. Promised
      BY <1>1, <2>1, <2>2, DeedPromised
    <2> QED
      BY <1>2, <2>3, <2>4
  <1>5. CASE Transition
    <2>1. CASE UNCHANGED docket /\ reply'.outcome # "ok"
      <3>1. InStep(docket')
        BY <1>1, <2>1
      <3> QED
        BY <1>2, <2>1, <3>1, RestPromised
    <2>2. CASE \E target \in Statuses \ {"OPEN", "RESOLVED"}, actor \in Users, date \in Dates :
                 /\ TransitionAllowed(target)
                 /\ docket' = Transitioned(docket, target, actor, date)
                 /\ Answer("Transition", "ok")
      <3> PICK target \in Statuses \ {"OPEN", "RESOLVED"}, actor \in Users, date \in Dates :
                 /\ TransitionAllowed(target)
                 /\ docket' = Transitioned(docket, target, actor, date)
                 /\ Answer("Transition", "ok")
        BY <2>2
      <3> DEFINE e == Transitioned(docket, target, actor, date)
      <3>1. /\ InStep(e) /\ e.status = target
            /\ docket.status \notin TerminalStatuses /\ target # "FILED"
            /\ target = "QC_PENDING" =>
                 /\ docket.status # "PENDING" /\ docket.status # "QC_PENDING"
                 /\ e.assignee = None /\ e.submitter \in Users
                 /\ docket.assignee # None => e.submitter = docket.assignee
            /\ target = "PENDING" => docket.status # "QC_PENDING" /\ Stays(docket, e)
            /\ target = "CLOSED" => /\ docket.status \notin {"PENDING", "QC_PENDING"}
                                    /\ Stays(docket, e)
            /\ target \notin {"QC_PENDING", "PENDING", "CLOSED"} =>
                 /\ docket.status # "QC_PENDING"
                 /\ e.assignee = None /\ e.submitter = docket.submitter
        BY <1>1, TransitionAlone
      <3>2. reply' = [op |-> "Transition", outcome |-> "ok"] /\ docket' = e
        BY DEF Answer
      <3> HIDE DEF e
      <3>3. InStep(docket')
        BY <3>1, <3>2
      <3>4. Promised
        <4>1. CASE target = "QC_PENDING"
          BY <1>1, <3>1, <3>2, <4>1, DeedPromised
        <4>2. CASE target # "QC_PENDING"
          BY <1>1, <3>1, <3>2, <4>2, DeedPromised DEF Stays
        <4> QED
          BY <4>1, <4>2
      <3> QED
        BY <1>2, <3>3, <3>4
    <2> QED
      <3>1. \E target \in Statuses \ {"OPEN"}, actor \in Users, date \in {"none", "later"} :
              \/ UNCHANGED docket /\ (\E outcome \in {"crashed", "refused", "invalid"} :
                                        Answer("Transition", outcome))
              \/ /\ target # "RESOLVED" /\ TransitionAllowed(target)
                 /\ docket' = Transitioned(docket, target, actor, date)
                 /\ Answer("Transition", "ok")
        BY <1>5 DEF Transition
      <3> QED
        BY <2>1, <2>2, <3>1 DEF Answer, Dates
  <1>6. CASE TimePasses
    <2>1. /\ docket'.status = docket.status /\ docket'.assignee = docket.assignee
          /\ docket'.submitter = docket.submitter /\ docket'.queue = docket.queue
          /\ docket'.state = docket.state /\ docket'.lifecycle = docket.lifecycle
          /\ reply'.outcome = "none"
      BY <1>1, <1>6 DEF TimePasses, Dockets, NoAnswer, Answer
    <2>2. InStep(docket')
      BY <1>1, <2>1 DEF InStep
    <2>3. Desk!Rest
      BY <2>1 DEF Desk!Rest
    <2>4. Promised
      BY <2>3 DEF Promised, Desk!Next
    <2> QED
      BY <1>2, <2>2, <2>4
  <1> QED
    BY <1>3, <1>4, <1>5, <1>6

\* A step taken alone is one of those of Next.
LEMMA AloneIsNext == [NextAlone]_vars => [Next]_vars
  BY DEF NextAlone, Next

LEMMA StepAlone == TypeInv /\ AloneInv /\ [NextAlone]_vars => AloneInv' /\ Promised
  <1> SUFFICES ASSUME TypeInv, AloneInv, [NextAlone]_vars PROVE AloneInv' /\ Promised
    OBVIOUS
  <1>1. TypeInv'
    BY StepTyped, AloneIsNext
  <1>2. ASSUME NEW h \in Handlers, Handle(h) PROVE AloneInv' /\ Promised
    BY <1>1, <1>2, ReadAlone, CommitAlone, SaveAlone, WriteAlone DEF Handle
  <1>3. ASSUME NEW h \in Handlers, AllIdle, StartGuarded(h) \/ StartSave(h) \/ StartBlind(h)
        PROVE  AloneInv' /\ Promised
    BY <1>3, StartsAlone
  <1>4. CASE AllIdle /\ (Pull \/ BulkPull \/ Transition \/ TimePasses)
    BY <1>1, <1>4, AtomicsAlone
  <1>5. CASE UNCHANGED vars
    <2>1. AloneInv'
      BY <1>5 DEF vars, AloneInv, OneBusy, Alone, InStep
    <2>2. Promised
      BY <1>5 DEF vars, Promised, Desk!vars
    <2> QED
      BY <2>1, <2>2
  <1> QED
    BY <1>2, <1>3, <1>4, <1>5 DEF NextAlone

LEMMA AlwaysAlone == SpecAlone => [](TypeInv /\ AloneInv) /\ [][Promised]_vars
  <1>1. TypeInv /\ AloneInv /\ [NextAlone]_vars => (TypeInv /\ AloneInv)' /\ [Promised]_vars
    BY StepAlone, StepTyped, AloneIsNext
  <1>2. Init => TypeInv /\ AloneInv
    BY InitTyped, InitAlone
  <1> QED
    BY <1>1, <1>2, PTL DEF SpecAlone

\* A docket in a personal queue has an owner, whatever operations came before, as
\* long as they do not overlap (the schema's rule, which blind updates do not check).
THEOREM AlonePersonalHasOwner == SpecAlone => []PersonalHasOwner
  <1>1. AloneInv => PersonalHasOwner
    BY DEF AloneInv, InStep, PersonalHasOwner
  <1> QED
    BY <1>1, AlwaysAlone, PTL

\* One request at a time, status and state are FILED together, and the lifecycle of
\* a filed docket is DONE.
THEOREM AloneFiledAgrees == SpecAlone => []FiledAgrees
  <1>1. AloneInv => FiledAgrees
    BY DEF AloneInv, InStep, FiledAgrees, TerminalStatuses
  <1> QED
    BY <1>1, AlwaysAlone, PTL

\* Each of the seventeen operations does to a docket what Worklist promises of it, in
\* whatever order they come.
THEOREM AloneKeepsWorklist == SpecAlone => KeepsWorklist
  <1>1. SpecAlone => [][Desk!Next]_(Desk!vars)
    <2>1. [Promised]_vars => [Desk!Next]_(Desk!vars)
      BY DEF Promised, vars, Desk!vars
    <2> QED
      BY <2>1, AlwaysAlone, PTL
  <1>2. SpecAlone => Desk!Init
    BY InitAlone DEF SpecAlone
  <1> QED
    BY <1>1, <1>2 DEF KeepsWorklist, Desk!Spec

\* Reopening keeps the owner: what Worklist promises of it.
THEOREM AloneReopenKeepsOwner == SpecAlone => ReopenKeepsOwner
  <1>1. Promised => (Completes({"Unpend", "AutoReopen", "ReopenDue", "EmailReopen"}) =>
                       docket'.assignee = docket.assignee)
    BY DEF Promised, Completes, Desk!Next, Desk!vars, Desk!Rest, Desk!Take, Desk!Hand,
           Desk!Move, Desk!Release, Desk!Pend, Desk!Resume, Desk!End, Desk!Route,
           Desk!Submit, Desk!Return
  <1>2. [Promised]_vars => [Completes({"Unpend", "AutoReopen", "ReopenDue", "EmailReopen"}) =>
                              docket'.assignee = docket.assignee]_vars
    BY <1>1
  <1> QED
    BY <1>2, AlwaysAlone, PTL DEF ReopenKeepsOwner

\* A filed docket is final: no promise of Worklist undoes a filing.
THEOREM AloneFiledIsFinal == SpecAlone => FiledIsFinal
  <1>1. TypeInv /\ TypeInv' /\ Promised => (docket.status = "FILED" => docket'.status = "FILED")
    <2> SUFFICES ASSUME TypeInv, TypeInv', Promised, docket.status = "FILED"
                 PROVE  docket'.status = "FILED"
      OBVIOUS
    <2>1. Stage(docket.status) = "FILED"
      BY DEF Stage, TerminalStatuses
    <2>2. docket'.status \in Statuses
      BY DEF TypeInv, TypeOK, Dockets
    <2>3. Stage(docket'.status) = "FILED" => docket'.status = "FILED"
      BY <2>2 DEF Stage, TerminalStatuses
    <2>4. Stage(docket'.status) = "FILED"
      BY <2>1 DEF Promised, Desk!Next, Desk!vars, Desk!Rest, Desk!Take, Desk!Hand,
             Desk!Move, Desk!Release, Desk!Pend, Desk!Resume, Desk!End, Desk!Route,
             Desk!Submit, Desk!Return, Desk!Final
    <2> QED
      BY <2>3, <2>4
  <1>2. TypeInv /\ TypeInv' /\ [Promised]_vars =>
          [docket.status = "FILED" => docket'.status = "FILED"]_vars
    BY <1>1
  <1>3. SpecAlone => [](TypeInv /\ AloneInv) /\ [][Promised]_vars
    BY AlwaysAlone
  <1> QED
    BY <1>2, <1>3, PTL DEF FiledIsFinal
=============================================================================
