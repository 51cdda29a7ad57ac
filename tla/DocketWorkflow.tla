--------------------------- MODULE DocketWorkflow ---------------------------
(* One docket (a Case document) and the request handlers that move it.        *)
(*                                                                            *)
(* Handlers are Node.js callbacks that await MongoDB, so between two of their *)
(* database calls any other handler may run.  The code writes a docket in     *)
(* four ways, and each trusts something different:                            *)
(*   - guarded updates check Case.version, taken by an earlier read           *)
(*     (case.service.updateStatus / docketTransition.service);                *)
(*   - saves write the fields the handler changed and check __v, mongoose's   *)
(*     own counter (qcDecision, reassign, reassignCase);                      *)
(*   - blind updates check nothing but the document id (moveDocket,           *)
(*     reopenDuePending, the client e-mail reopen, user deactivation);        *)
(*   - single-statement and in-transaction operations are atomic              *)
(*     (pullFromWorkbench, the bulk pull, transition).                        *)
(* A handler that dies between two calls writes nothing more; since no step   *)
(* of the safety specification is obliged to happen, that is among its        *)
(* behaviours already.                                                        *)
EXTENDS DocketStates, Naturals

CONSTANTS
  Users,        \* xIDs that can own a docket
  Handlers,     \* concurrent requests in flight
  Ops,          \* the operations enabled in this instance
  MaxVersion,   \* bound on Case.version
  MaxV          \* bound on __v

GuardedOps == {"Pend", "File", "Close", "Unpend", "AutoReopen", "Unassign"}
SaveOps    == {"Reassign", "ReassignCase", "QcPass", "QcFail"}
BlindOps   == {"Move", "ReopenDue", "EmailReopen", "Deactivate"}
AtomicOps  == {"Pull", "BulkPull", "Transition"}
AllOps     == GuardedOps \cup SaveOps \cup BlindOps \cup AtomicOps

ASSUME NoneAssumption  == None \notin Users
ASSUME OpsAssumption   == Ops \subseteq AllOps
ASSUME BoundAssumption == MaxVersion \in Nat /\ MaxV \in Nat

VARIABLES
  docket,       \* the persisted document
  req,          \* what each handler is doing, and what it has read
  reply         \* what the last step answered: the operation and its outcome

vars == <<docket, req, reply>>

Dates    == {"none", "later", "due"}
\* "listed" is a member of the schema's enum for pendingReason, "freeText" is not.
Reasons  == {"none", "listed", "freeText"}
Outcomes == {"none", "ok", "refused", "conflict", "invalid", "crashed"}
Phases   == {"idle", "load", "validate", "commit", "read", "save", "write"}

Dockets == [status: Statuses, state: CanonicalStates, lifecycle: Lifecycles,
            assignee: Users \cup {None}, queue: Queues, routed: BOOLEAN,
            reopenAt: Dates, pendingUntil: Dates, pendingReason: Reasons,
            submitter: Users \cup {None},
            version: 0..MaxVersion, v: 0..MaxV]

Requests == [phase: Phases, op: AllOps \cup {"none"}, target: Statuses,
             user: Users \cup {None}, reason: Reasons, snap: Dockets \cup {None}]

Replies == [op: AllOps \cup {"none"}, outcome: Outcomes]

Idle == [phase |-> "idle", op |-> "none", target |-> "UNASSIGNED", user |-> None,
         reason |-> "none", snap |-> None]

-----------------------------------------------------------------------------
(* Dockets as the creating services persist them.                             *)

NewDocket(status, state, lifecycle, assignee, queue, routed) ==
  [status |-> status, state |-> state, lifecycle |-> lifecycle,
   assignee |-> assignee, queue |-> queue, routed |-> routed,
   reopenAt |-> "none", pendingUntil |-> "none", pendingReason |-> "none",
   submitter |-> None, version |-> 0, v |-> 0]

CreatedDockets ==
       {NewDocket("UNASSIGNED", "IN_WB", "WL", None, "GLOBAL", FALSE)}
  \cup {NewDocket("ASSIGNED", "IN_PROGRESS", "ACTIVE", u, "PERSONAL", FALSE) : u \in Users}

\* A CMS form submission: status OPEN, in the workbasket it is routed to, even
\* when the intake names a default assignee.
IntakeDockets ==
  {NewDocket("OPEN", "IN_WB", "ACTIVE", a, "GLOBAL", TRUE) : a \in Users \cup {None}}

Init ==
  /\ docket \in CreatedDockets \cup IntakeDockets
  /\ req = [h \in Handlers |-> Idle]
  /\ reply = [op |-> "none", outcome |-> "none"]

-----------------------------------------------------------------------------
(* How a handler starts, goes on and answers.                                 *)

Answer(op, outcome) == reply' = [op |-> op, outcome |-> outcome]
NoAnswer == Answer("none", "none")

Start(h, op, phase, target, user, reason, snap) ==
  /\ op \in Ops
  /\ req[h].phase = "idle"
  /\ req' = [req EXCEPT ![h] = [phase |-> phase, op |-> op, target |-> target,
                                user |-> user, reason |-> reason, snap |-> snap]]
  /\ NoAnswer
  /\ UNCHANGED docket

Finish(h, outcome) ==
  /\ req' = [req EXCEPT ![h] = Idle]
  /\ Answer(req[h].op, outcome)

IsDue(d) == d.status = "PENDING" /\ (d.reopenAt = "due" \/ d.pendingUntil = "due")

-----------------------------------------------------------------------------
(* Guarded updates.  The service checks the status it reads (the Start        *)
(* actions), updateStatus reads the docket again and keeps its version        *)
(* (Load), transitionDocket reads it a third time and checks the lifecycle    *)
(* (Validate), and the update matches only that version (Commit).             *)

StartPend(h) == \E reason \in Reasons \ {"none"} :
  /\ "PENDING" \in ActionSuccessors(docket.status)
  /\ Start(h, "Pend", "load", "PENDING", None, reason, None)

StartFile(h) == Start(h, "File", "load", "FILED", None, "none", None)

StartClose(h) ==
  /\ docket.status # "CLOSED"
  /\ Start(h, "Close", "load", "CLOSED", None, "none", None)

StartUnpend(h) == LET target == ReopenStatus(docket.assignee, docket.routed) IN
  /\ target \in ActionSuccessors(docket.status)
  /\ Start(h, "Unpend", "load", target, None, "none", None)

StartAutoReopen(h) ==
  /\ docket.status = "PENDING" /\ docket.pendingUntil = "due"
  /\ Start(h, "AutoReopen", "load", ReopenStatus(docket.assignee, docket.routed),
           None, "none", None)

\* unassignCase asks also which team routed the docket, which the model leaves open.
StartUnassign(h) == \E target \in {"UNASSIGNED", "ROUTED"} :
  /\ target = "ROUTED" => docket.routed
  /\ Start(h, "Unassign", "load", target, None, "none", None)

Load(h) ==
  /\ req[h].phase = "load"
  /\ req' = [req EXCEPT ![h].phase = "validate", ![h].snap = docket]
  /\ NoAnswer
  /\ UNCHANGED docket

Validate(h) ==
  /\ req[h].phase = "validate"
  /\ UNCHANGED docket
  /\ \/ /\ IsValidTransition(docket.lifecycle, ToLifecycleFromStatus(req[h].target))
        /\ req' = [req EXCEPT ![h].phase = "commit"]
        /\ NoAnswer
     \/ /\ ~IsValidTransition(docket.lifecycle, ToLifecycleFromStatus(req[h].target))
        /\ Finish(h, "refused")

\* The two updates of one transaction.  The state is computed from a spread of
\* the mongoose document, which carries neither its owner nor its queue.
GuardedUpdate(d, r) ==
  LET pend     == r.target = "PENDING"
      unassign == r.op = "Unassign"
  IN [d EXCEPT
        !.status        = r.target,
        !.state         = Canonical(r.target, None, None),
        !.lifecycle     = IF unassign THEN "WL"
                          ELSE InferLifecycle(r.snap.lifecycle, r.snap.assignee, r.target),
        !.assignee      = IF unassign THEN None ELSE @,
        !.queue         = IF unassign THEN "GLOBAL" ELSE @,
        !.pendingUntil  = IF pend THEN "later" ELSE "none",
        !.reopenAt      = IF pend THEN "later"
                          ELSE IF r.op \in {"Close", "Unassign"} THEN @ ELSE "none",
        !.pendingReason = IF pend THEN r.reason ELSE @,
        !.version       = @ + 1]

\* Mutant: the update's filter has lost the version.
CommitUnversioned(h) ==
  /\ req[h].phase = "commit"
  /\ docket.version < MaxVersion
  /\ docket' = GuardedUpdate(docket, req[h])
  /\ Finish(h, "ok")

Commit(h) ==
  /\ req[h].phase = "commit"
  /\ \/ /\ docket.version = req[h].snap.version
        /\ docket.version < MaxVersion
        /\ docket' = GuardedUpdate(docket, req[h])
        /\ Finish(h, "ok")
     \/ /\ docket.version # req[h].snap.version
        /\ UNCHANGED docket
        /\ Finish(h, "conflict")

-----------------------------------------------------------------------------
(* Saves.  The handler changes the document it read; save() runs the          *)
(* schema's validators on that copy, writes the paths that changed and        *)
(* matches __v.                                                               *)

\* Mutant: FILED is forgotten.
IsTerminalResolved(d) == d.status = "RESOLVED" \/ d.state = "RESOLVED"

IsTerminal(d) == \/ d.status \in {"RESOLVED", "FILED"}
                 \/ d.state \in {"RESOLVED", "FILED"}

StartReassign(h) == \E u \in Users :
  /\ ~IsTerminal(docket)
  /\ Start(h, "Reassign", "read", "UNASSIGNED", u, "none", None)

ReadReassign(h) ==
  /\ req[h].phase = "read"
  /\ req' = [req EXCEPT ![h].phase = "save", ![h].snap = docket]
  /\ NoAnswer
  /\ UNCHANGED docket

StartReassignCase(h) == \E u \in Users :
  /\ docket.status \notin {"UNASSIGNED", "ROUTED", "FILED"}
  /\ Start(h, "ReassignCase", "save", "UNASSIGNED", u, "none", docket)

StartQc(h) == \E op \in {"QcPass", "QcFail"} :
  /\ Canonical(docket.status, docket.assignee, docket.queue) = "IN_QC"
  /\ Start(h, op, "save", IF op = "QcFail" THEN "IN_PROGRESS" ELSE "RESOLVED",
           None, "none", docket)

\* Mutant: the present owner comes first.
QcOwnerPresent(d) == IF d.assignee # None THEN d.assignee ELSE d.submitter

\* Who gets back a docket that failed QC.
QcOwner(d) == IF d.submitter # None THEN d.submitter ELSE d.assignee

\* The copy of the docket as each handler leaves it.
Edited(r) ==
     CASE r.op = "Reassign"     -> [r.snap EXCEPT !.assignee = r.user,
                                                  !.state = "IN_PROGRESS",
                                                  !.queue = "PERSONAL"]
       [] r.op = "ReassignCase" -> [r.snap EXCEPT !.assignee = r.user]
       [] r.op = "QcFail"       -> [r.snap EXCEPT !.assignee = QcOwner(r.snap),
                                                  !.queue = "PERSONAL",
                                                  !.status = "IN_PROGRESS",
                                                  !.state = "IN_PROGRESS",
                                                  !.lifecycle = "ACTIVE"]
       [] OTHER                 -> [r.snap EXCEPT !.status = "RESOLVED",
                                                  !.state = "RESOLVED",
                                                  !.lifecycle = "DONE"]

\* What qcDecision refuses after its read: the lifecycle table, and an
\* IN_PROGRESS docket without an owner.
EditRefused(r) ==
  \/ r.op \in {"QcPass", "QcFail"} /\ ~IsValidTransition(r.snap.lifecycle, Edited(r).lifecycle)
  \/ r.op = "QcFail" /\ Edited(r).assignee = None

Saveable(d) ==
  /\ d.queue = "PERSONAL" => d.assignee # None
  /\ d.status = "PENDING" => d.pendingReason # "none"
  /\ d.pendingReason # "freeText"

Changed(current, old, new) == IF new # old THEN new ELSE current

\* Mutant: optimisticConcurrency is off for the write, so __v stays.
SavedUnversioned(d, old, new) ==
  [d EXCEPT !.status    = Changed(@, old.status, new.status),
            !.state     = Changed(@, old.state, new.state),
            !.lifecycle = Changed(@, old.lifecycle, new.lifecycle),
            !.assignee  = Changed(@, old.assignee, new.assignee),
            !.queue     = Changed(@, old.queue, new.queue)]

SavedDocket(d, old, new) ==
  [d EXCEPT !.status    = Changed(@, old.status, new.status),
            !.state     = Changed(@, old.state, new.state),
            !.lifecycle = Changed(@, old.lifecycle, new.lifecycle),
            !.assignee  = Changed(@, old.assignee, new.assignee),
            !.queue     = Changed(@, old.queue, new.queue),
            !.v         = @ + 1]

Save(h) ==
  /\ req[h].phase = "save"
  /\ \/ /\ EditRefused(req[h])
        /\ UNCHANGED docket
        /\ Finish(h, "refused")
     \/ /\ ~EditRefused(req[h])
        /\ ~Saveable(Edited(req[h]))
        /\ UNCHANGED docket
        /\ Finish(h, "invalid")
     \/ /\ ~EditRefused(req[h])
        /\ Saveable(Edited(req[h]))
        /\ docket.v # req[h].snap.v
        /\ UNCHANGED docket
        /\ Finish(h, "conflict")
     \/ /\ ~EditRefused(req[h])
        /\ Saveable(Edited(req[h]))
        /\ docket.v = req[h].snap.v
        /\ docket.v < MaxV
        /\ docket' = SavedDocket(docket, req[h].snap, Edited(req[h]))
        /\ Finish(h, "ok")

-----------------------------------------------------------------------------
(* Blind updates: whatever the handler read, the write matches the id alone.  *)

\* user = None moves the docket to a workbasket or a QC workbasket.
StartMove(h) == \E u \in Users \cup {None} :
  /\ ~IsTerminal(docket)
  /\ Start(h, "Move", "write", "ASSIGNED", u, "none", docket)

\* Mutant: the job looks for worklist dockets only.
StartReopenDueOwned(h) ==
  /\ IsDue(docket) /\ docket.assignee # None
  /\ Start(h, "ReopenDue", "write", "ASSIGNED", None, "none", docket)

StartReopenDue(h) ==
  /\ IsDue(docket)
  /\ Start(h, "ReopenDue", "write", ReopenStatus(docket.assignee, docket.routed),
           None, "none", docket)

StartEmailReopen(h) ==
  /\ docket.status = "PENDING"
  /\ Start(h, "EmailReopen", "write",
           IF docket.assignee # None THEN "IN_PROGRESS" ELSE "UNASSIGNED",
           None, "none", docket)

StartDeactivate(h) == \E u \in Users :
  /\ docket.assignee = u
  /\ docket.status \notin {"RESOLVED", "FILED"}
  /\ Start(h, "Deactivate", "write", "UNASSIGNED", u, "none", docket)

MovedDocket(d, user) ==
  IF user # None
  THEN [d EXCEPT !.assignee = user, !.queue = "PERSONAL", !.status = "ASSIGNED",
                 !.state = "IN_PROGRESS", !.lifecycle = "WL"]
  ELSE [d EXCEPT !.assignee = None, !.queue = "GLOBAL", !.routed = FALSE]

\* Mutant: every reopened docket goes to the workbasket.
ReopenedToWorkbasket(d, r) ==
  [d EXCEPT !.status = r.target, !.state = "IN_WB", !.queue = "GLOBAL",
            !.lifecycle = "ACTIVE", !.assignee = None,
            !.reopenAt = "none", !.pendingUntil = "none"]

ReopenedDocket(d, r) ==
  LET owned == r.snap.assignee # None
  IN [d EXCEPT !.status       = r.target,
               !.state        = IF owned THEN "IN_PROGRESS" ELSE "IN_WB",
               !.queue        = IF owned THEN "PERSONAL" ELSE "GLOBAL",
               !.lifecycle    = "ACTIVE",
               !.assignee     = IF owned THEN @ ELSE None,
               !.reopenAt     = "none",
               !.pendingUntil = "none"]

\* Mutant: the queue is left as it was.
DeactivatedKeepsQueue(d) ==
  [d EXCEPT !.assignee = None, !.state = "IN_WB", !.status = "UNASSIGNED"]

DeactivatedDocket(d) ==
  [d EXCEPT !.assignee = None, !.queue = "GLOBAL", !.state = "IN_WB",
            !.status = "UNASSIGNED"]

Write(h) ==
  /\ req[h].phase = "write"
  /\ docket' = CASE req[h].op = "Move"       -> MovedDocket(docket, req[h].user)
                 [] req[h].op = "Deactivate" -> DeactivatedDocket(docket)
                 [] OTHER                    -> ReopenedDocket(docket, req[h])
  /\ Finish(h, "ok")

-----------------------------------------------------------------------------
(* Atomic operations: one findOneAndUpdate, one updateMany in a transaction,  *)
(* and transition(), whose read and save share a transaction that MongoDB     *)
(* aborts and the driver retries on a write conflict.                         *)

Assigned(d, user, status) ==
  [d EXCEPT !.status = status, !.state = "IN_PROGRESS", !.lifecycle = "WL",
            !.assignee = user, !.queue = "PERSONAL"]

Pull == \E u \in Users :
  /\ "Pull" \in Ops
  /\ docket.status = "UNASSIGNED" /\ docket.assignee = None
  /\ docket.version < MaxVersion
  /\ docket' = [Assigned(docket, u, "ASSIGNED") EXCEPT !.version = @ + 1]
  /\ Answer("Pull", "ok")
  /\ UNCHANGED req

BulkPull == \E u \in Users :
  /\ "BulkPull" \in Ops
  /\ docket.status \in {"UNASSIGNED", "ROUTED"} /\ docket.assignee = None
  /\ docket' = Assigned(docket, u, IF docket.status = "ROUTED"
                                   THEN "ROUTED_ASSIGNED" ELSE "ASSIGNED")
  /\ Answer("BulkPull", "ok")
  /\ UNCHANGED req

\* What transition() accepts after its own checks.  It reads an undeclared
\* variable on every RESOLVED request.
TransitionAllowed(target) ==
  LET from == Canonical(docket.status, docket.assignee, docket.queue)
      to   == Canonical(target, docket.assignee, docket.queue)
  IN /\ to # "IN_PROGRESS"
     /\ from = to \/ CanTransition(from, to)
     /\ IsValidTransition(docket.lifecycle, ToLifecycleFromStatus(target))

Transitioned(d, target, actor, date) ==
  LET toQc   == target = "QC_PENDING"
      to     == Canonical(target, d.assignee, d.queue)
      unowned == toQc \/ to = "IN_WB"
      when   == IF target = "PENDING" THEN date ELSE "none"
  IN [d EXCEPT !.status       = target,
               !.state        = to,
               !.lifecycle    = ToLifecycleFromStatus(target),
               !.reopenAt     = when,
               !.pendingUntil = when,
               !.submitter    = IF toQc THEN (IF d.assignee # None THEN d.assignee ELSE actor)
                                ELSE @,
               !.assignee     = IF unowned THEN None ELSE @,
               !.queue        = IF unowned THEN "GLOBAL" ELSE @,
               !.routed       = IF toQc THEN FALSE ELSE @,
               !.v            = @ + 1]

Transition == \E target \in Statuses \ {"OPEN"}, actor \in Users, date \in {"none", "later"} :
  /\ "Transition" \in Ops
  /\ UNCHANGED req
  /\ \/ /\ target = "RESOLVED"
        /\ UNCHANGED docket
        /\ Answer("Transition", "crashed")
     \/ /\ target # "RESOLVED" /\ ~TransitionAllowed(target)
        /\ UNCHANGED docket
        /\ Answer("Transition", "refused")
     \/ /\ target # "RESOLVED" /\ TransitionAllowed(target)
        /\ ~Saveable(Transitioned(docket, target, actor, date))
        /\ UNCHANGED docket
        /\ Answer("Transition", "invalid")
     \/ /\ target # "RESOLVED" /\ TransitionAllowed(target)
        /\ Saveable(Transitioned(docket, target, actor, date))
        /\ docket.v < MaxV
        /\ docket' = Transitioned(docket, target, actor, date)
        /\ Answer("Transition", "ok")

-----------------------------------------------------------------------------
\* The clock passes the dates that are set.
TimePasses ==
  /\ "later" \in {docket.reopenAt, docket.pendingUntil}
  /\ docket' = [docket EXCEPT !.reopenAt     = IF @ = "later" THEN "due" ELSE @,
                              !.pendingUntil = IF @ = "later" THEN "due" ELSE @]
  /\ NoAnswer
  /\ UNCHANGED req

StartGuarded(h) == \/ StartPend(h) \/ StartFile(h) \/ StartClose(h)
                   \/ StartUnpend(h) \/ StartAutoReopen(h) \/ StartUnassign(h)
StartSave(h)    == \/ StartReassign(h) \/ StartReassignCase(h) \/ StartQc(h)
StartBlind(h)   == \/ StartMove(h) \/ StartReopenDue(h)
                   \/ StartEmailReopen(h) \/ StartDeactivate(h)

Handle(h) == \/ Load(h) \/ Validate(h) \/ Commit(h)
             \/ ReadReassign(h) \/ Save(h) \/ Write(h)

Next == \/ \E h \in Handlers : \/ StartGuarded(h) \/ StartSave(h) \/ StartBlind(h)
                               \/ Handle(h)
        \/ Pull \/ BulkPull \/ Transition
        \/ TimePasses

Spec == Init /\ [][Next]_vars

\* One request at a time: what the operations do when none overlaps another.
AllIdle == \A h \in Handlers : req[h].phase = "idle"

NextAlone ==
  \/ \E h \in Handlers : \/ AllIdle /\ (StartGuarded(h) \/ StartSave(h) \/ StartBlind(h))
                         \/ Handle(h)
  \/ AllIdle /\ (Pull \/ BulkPull \/ Transition \/ TimePasses)

SpecAlone == Init /\ [][NextAlone]_vars
-----------------------------------------------------------------------------
(* Properties.                                                                *)

TypeOK == docket \in Dockets /\ req \in [Handlers -> Requests] /\ reply \in Replies

\* A step that completes one of these operations.
Completes(ops) == reply'.op \in ops /\ reply'.outcome = "ok"

\* The guarded writers keep finished work finished: once RESOLVED, FILED or CLOSED
\* is persisted, no update validated before or after it gives the docket another
\* status (docketTransition.service's lifecycle check and version filter).
TerminalIsFinal ==
  [][docket.status \in TerminalStatuses => docket'.status = docket.status]_vars

\* A FILED docket is never reopened (lifecycle specification, rule R7).
FiledIsFinal == [][docket.status = "FILED" => docket'.status = "FILED"]_vars

\* The two vocabularies agree on what is finished, whichever of the two updates
\* of a status change wrote them.
TerminalMatchesLifecycle ==
  docket.status \in TerminalStatuses <=> docket.lifecycle = "DONE"

\* The three vocabularies agree on what is filed, which the lists and checks of the
\* code ask for in one or another of them: no later change of owner or queue brings
\* the state or the lifecycle of a filed docket back, and none files in one alone.
FiledAgrees ==
  /\ docket.status = "FILED" => docket.lifecycle = "DONE"
  /\ docket.status = "FILED" <=> docket.state = "FILED"

\* The lifecycle check of a guarded update, made against an earlier read, still
\* holds of the docket the update changes: this is what the version filter is for.
CommitValidated ==
  [][Completes(GuardedOps) =>
       IsValidTransition(docket.lifecycle, ToLifecycleFromStatus(docket'.status))]_vars

\* A QC decision is written on a docket that is still waiting for one.
QcDecidesOnQc == [][Completes({"QcPass", "QcFail"}) => docket.status = "QC_PENDING"]_vars

\* A docket that fails QC goes to the worklist of the user who submitted it, not
\* of whoever else owned it since.
QcReturnsToSubmitter ==
  [][Completes({"QcFail"}) => /\ docket'.assignee = docket.submitter
                              /\ docket'.queue = "PERSONAL"]_vars

\* Reopening a pended docket leaves it with its owner (worklists rule 17).
ReopenKeepsOwner ==
  [][Completes({"Unpend", "AutoReopen", "ReopenDue", "EmailReopen"}) =>
       docket'.assignee = docket.assignee]_vars

\* The schema's rule: a docket in a personal queue has an owner.
PersonalHasOwner == docket.queue = "PERSONAL" => docket.assignee # None

\* A pended docket whose date has passed is reopened (reopenDuePending, run by the
\* scheduled job).
DueIsReopened == IsDue(docket) ~> ~IsDue(docket)

\* Where a status puts a docket, in the words of Worklist.
Stage(status) == CASE status \in TerminalStatuses -> status
                   [] status = "PENDING"          -> "pending"
                   [] status = "QC_PENDING"       -> "qc"
                   [] OTHER                       -> "open"

Desk == INSTANCE Worklist WITH
  holder    <- docket.assignee,
  stage     <- Stage(docket.status),
  submitter <- docket.submitter,
  deed      <- IF reply.outcome = "ok" THEN reply.op ELSE "none"

\* Every operation does to a docket what it is for and nothing else, in any order of
\* operations, though each writes only some of its five fields.
KeepsWorklist == Desk!Spec
=============================================================================
