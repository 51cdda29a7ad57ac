---------------------------- MODULE DocketRouting ----------------------------
(* A docket handed between teams - routed, accepted, moved by a manager and   *)
(* submitted back - and the approvals asked for it meanwhile.                 *)
(*                                                                            *)
(* Every handler here reads the docket, edits its copy and save()s it: the    *)
(* fields it changed are written if __v is still the one it read.  The row    *)
(* that records a route is a second document: created after the save of the   *)
(* docket when it is routed, closed before it when it is submitted.  Pulling  *)
(* and filing are single updates that leave __v alone (DocketWorkflow).       *)
EXTENDS Integers

CONSTANTS
  None,         \* no user, no team
  Users, Teams,
  TeamOf,       \* the team of each user
  Admins,       \* users who may route a docket of any team
  Managers,     \* users who may move the dockets of their team
  Handlers,     \* concurrent requests in flight
  Ops,          \* the operations enabled in this instance
  MaxV          \* bound on __v

AllOps == {"Route", "Accept", "Pend", "Submit", "Move", "Ask", "Decide"}

ASSUME NoneAssumption == None \notin Users \cup Teams
ASSUME TeamAssumption == TeamOf \in [Users -> Teams] /\ Admins \cup Managers \subseteq Users
ASSUME OpsAssumption  == Ops \subseteq AllOps /\ MaxV \in Nat

VARIABLES
  docket,       \* the persisted document
  routes,       \* the DocketRoute rows; `at` orders them by routedAt
  req,          \* what each handler is doing, and the docket it read
  \* What no code keeps, of the docket since it was last submitted:
  router,       \* who routed it first, the original routing user
  diverted,     \* whether it was routed onward, or moved by a manager, since
  undecided     \* approvals asked for less decisions taken

vars == <<docket, routes, req, router, diverted, undecided>>

Statuses  == {"ASSIGNED", "UNASSIGNED", "ROUTED", "ROUTED_ASSIGNED", "IN_PROGRESS",
              "PENDING", "FILED"}
Approvals == {"none", "pending", "decided"}
Someone   == Users \cup {None}
SomeTeam  == Teams \cup {None}

\* ownerTeamId and workbasketId are written together: `team` stands for both.
Dockets == [status: Statuses, queue: {"GLOBAL", "PERSONAL"}, assignee: Someone,
            reason: BOOLEAN, team: SomeTeam, routedTo: SomeTeam, routedBy: Someone,
            originUser: Someone, originTeam: SomeTeam,
            approval: Approvals, v: 0..MaxV]

Requests == [pc: {"close", "save", "row"}, op: AllOps, user: Someone,
             to: SomeTeam \cup Users, snap: Dockets]

Routes == [at: 0..MaxV, to: Teams, open: BOOLEAN]

Idle == [pc |-> "idle"]

\* A docket on a worklist, of its owner's team or of none, with or without an
\* old pending reason.
Init ==
  /\ docket \in {[status |-> "ASSIGNED", queue |-> "PERSONAL", assignee |-> u,
                  reason |-> r, team |-> t, routedTo |-> None, routedBy |-> None,
                  originUser |-> None, originTeam |-> None,
                  approval |-> "none", v |-> 0] :
                 u \in Users, t \in SomeTeam, r \in BOOLEAN}
  /\ docket.team \in {None, TeamOf[docket.assignee]}
  /\ routes = {}
  /\ req = [h \in Handlers |-> Idle]
  /\ router = None /\ diverted = FALSE
  /\ undecided = 0

ghosts == <<router, diverted, undecided>>

-----------------------------------------------------------------------------
(* Reads.  Each checks the docket it reads, and that is the docket it edits.  *)

Start(h, op, pc, user, to) ==
  /\ op \in Ops /\ req[h] = Idle
  /\ req' = [req EXCEPT ![h] = [pc |-> pc, op |-> op, user |-> user, to |-> to,
                                snap |-> docket]]
  /\ UNCHANGED <<docket, routes, ghosts>>

\* routeDocket: the owner team, the routed team or an admin; not back to the
\* owner team, and never a filed docket.
StartRoute(h) == \E u \in Users, t \in Teams :
  /\ docket.status # "FILED"
  /\ u \in Admins \/ TeamOf[u] \in {docket.team, docket.routedTo}
  /\ t # docket.team
  /\ Start(h, "Route", "save", u, t)

\* acceptRoutedDocket and transitionRoutedTeamStatus.
StartRoutedTeam(h) == \E u \in Users, op \in {"Accept", "Pend"} :
  /\ TeamOf[u] = docket.routedTo
  /\ Start(h, op, "save", u, None)

\* Mutant: a docket is submitted to whoever accepted it.
OriginatorHolder(d) == d.assignee

\* returnRoutedDocket: the assigned user of the routed team.
Originator(d) == IF d.originUser # None THEN d.originUser ELSE d.routedBy

StartSubmit(h) == \E u \in Users :
  /\ TeamOf[u] = docket.routedTo /\ docket.assignee = u
  /\ Originator(docket) # None
  /\ Start(h, "Submit", "close", u, None)

\* managerMoveDocket: to a user of the manager's team, or to the workbasket.
StartMove(h) == \E u \in Managers : \E to \in {w \in Users : TeamOf[w] = TeamOf[u]} \cup {None} :
  /\ docket.team = TeamOf[u]
  /\ Start(h, "Move", "save", u, to)

\* requestApproval, and decideApproval with any of its outcomes; who asks and who
\* may decide is left open.
StartApproval(h) == \E op \in {"Ask", "Decide"} :
  /\ op = "Decide" <=> docket.approval = "pending"
  /\ Start(h, op, "save", None, None)

-----------------------------------------------------------------------------
(* Saves.                                                                     *)

(* The copy of the docket as each handler leaves it.                          *)

\* routeDocket: the docket is the other team's, and remembers where it was.
Routed(r) == [r.snap EXCEPT !.status = "ROUTED", !.queue = "GLOBAL", !.assignee = None,
                            !.team = r.to, !.routedTo = r.to, !.routedBy = r.user,
                            !.originUser = r.user, !.originTeam = r.snap.team]

\* returnRoutedDocket: back to the originator and, if it had one, to its team.
Submitted(r) == [r.snap EXCEPT !.status = "IN_PROGRESS", !.queue = "PERSONAL",
                               !.assignee = Originator(r.snap),
                               !.team = IF r.snap.originTeam # None
                                        THEN r.snap.originTeam ELSE @,
                               !.routedTo = None,
                               !.originUser = None, !.originTeam = None]

\* managerMoveDocket, to a worklist or to the workbasket; the queue is left alone.
ManagerMoved(r) == [r.snap EXCEPT !.status = IF r.to = None THEN "UNASSIGNED"
                                             ELSE "IN_PROGRESS",
                                  !.assignee = r.to, !.routedTo = TeamOf[r.user]]

Edited(r) == CASE r.op = "Route"  -> Routed(r)
               [] r.op = "Accept" -> [r.snap EXCEPT !.status = "IN_PROGRESS"]
               [] r.op = "Pend"   -> [r.snap EXCEPT !.status = "PENDING"]
               [] r.op = "Submit" -> Submitted(r)
               [] r.op = "Move"   -> ManagerMoved(r)
               [] r.op = "Ask"    -> [r.snap EXCEPT !.approval = "pending"]
               [] r.op = "Decide" -> [r.snap EXCEPT !.approval = "decided"]

\* The schema's validators.
Saveable(d) == /\ d.queue = "PERSONAL" => d.assignee # None
               /\ d.status = "PENDING" => d.reason

\* Handlers that stamp a time write even when nothing else has changed.
Stamps(r) == r.op \in {"Route", "Submit", "Ask", "Decide"}

\* save() writes the fields the handler changed in its copy.
Written(d, old, new) ==
  [f \in DOMAIN d |-> IF f = "v" THEN d.v + 1
                      ELSE IF new[f] # old[f] THEN new[f] ELSE d[f]]

\* What the history of the docket says after a save; no code keeps it.
Note(r) ==
  /\ router' = CASE r.op = "Route" /\ router = None -> r.user
                 [] r.op = "Submit"                 -> None
                 [] OTHER                           -> router
  /\ diverted' = CASE r.op = "Route"  -> router # None
                   [] r.op = "Move"   -> TRUE
                   [] r.op = "Submit" -> FALSE
                   [] OTHER           -> diverted
  /\ undecided' = CASE r.op = "Ask"    -> undecided + 1
                    [] r.op = "Decide" -> undecided - 1
                    [] OTHER           -> undecided

\* A route goes on to create its row; every other handler answers.
After(h) == req' = [req EXCEPT ![h] = IF @.op = "Route" THEN [@ EXCEPT !.pc = "row"] ELSE Idle]

\* Mutant: the write matches the docket's id alone.
SaveUnversioned(h) ==
  LET r == req[h] IN
  /\ r.pc = "save" /\ Saveable(Edited(r)) /\ docket.v < MaxV
  /\ docket' = Written(docket, r.snap, Edited(r))
  /\ Note(r) /\ After(h)
  /\ UNCHANGED routes

Save(h) ==
  LET r == req[h] IN
  /\ r.pc = "save" /\ Saveable(Edited(r))
  /\ Stamps(r) \/ Edited(r) # r.snap
  /\ docket.v = r.snap.v /\ docket.v < MaxV
  /\ docket' = Written(docket, r.snap, Edited(r))
  /\ Note(r) /\ After(h)
  /\ UNCHANGED routes

\* Invalid, overtaken by another save, or nothing to write.
SaveNothing(h) ==
  LET r == req[h] IN
  /\ r.pc = "save"
  /\ \/ ~Saveable(Edited(r))
     \/ docket.v # r.snap.v
     \/ ~Stamps(r) /\ Edited(r) = r.snap
  /\ req' = [req EXCEPT ![h] = Idle]
  /\ UNCHANGED <<docket, routes, ghosts>>

-----------------------------------------------------------------------------
(* The rows of the routes.                                                    *)

\* Mutant: the row names the team the docket was routed to before, if any.
CreateRowFrom(h) ==
  LET r == req[h] IN
  /\ r.pc = "row"
  /\ routes' = routes \cup {[at |-> r.snap.v, to |-> r.snap.routedTo, open |-> TRUE]}
  /\ req' = [req EXCEPT ![h] = Idle]
  /\ UNCHANGED <<docket, ghosts>>

\* DocketRoute.create, whose schema wants the team the docket came from.
CreateRow(h) ==
  LET r == req[h] IN
  /\ r.pc = "row"
  /\ routes' = IF r.snap.team = None THEN routes
               ELSE routes \cup {[at |-> r.snap.v, to |-> r.to, open |-> TRUE]}
  /\ req' = [req EXCEPT ![h] = Idle]
  /\ UNCHANGED <<docket, ghosts>>

Newest == {row \in routes : row.open /\ \A other \in routes : other.open => other.at <= row.at}

\* The newest open row is closed, if there is one, before the docket is saved.
CloseRow(h) ==
  /\ req[h].pc = "close"
  /\ routes' = (routes \ Newest) \cup {[row EXCEPT !.open = FALSE] : row \in Newest}
  /\ req' = [req EXCEPT ![h].pc = "save"]
  /\ UNCHANGED <<docket, ghosts>>

\* The comment before it, or the row itself, fails: the docket stays routed.
\* Any other handler that fails has written nothing, or closed a row too early.
LoseRow(h) ==
  /\ req[h] # Idle /\ req[h].pc = "row"
  /\ req' = [req EXCEPT ![h] = Idle]
  /\ UNCHANGED <<docket, routes, ghosts>>

-----------------------------------------------------------------------------
(* Updates of the docket that do not raise __v.                               *)

\* A workbasket docket is pulled to a worklist.
Pull == \E u \in Users :
  /\ docket.status \in {"UNASSIGNED", "ROUTED"} /\ docket.assignee = None
  /\ docket' = [docket EXCEPT !.assignee = u, !.queue = "PERSONAL",
                  !.status = IF @ = "ROUTED" THEN "ROUTED_ASSIGNED" ELSE "ASSIGNED"]
  /\ UNCHANGED <<routes, req, ghosts>>

File ==
  /\ docket.status # "FILED"
  /\ docket' = [docket EXCEPT !.status = "FILED"]
  /\ UNCHANGED <<routes, req, ghosts>>

Next ==
  \/ \E h \in Handlers :
       \/ StartRoute(h) \/ StartRoutedTeam(h) \/ StartSubmit(h) \/ StartMove(h)
       \/ StartApproval(h)
       \/ Save(h) \/ SaveNothing(h) \/ CreateRow(h) \/ CloseRow(h) \/ LoseRow(h)
  \/ Pull \/ File

Spec == Init /\ [][Next]_vars

-----------------------------------------------------------------------------
(* Properties.                                                                *)

\* The document stays within its schema, and so do the rows and the copies.
TypeOK ==
  /\ docket \in Dockets
  /\ routes \subseteq Routes
  /\ req \in [Handlers -> {Idle} \cup Requests]
  /\ router \in Someone /\ diverted \in BOOLEAN
  /\ undecided \in Int

\* h's save of op takes effect in this step.
Saved(h, op) == /\ req[h] # Idle /\ req[h].pc = "save" /\ req[h].op = op
                /\ req'[h] # req[h] /\ docket'.v # docket.v

\* A routed docket is submitted by the user who holds it when the save takes
\* effect, for a team it is still routed to: of two submits, or a submit and an
\* onward route, only one wins (optimisticConcurrency over the reads' checks).
SubmitFromHolder ==
  [][\A h \in Handlers : Saved(h, "Submit") =>
       docket.assignee = req[h].user /\ docket.routedTo = TeamOf[req[h].user]]_vars

\* A submit gives a docket that was routed once to the original routing user.
\* Routed onward it goes to the last router instead, and a manager's move marks
\* it routed and names no originator.
SubmitGoesToRouter ==
  [][\A h \in Handlers : Saved(h, "Submit") => docket'.assignee = router \/ diverted]_vars

\* Every approval asked for is decided once: no request replaces one that is
\* pending, and of two decisions only one is recorded.
DecidedOnce == undecided = IF docket.approval = "pending" THEN 1 ELSE 0
==============================================================================
