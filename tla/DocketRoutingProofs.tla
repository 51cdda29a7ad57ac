------------------------ MODULE DocketRoutingProofs ------------------------
(* Proofs about DocketRouting, for any users, teams, handlers and versions.   *)
(*                                                                            *)
(* What a save may rely on is what its read checked: a copy whose version is  *)
(* still the docket's agrees with it on everything but the fields a pull or a *)
(* filing may have changed, for those leave __v alone.                        *)
EXTENDS DocketRouting, TLAPS

\* The copy s still says of d what no pull and no filing can have changed.
Agrees(s, d) ==
  /\ d.reason = s.reason /\ d.team = s.team
  /\ d.routedTo = s.routedTo /\ d.routedBy = s.routedBy
  /\ d.originUser = s.originUser /\ d.originTeam = s.originTeam
  /\ d.approval = s.approval
  /\ s.assignee # None => d.assignee = s.assignee

\* What the guards of the read established about a request.
Checked(r) ==
  /\ r.op = "Route" => r.to \in Teams /\ r.user \in Users
  /\ r.op = "Move" => r.to \in Someone /\ r.user \in Users
  /\ r.op = "Submit" => /\ r.user \in Users /\ r.snap.assignee = r.user
                        /\ r.snap.routedTo = TeamOf[r.user]
  /\ r.op = "Ask" => r.snap.approval # "pending"
  /\ r.op = "Decide" => r.snap.approval = "pending"
  /\ r.pc = "close" => r.op = "Submit"
  /\ r.pc = "row" => r.op = "Route"

Fresh(r, d) == /\ r.snap.v <= d.v
               /\ r.pc # "row" /\ r.snap.v = d.v => Agrees(r.snap, d)

ReqInv == \A h \in Handlers : req[h] # Idle => Checked(req[h]) /\ Fresh(req[h], docket)

\* A docket that was routed once, and not by a manager's move, names its router.
RouterInv == docket.routedTo # None =>
  diverted = TRUE \/ (docket.originUser = router /\ router \in Users)

Inv == TypeOK /\ ReqInv /\ RouterInv /\ DecidedOnce

USE NoneAssumption, TeamAssumption, OpsAssumption

-----------------------------------------------------------------------------
(* The copies and what is written of them.                                    *)

LEMMA EditedDocket ==
  ASSUME NEW r \in Requests, Checked(r)
  PROVE  /\ Edited(r) \in Dockets
         /\ r.op = "Submit" => /\ Edited(r).assignee = Originator(r.snap)
                               /\ Edited(r).routedTo = None
         /\ r.op = "Route" => Edited(r).routedTo = r.to /\ Edited(r).originUser = r.user
         /\ r.op \notin {"Route", "Submit", "Move"} =>
              Edited(r).routedTo = r.snap.routedTo /\ Edited(r).originUser = r.snap.originUser
         /\ r.op = "Ask" => Edited(r).approval = "pending"
         /\ r.op = "Decide" => Edited(r).approval = "decided"
         /\ r.op \notin {"Ask", "Decide"} => Edited(r).approval = r.snap.approval
  <1>1. r.snap \in Dockets /\ r.op \in AllOps
    BY DEF Requests
  <1>2. CASE r.op = "Route"
    BY <1>1, <1>2 DEF Edited, Routed, Checked, Dockets, Statuses, Someone, SomeTeam
  <1>3. CASE r.op = "Accept"
    BY <1>1, <1>3 DEF Edited, Dockets, Statuses
  <1>4. CASE r.op = "Pend"
    BY <1>1, <1>4 DEF Edited, Dockets, Statuses
  <1>5. CASE r.op = "Submit"
    BY <1>1, <1>5 DEF Edited, Submitted, Originator, Dockets, Statuses, Someone, SomeTeam
  <1>6. CASE r.op = "Move"
    BY <1>1, <1>6 DEF Edited, ManagerMoved, Checked, Dockets, Statuses, Someone, SomeTeam
  <1>7. CASE r.op \in {"Ask", "Decide"}
    BY <1>1, <1>7 DEF Edited, Dockets, Approvals
  <1> QED
    BY <1>1, <1>2, <1>3, <1>4, <1>5, <1>6, <1>7 DEF AllOps

\* The document after a save, field by field.
LEMMA WrittenDocket ==
  ASSUME NEW d \in Dockets, NEW old \in Dockets, NEW new \in Dockets, d.v < MaxV
  PROVE  /\ Written(d, old, new) \in Dockets
         /\ Written(d, old, new).v = d.v + 1
         /\ Agrees(old, d) =>
              /\ Written(d, old, new).approval = new.approval
              /\ Written(d, old, new).routedTo = new.routedTo
              /\ Written(d, old, new).originUser = new.originUser
              /\ old.assignee # None => Written(d, old, new).assignee = new.assignee
  <1>1. DOMAIN d = {"status", "queue", "assignee", "reason", "team", "routedTo", "routedBy",
                    "originUser", "originTeam", "approval", "v"}
    BY DEF Dockets
  <1>2. d.v + 1 \in 0..MaxV
    BY DEF Dockets
  <1>3. Written(d, old, new) =
          [status     |-> IF new.status # old.status THEN new.status ELSE d.status,
           queue      |-> IF new.queue # old.queue THEN new.queue ELSE d.queue,
           assignee   |-> IF new.assignee # old.assignee THEN new.assignee ELSE d.assignee,
           reason     |-> IF new.reason # old.reason THEN new.reason ELSE d.reason,
           team       |-> IF new.team # old.team THEN new.team ELSE d.team,
           routedTo   |-> IF new.routedTo # old.routedTo THEN new.routedTo ELSE d.routedTo,
           routedBy   |-> IF new.routedBy # old.routedBy THEN new.routedBy ELSE d.routedBy,
           originUser |-> IF new.originUser # old.originUser THEN new.originUser
                          ELSE d.originUser,
           originTeam |-> IF new.originTeam # old.originTeam THEN new.originTeam
                          ELSE d.originTeam,
           approval   |-> IF new.approval # old.approval THEN new.approval ELSE d.approval,
           v          |-> d.v + 1]
    BY <1>1 DEF Written
  <1>4. Written(d, old, new) \in Dockets
    BY <1>2, <1>3 DEF Dockets
  <1> QED
    BY <1>3, <1>4 DEF Agrees

LEMMA Working ==
  ASSUME TypeOK, NEW h \in Handlers, req[h] # Idle
  PROVE  req[h] \in Requests
BY DEF TypeOK

\* A save that goes through: the copy was still the docket's.
LEMMA SaveStep ==
  ASSUME Inv, NEW h \in Handlers, Save(h)
  PROVE  /\ req[h] \in Requests /\ Checked(req[h]) /\ req[h].snap \in Dockets
         /\ Agrees(req[h].snap, docket)
         /\ docket' \in Dockets /\ docket'.v = docket.v + 1
         /\ docket'.approval = Edited(req[h]).approval
         /\ docket'.routedTo = Edited(req[h]).routedTo
         /\ docket'.originUser = Edited(req[h]).originUser
         /\ req[h].op = "Submit" => docket'.assignee = Edited(req[h]).assignee
  <1>1. req[h].pc = "save" /\ docket.v = req[h].snap.v /\ docket.v < MaxV
        /\ docket' = Written(docket, req[h].snap, Edited(req[h]))
    BY DEF Save
  <1>2. req[h] # Idle
    BY <1>1 DEF Idle
  <1>3. req[h] \in Requests /\ Checked(req[h]) /\ Fresh(req[h], docket)
    BY <1>2, Working DEF Inv, ReqInv
  <1>4. req[h].snap \in Dockets /\ docket \in Dockets
    BY <1>3 DEF Requests, Inv, TypeOK
  <1>5. Agrees(req[h].snap, docket)
    BY <1>1, <1>3 DEF Fresh
  <1>6. Edited(req[h]) \in Dockets
    BY <1>3, EditedDocket
  <1>7. req[h].op = "Submit" => req[h].snap.assignee # None
    BY <1>3 DEF Checked
  <1> QED
    BY <1>1, <1>3, <1>4, <1>5, <1>6, <1>7, WrittenDocket

-----------------------------------------------------------------------------
(* Each action preserves the invariant.                                       *)

LEMMA InitInv == Init => Inv
  <1> SUFFICES ASSUME Init PROVE Inv
    OBVIOUS
  <1>1. docket \in Dockets
    BY DEF Init, Dockets, Statuses, Someone, SomeTeam, Approvals
  <1>2. TypeOK
    <2>1. router \in Someone /\ undecided \in Int
      BY DEF Init, Someone
    <2>2. diverted \in BOOLEAN
      BY DEF Init
    <2>3. req \in [Handlers -> {Idle} \cup Requests] /\ routes \subseteq Routes
      BY DEF Init
    <2> QED
      BY <1>1, <2>1, <2>2, <2>3 DEF TypeOK
  <1>3. ReqInv /\ RouterInv /\ DecidedOnce
    BY DEF Init, ReqInv, RouterInv, DecidedOnce
  <1> QED
    BY <1>2, <1>3 DEF Inv

\* A request that starts: its copy is the docket, and its read has checked it.
LEMMA StartInv ==
  ASSUME Inv, NEW h \in Handlers, NEW op \in AllOps, NEW pc \in {"close", "save"},
         NEW user \in Someone, NEW to \in SomeTeam \cup Users,
         Start(h, op, pc, user, to),
         Checked([pc |-> pc, op |-> op, user |-> user, to |-> to, snap |-> docket])
  PROVE  Inv'
  <1> DEFINE r == [pc |-> pc, op |-> op, user |-> user, to |-> to, snap |-> docket]
  <1>1. UNCHANGED <<docket, routes, router, diverted, undecided>>
    BY DEF Start, ghosts
  <1>2. r \in Requests /\ docket \in Dockets
    BY DEF Requests, Inv, TypeOK
  <1>3. /\ req' \in [Handlers -> {Idle} \cup Requests]
        /\ req'[h] = r
        /\ \A k \in Handlers : k # h => req'[k] = req[k]
    BY <1>2 DEF Start, Inv, TypeOK
  <1>4. Fresh(r, docket)
    BY <1>2 DEF Fresh, Agrees, Dockets
  <1>5. ReqInv'
    <2> SUFFICES ASSUME NEW k \in Handlers, req'[k] # Idle
                 PROVE  Checked(req'[k]) /\ Fresh(req'[k], docket')
      BY DEF ReqInv
    <2>1. Fresh(req'[k], docket) => Fresh(req'[k], docket')
      BY <1>1 DEF Fresh, Agrees
    <2>2. CASE k = h
      BY <1>3, <1>4, <2>1, <2>2
    <2>3. CASE k # h
      BY <1>3, <2>1, <2>3 DEF Inv, ReqInv
    <2> QED
      BY <2>2, <2>3
  <1>6. TypeOK' /\ RouterInv' /\ DecidedOnce'
    BY <1>1, <1>3 DEF Inv, TypeOK, RouterInv, DecidedOnce
  <1> QED
    BY <1>5, <1>6 DEF Inv

LEMMA StartsInv ==
  ASSUME Inv, NEW h \in Handlers,
         StartRoute(h) \/ StartRoutedTeam(h) \/ StartSubmit(h) \/ StartMove(h) \/ StartApproval(h)
  PROVE  Inv'
  <1>1. CASE StartRoute(h)
    <2>1. PICK u \in Users, t \in Teams : Start(h, "Route", "save", u, t)
      BY <1>1 DEF StartRoute
    <2>2. Checked([pc |-> "save", op |-> "Route", user |-> u, to |-> t, snap |-> docket])
      BY DEF Checked
    <2> QED
      BY <2>1, <2>2, StartInv DEF AllOps, Someone, SomeTeam
  <1>2. CASE StartRoutedTeam(h)
    <2>1. PICK u \in Users, op \in {"Accept", "Pend"} : Start(h, op, "save", u, None)
      BY <1>2 DEF StartRoutedTeam
    <2>2. Checked([pc |-> "save", op |-> op, user |-> u, to |-> None, snap |-> docket])
      BY DEF Checked
    <2> QED
      BY <2>1, <2>2, StartInv DEF AllOps, Someone, SomeTeam
  <1>3. CASE StartSubmit(h)
    <2>1. PICK u \in Users : /\ TeamOf[u] = docket.routedTo /\ docket.assignee = u
                             /\ Start(h, "Submit", "close", u, None)
      BY <1>3 DEF StartSubmit
    <2>2. Checked([pc |-> "close", op |-> "Submit", user |-> u, to |-> None, snap |-> docket])
      BY <2>1 DEF Checked
    <2> QED
      BY <2>1, <2>2, StartInv DEF AllOps, Someone, SomeTeam
  <1>4. CASE StartMove(h)
    <2>1. PICK u \in Managers :
            \E to \in {w \in Users : TeamOf[w] = TeamOf[u]} \cup {None} :
              Start(h, "Move", "save", u, to)
      BY <1>4 DEF StartMove
    <2>2. PICK to \in Users \cup {None} : Start(h, "Move", "save", u, to)
      BY <2>1
    <2>3. u \in Users
      OBVIOUS
    <2>4. Checked([pc |-> "save", op |-> "Move", user |-> u, to |-> to, snap |-> docket])
      BY <2>3 DEF Checked, Someone
    <2> QED
      BY <2>2, <2>3, <2>4, StartInv DEF AllOps, Someone, SomeTeam
  <1>5. CASE StartApproval(h)
    <2>1. PICK op \in {"Ask", "Decide"} : /\ op = "Decide" <=> docket.approval = "pending"
                                          /\ Start(h, op, "save", None, None)
      BY <1>5 DEF StartApproval
    <2>2. Checked([pc |-> "save", op |-> op, user |-> None, to |-> None, snap |-> docket])
      BY <2>1 DEF Checked
    <2> QED
      BY <2>1, <2>2, StartInv DEF AllOps, Someone, SomeTeam
  <1> QED
    BY <1>1, <1>2, <1>3, <1>4, <1>5

\* A save makes every other copy of the old version stale.
LEMMA SaveInv == ASSUME Inv, NEW h \in Handlers, Save(h) PROVE Inv'
  <1> DEFINE r == req[h]
  <1>1. /\ r \in Requests /\ Checked(r) /\ r.snap \in Dockets
        /\ Agrees(r.snap, docket)
        /\ docket' \in Dockets /\ docket'.v = docket.v + 1
        /\ docket'.approval = Edited(r).approval
        /\ docket'.routedTo = Edited(r).routedTo
        /\ docket'.originUser = Edited(r).originUser
    BY SaveStep
  <1>2. r.pc = "save" /\ r # Idle /\ docket.v = r.snap.v /\ docket.v \in Nat
    BY DEF Save, Idle, Inv, TypeOK, Dockets
  <1>3. Note(r) /\ After(h) /\ routes' = routes
    BY DEF Save
  <1>4. /\ req' \in [Handlers -> {Idle} \cup Requests]
        /\ \/ req'[h] = Idle
           \/ req'[h] = [r EXCEPT !.pc = "row"] /\ r.op = "Route"
        /\ \A k \in Handlers : k # h => req'[k] = req[k]
    <2>1. [r EXCEPT !.pc = "row"] \in Requests
      BY <1>1 DEF Requests
    <2> QED
      BY <1>3, <2>1 DEF After, Inv, TypeOK
  <1>5. /\ router' \in Someone /\ diverted' \in BOOLEAN /\ undecided' \in Int
    <2>1. r.op = "Route" => r.user \in Someone
      BY <1>1 DEF Checked, Someone
    <2>2. /\ router \in Someone /\ diverted \in BOOLEAN /\ undecided \in Int
          /\ None \in Someone
      BY DEF Inv, TypeOK, Someone
    <2> HIDE DEF r
    <2>3. router' \in Someone
      BY <1>3, <2>1, <2>2 DEF Note
    <2>4. diverted' \in BOOLEAN
      BY <1>3, <2>2 DEF Note
    <2>5. undecided' = undecided \/ undecided' = undecided + 1 \/ undecided' = undecided - 1
      BY <1>3 DEF Note
    <2> QED
      BY <2>2, <2>3, <2>4, <2>5
  <1>6. TypeOK'
    BY <1>1, <1>3, <1>4, <1>5 DEF Inv, TypeOK
  <1>7. ReqInv'
    <2> SUFFICES ASSUME NEW k \in Handlers, req'[k] # Idle
                 PROVE  Checked(req'[k]) /\ Fresh(req'[k], docket')
      BY DEF ReqInv
    <2>1. CASE k = h
      <3>1. req'[k] = [r EXCEPT !.pc = "row"] /\ r.op = "Route"
        BY <1>4, <2>1
      <3>2. /\ req'[k].pc = "row" /\ req'[k].op = "Route" /\ req'[k].snap = r.snap
            /\ req'[k].to = r.to /\ req'[k].user = r.user
        BY <1>1, <3>1 DEF Requests
      <3> QED
        BY <1>1, <1>2, <3>1, <3>2 DEF Checked, Fresh
    <2>2. CASE k # h
      <3>1. req'[k] = req[k] /\ Checked(req[k]) /\ Fresh(req[k], docket) /\ req[k].snap.v \in Nat
        BY <1>4, <2>2, Working DEF Inv, ReqInv, Requests, Dockets
      <3> QED
        BY <1>1, <1>2, <3>1 DEF Fresh
    <2> QED
      BY <2>1, <2>2
  <1>8. RouterInv'
    <2>1. CASE r.op = "Route"
      <3>1. docket'.originUser = r.user /\ r.user \in Users
        BY <1>1, <2>1, EditedDocket DEF Checked
      <3>2. router' = r.user \/ diverted'
        BY <1>3, <2>1 DEF Note
      <3> QED
        BY <1>5, <3>1, <3>2 DEF RouterInv
    <2>2. CASE r.op = "Submit"
      BY <1>1, <2>2, EditedDocket DEF RouterInv
    <2>3. CASE r.op = "Move"
      <3>1. diverted' = TRUE
        BY <1>3, <2>3 DEF Note
      <3> QED
        BY <3>1 DEF RouterInv
    <2>4. CASE r.op \notin {"Route", "Submit", "Move"}
      <3>1. docket'.routedTo = docket.routedTo /\ docket'.originUser = docket.originUser
        BY <1>1, <2>4, EditedDocket DEF Agrees
      <3>2. router' = router /\ diverted' = diverted
        BY <1>3, <2>4 DEF Note
      <3> QED
        BY <3>1, <3>2 DEF RouterInv, Inv
    <2> QED
      BY <2>1, <2>2, <2>3, <2>4
  <1>9. DecidedOnce'
    <2>1. r.snap.approval = docket.approval
      BY <1>1 DEF Agrees
    <2>2. CASE r.op = "Ask"
      <3>1. docket.approval # "pending" /\ docket'.approval = "pending"
        BY <1>1, <2>1, <2>2, EditedDocket DEF Checked
      <3>2. undecided' = undecided + 1
        BY <1>3, <2>2 DEF Note
      <3> QED
        BY <3>1, <3>2 DEF Inv, DecidedOnce
    <2>3. CASE r.op = "Decide"
      <3>1. docket.approval = "pending" /\ docket'.approval = "decided"
        BY <1>1, <2>1, <2>3, EditedDocket DEF Checked
      <3>2. undecided' = undecided - 1
        BY <1>3, <2>3 DEF Note
      <3> QED
        BY <3>1, <3>2 DEF Inv, DecidedOnce
    <2>4. CASE r.op \notin {"Ask", "Decide"}
      <3>1. docket'.approval = docket.approval
        BY <1>1, <2>1, <2>4, EditedDocket
      <3>2. undecided' = undecided
        BY <1>3, <2>4 DEF Note
      <3> QED
        BY <3>1, <3>2 DEF Inv, DecidedOnce
    <2> QED
      BY <2>2, <2>3, <2>4
  <1> QED
    BY <1>6, <1>7, <1>8, <1>9 DEF Inv

\* A step of one request that leaves the docket alone.
LEMMA RequestInv ==
  ASSUME Inv, NEW h \in Handlers, req[h] # Idle, UNCHANGED <<docket, ghosts>>,
         routes' \subseteq Routes,
         \/ req' = [req EXCEPT ![h] = Idle]
         \/ req' = [req EXCEPT ![h].pc = "save"] /\ req[h].pc = "close"
  PROVE  Inv'
  <1>1. req[h] \in Requests /\ Checked(req[h]) /\ Fresh(req[h], docket)
    BY Working DEF Inv, ReqInv
  <1>2. /\ req' \in [Handlers -> {Idle} \cup Requests]
        /\ \/ req'[h] = Idle
           \/ req'[h] = [req[h] EXCEPT !.pc = "save"] /\ req[h].pc = "close"
        /\ \A k \in Handlers : k # h => req'[k] = req[k]
    <2>1. [req[h] EXCEPT !.pc = "save"] \in Requests
      BY <1>1 DEF Requests
    <2> QED
      BY <2>1 DEF Inv, TypeOK
  <1>3. ReqInv'
    <2> SUFFICES ASSUME NEW k \in Handlers, req'[k] # Idle
                 PROVE  Checked(req'[k]) /\ Fresh(req'[k], docket')
      BY DEF ReqInv
    <2>1. Fresh(req'[k], docket) => Fresh(req'[k], docket')
      BY DEF Fresh, Agrees
    <2>2. CASE k = h
      <3>1. req'[k] = [req[h] EXCEPT !.pc = "save"] /\ req[h].pc = "close"
        BY <1>2, <2>2
      <3>2. /\ req'[k].pc = "save" /\ req'[k].op = req[h].op /\ req'[k].snap = req[h].snap
            /\ req'[k].to = req[h].to /\ req'[k].user = req[h].user
        BY <1>1, <3>1 DEF Requests
      <3> QED
        BY <1>1, <2>1, <3>1, <3>2 DEF Checked, Fresh
    <2>3. CASE k # h
      BY <1>2, <2>1, <2>3 DEF Inv, ReqInv
    <2> QED
      BY <2>2, <2>3
  <1>4. TypeOK' /\ RouterInv' /\ DecidedOnce'
    BY <1>2 DEF Inv, TypeOK, RouterInv, DecidedOnce, ghosts
  <1> QED
    BY <1>3, <1>4 DEF Inv

LEMMA RowInv ==
  ASSUME Inv, NEW h \in Handlers, CreateRow(h) \/ CloseRow(h) \/ LoseRow(h) \/ SaveNothing(h)
  PROVE  Inv'
  <1>1. req[h] # Idle
    BY DEF CreateRow, CloseRow, LoseRow, SaveNothing, Idle
  <1>2. req[h] \in Requests /\ req[h].snap \in Dockets /\ Checked(req[h])
    BY <1>1, Working DEF Inv, ReqInv, Requests
  <1>3. CASE CreateRow(h)
    <2>1. req[h].to \in Teams
      BY <1>2, <1>3 DEF CreateRow, Checked
    <2>2. [at |-> req[h].snap.v, to |-> req[h].to, open |-> TRUE] \in Routes
      BY <1>2, <2>1 DEF Routes, Dockets
    <2>3. routes' \subseteq Routes
      BY <1>3, <2>2 DEF CreateRow, Inv, TypeOK
    <2> QED
      BY <1>1, <1>3, <2>3, RequestInv DEF CreateRow
  <1>4. CASE CloseRow(h)
    <2>1. Newest \subseteq Routes /\ routes \subseteq Routes
      BY DEF Newest, Inv, TypeOK
    <2>2. \A row \in Newest : [row EXCEPT !.open = FALSE] \in Routes
      BY <2>1 DEF Routes
    <2>3. routes' \subseteq Routes
      BY <1>4, <2>1, <2>2 DEF CloseRow
    <2> QED
      BY <1>1, <1>4, <2>3, RequestInv DEF CloseRow
  <1>5. CASE LoseRow(h) \/ SaveNothing(h)
    <2>1. routes' \subseteq Routes
      BY <1>5 DEF LoseRow, SaveNothing, Inv, TypeOK
    <2> QED
      BY <1>1, <1>5, <2>1, RequestInv DEF LoseRow, SaveNothing
  <1> QED
    BY <1>3, <1>4, <1>5

\* Pulling and filing leave __v alone, and every copy agreeing.
LEMMA UpdateInv == ASSUME Inv, Pull \/ File PROVE Inv'
  <1>1. UNCHANGED <<routes, req, router, diverted, undecided>>
    BY DEF Pull, File, ghosts
  <1>2. /\ docket \in Dockets /\ docket' \in Dockets
        /\ docket'.reason = docket.reason /\ docket'.team = docket.team
        /\ docket'.routedTo = docket.routedTo /\ docket'.routedBy = docket.routedBy
        /\ docket'.originUser = docket.originUser /\ docket'.originTeam = docket.originTeam
        /\ docket'.approval = docket.approval /\ docket'.v = docket.v
        /\ docket.assignee # None => docket'.assignee = docket.assignee
    <2>1. CASE Pull
      <3>1. PICK u \in Users :
              docket' = [docket EXCEPT !.assignee = u, !.queue = "PERSONAL",
                           !.status = IF @ = "ROUTED" THEN "ROUTED_ASSIGNED" ELSE "ASSIGNED"]
        BY <2>1 DEF Pull
      <3> QED
        BY <2>1, <3>1 DEF Inv, TypeOK, Pull, Dockets, Statuses, Someone
    <2>2. CASE File
      BY <2>2 DEF Inv, TypeOK, File, Dockets, Statuses
    <2> QED
      BY <2>1, <2>2
  <1>3. ReqInv'
    <2> SUFFICES ASSUME NEW h \in Handlers, req[h] # Idle
                 PROVE  Checked(req[h]) /\ Fresh(req[h], docket')
      BY <1>1 DEF ReqInv
    <2>1. Checked(req[h]) /\ Fresh(req[h], docket)
      BY DEF Inv, ReqInv
    <2> QED
      BY <1>1, <1>2, <2>1 DEF Fresh, Agrees
  <1>4. TypeOK' /\ RouterInv' /\ DecidedOnce'
    BY <1>1, <1>2 DEF Inv, TypeOK, RouterInv, DecidedOnce
  <1> QED
    BY <1>3, <1>4 DEF Inv

LEMMA NextInv == ASSUME Inv, [Next]_vars PROVE Inv'
  <1>1. CASE UNCHANGED vars
    <2>1. ReqInv'
      BY <1>1 DEF vars, Inv, ReqInv, Checked, Fresh, Agrees
    <2> QED
      BY <1>1, <2>1 DEF vars, Inv, TypeOK, RouterInv, DecidedOnce
  <1> QED
    BY <1>1, StartsInv, SaveInv, RowInv, UpdateInv DEF Next

-----------------------------------------------------------------------------
(* The theorems.                                                              *)

\* The inductive invariant.
THEOREM RoutingInvariance == Spec => []Inv
  <1>1. Init => Inv
    BY InitInv
  <1>2. Inv /\ [Next]_vars => Inv'
    BY NextInv
  <1> QED
    BY <1>1, <1>2, PTL DEF Spec

\* The docket, its copies and the rows keep their types: a row always names a team
\* (DocketRoute.create after a route that named one).
THEOREM RoutingTypeCorrect == Spec => []TypeOK
BY RoutingInvariance, PTL DEF Inv

\* Every approval asked for is decided once (requestApproval and decideApproval
\* check the copy they save under its version).
THEOREM ApprovalsDecidedOnce == Spec => []DecidedOnce
BY RoutingInvariance, PTL DEF Inv

\* The save of a submit can only be the step of the handler that submits.
LEMMA SavedIsSave ==
  ASSUME Inv, [Next]_vars, NEW h \in Handlers, Saved(h, "Submit")
  PROVE  Save(h) /\ req[h].op = "Submit"
  <1>1. req'[h] # req[h] /\ docket'.v # docket.v /\ req[h].op = "Submit"
    BY DEF Saved
  <1>2. ASSUME Pull \/ File PROVE FALSE
    BY <1>1, <1>2 DEF Pull, File
  <1>3. ASSUME NEW k \in Handlers,
               \/ StartRoute(k) \/ StartRoutedTeam(k) \/ StartSubmit(k) \/ StartMove(k)
               \/ StartApproval(k)
        PROVE  FALSE
    BY <1>1, <1>3
    DEF StartRoute, StartRoutedTeam, StartSubmit, StartMove, StartApproval, Start
  <1>4. ASSUME NEW k \in Handlers,
               SaveNothing(k) \/ CreateRow(k) \/ CloseRow(k) \/ LoseRow(k)
        PROVE  FALSE
    BY <1>1, <1>4 DEF SaveNothing, CreateRow, CloseRow, LoseRow
  <1>5. ASSUME NEW k \in Handlers, Save(k) PROVE k = h
    <2>1. req' = [req EXCEPT ![k] = IF req[k].op = "Route" THEN [req[k] EXCEPT !.pc = "row"]
                                    ELSE Idle]
      BY <1>5 DEF Save, After
    <2> QED
      BY <1>1, <2>1 DEF Inv, TypeOK
  <1>6. ~UNCHANGED vars
    BY <1>1 DEF vars
  <1> QED
    BY <1>1, <1>2, <1>3, <1>4, <1>5, <1>6 DEF Next

\* Whoever submits a docket holds it at that moment (the version read is the version
\* saved over, and a pull takes a docket that nobody holds).
THEOREM SubmittedByHolder == Spec => SubmitFromHolder
  <1> DEFINE A == \A h \in Handlers : Saved(h, "Submit") =>
               docket.assignee = req[h].user /\ docket.routedTo = TeamOf[req[h].user]
  <1>1. ASSUME Inv, [Next]_vars PROVE A
    <2> SUFFICES ASSUME NEW h \in Handlers, Saved(h, "Submit")
                 PROVE  docket.assignee = req[h].user /\ docket.routedTo = TeamOf[req[h].user]
      OBVIOUS
    <2>1. Save(h) /\ req[h].op = "Submit"
      BY <1>1, SavedIsSave
    <2>2. Checked(req[h]) /\ Agrees(req[h].snap, docket)
      BY <1>1, <2>1, SaveStep
    <2> QED
      BY <2>1, <2>2 DEF Checked, Agrees
  <1>2. Inv /\ [Next]_vars => [A]_vars
    BY <1>1
  <1> QED
    BY <1>2, RoutingInvariance, PTL DEF Spec, SubmitFromHolder

\* A submit returns a docket that was routed once to the user who routed it
\* (returnRoutedDocket reads routeOriginatorUserXID, which every route overwrites).
THEOREM SubmittedToRouter == Spec => SubmitGoesToRouter
  <1> DEFINE A == \A h \in Handlers : Saved(h, "Submit") => docket'.assignee = router \/ diverted
  <1>1. ASSUME Inv, [Next]_vars PROVE A
    <2> SUFFICES ASSUME NEW h \in Handlers, Saved(h, "Submit"), ~diverted
                 PROVE  docket'.assignee = router
      OBVIOUS
    <2>1. Save(h) /\ req[h].op = "Submit"
      BY <1>1, SavedIsSave
    <2>2. /\ req[h] \in Requests /\ Checked(req[h]) /\ Agrees(req[h].snap, docket)
          /\ docket'.assignee = Edited(req[h]).assignee
      BY <1>1, <2>1, SaveStep
    <2>3. docket'.assignee = Originator(req[h].snap)
      BY <2>1, <2>2, EditedDocket
    <2>4. docket.routedTo # None
      BY <2>1, <2>2 DEF Checked, Agrees
    <2>5. docket.originUser = router /\ router # None
      BY <1>1, <2>4 DEF Inv, RouterInv
    <2> QED
      BY <2>2, <2>3, <2>5 DEF Agrees, Originator
  <1>2. Inv /\ [Next]_vars => [A]_vars
    BY <1>1
  <1> QED
    BY <1>2, RoutingInvariance, PTL DEF Spec, SubmitGoesToRouter
============================================================================
