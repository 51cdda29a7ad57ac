---------------------------- MODULE DocketStates ----------------------------
(* The three vocabularies in which a docket's progress is written down - the *)
(* persisted status, the canonical state and the lifecycle - with the tables *)
(* and conversions between them.  Pure operators: no state of their own.     *)

CONSTANT None                            \* no assignee, no queue, no value

\* The persisted values of Case.status that the code under src/ writes.
Statuses == {"UNASSIGNED", "OPEN", "ASSIGNED", "IN_PROGRESS", "PENDING", "ROUTED",
             "ROUTED_ASSIGNED", "QC_PENDING", "RESOLVED", "FILED", "CLOSED"}
CanonicalStates == {"IN_WB", "IN_PROGRESS", "IN_QC", "PENDED", "RESOLVED", "FILED"}
Lifecycles == {"WL", "ACTIVE", "WAITING", "DONE"}
Queues == {"GLOBAL", "PERSONAL"}

TerminalStatuses == {"RESOLVED", "FILED", "CLOSED"}

\* Mutant: finished work can be taken up again.
LifecycleSuccessorsReopening == [WL      |-> {"ACTIVE", "WAITING"},
                                 ACTIVE  |-> {"WAITING", "DONE"},
                                 WAITING |-> {"ACTIVE"},
                                 DONE    |-> {"ACTIVE"}]

\* TRANSITIONS and isValidTransition: strict, so a lifecycle is never its own successor.
LifecycleSuccessors == [WL      |-> {"ACTIVE", "WAITING"},
                        ACTIVE  |-> {"WAITING", "DONE"},
                        WAITING |-> {"ACTIVE"},
                        DONE    |-> {}]
IsValidTransition(from, to) == to \in LifecycleSuccessors[from]

\* ALLOWED_TRANSITIONS and canTransition, over canonical states.
CanonicalSuccessors == [IN_WB       |-> {"IN_PROGRESS"},
                        IN_PROGRESS |-> {"IN_QC", "PENDED", "RESOLVED"},
                        PENDED      |-> {"IN_PROGRESS", "IN_WB"},
                        IN_QC       |-> {"RESOLVED", "IN_PROGRESS"},
                        RESOLVED    |-> {},
                        FILED       |-> {}]
CanTransition(from, to) == to \in CanonicalSuccessors[from]

\* LIFECYCLE_TRANSITIONS of caseAction.service, over statuses.
ActionSuccessors(status) ==
  CASE status \in {"ASSIGNED", "OPEN", "IN_PROGRESS"}
                                -> {"PENDING", "QC_PENDING", "RESOLVED", "FILED"}
    [] status = "PENDING"       -> {"OPEN", "ASSIGNED", "ROUTED", "UNASSIGNED"}
    [] status = "QC_PENDING"    -> {"RESOLVED", "OPEN"}
    [] OTHER                    -> {}

ToLifecycleFromStatus(status) ==
  CASE status \in {"PENDING", "QC_PENDING"}       -> "WAITING"
    [] status \in TerminalStatuses                -> "DONE"
    [] status \in {"ASSIGNED", "ROUTED_ASSIGNED"} -> "WL"
    [] OTHER                                      -> "ACTIVE"

\* getCanonicalDocketState of a docket that has a status.  For the statuses its
\* tables do not name, UNASSIGNED and CLOSED, the owner, then the queue, decides.
Canonical(status, assignee, queue) ==
  CASE status \in {"RESOLVED", "FILED"}                        -> status
    [] status = "QC_PENDING"                                   -> "IN_QC"
    [] status = "PENDING"                                      -> "PENDED"
    [] status = "ROUTED"                                       -> "IN_WB"
    [] status \in {"ASSIGNED", "IN_PROGRESS", "ROUTED_ASSIGNED"} -> "IN_PROGRESS"
    [] status = "OPEN"       -> IF assignee # None THEN "IN_PROGRESS" ELSE "IN_WB"
    [] status \in {"UNASSIGNED", "CLOSED"} ->
                                IF assignee # None \/ queue = "PERSONAL"
                                THEN "IN_PROGRESS" ELSE "IN_WB"

\* Mutant: the terminal statuses are not looked at first.
InferLifecycleByOwner(lifecycle, assignee, status) ==
  CASE lifecycle = "DONE"                      -> "DONE"
    [] lifecycle # "DONE" /\ assignee = None   -> "WL"
    [] lifecycle # "DONE" /\ assignee # None   -> ToLifecycleFromStatus(status)

\* inferLifecycleAfterStatusChange without an explicit lifecycle in the patch.
\* The lifecycle is persisted and never null, so the closing deriveLifecycle
\* returns it as it is.
InferLifecycle(lifecycle, assignee, status) ==
  CASE status \in TerminalStatuses -> "DONE"
    [] status \notin TerminalStatuses /\ lifecycle = "DONE" -> "DONE"
    [] status \notin TerminalStatuses /\ lifecycle # "DONE" ->
         IF assignee = None THEN "WL"
         ELSE CASE status \in {"ASSIGNED", "ROUTED_ASSIGNED"} -> "WL"
                [] status \in {"PENDING", "QC_PENDING"}       -> "WAITING"
                [] status \in {"IN_PROGRESS", "OPEN"}         -> "ACTIVE"
                [] OTHER                                      -> lifecycle

\* Mutant: the canonical state is stored where a status belongs.
ReopenStatusCanonical(assignee, routed) ==
  IF assignee # None THEN "IN_PROGRESS" ELSE "IN_WB"

\* The status a pended docket returns to in unpendCase, performAutoReopen and
\* reopenDuePending.
ReopenStatus(assignee, routed) ==
  IF assignee # None THEN "ASSIGNED" ELSE IF routed THEN "ROUTED" ELSE "UNASSIGNED"
=============================================================================
