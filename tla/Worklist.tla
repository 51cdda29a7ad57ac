------------------------------ MODULE Worklist -------------------------------
(* What each operation promises of one docket: who holds it afterwards and at *)
(* which stage it is.  A docket is open, set aside (pending), with quality    *)
(* control, or at one of its three ends; the end CLOSED can be undone by who  *)
(* hands the docket on, the other two cannot.                                 *)
CONSTANTS Users, None

VARIABLES
  holder,       \* whose worklist it is in, None for a workbasket
  stage,
  submitter,    \* who last sent it to quality control
  deed          \* the operation just completed, "none" if it changed nothing

vars == <<holder, stage, submitter, deed>>

Final == {"RESOLVED", "FILED"}

Init == /\ holder \in Users \cup {None}
        /\ stage = "open"
        /\ submitter = None
        /\ deed = "none"

\* A request that is refused, or not finished yet.
Rest == deed' = "none" /\ UNCHANGED <<holder, stage, submitter>>

\* A user takes a docket nobody holds.
Take == /\ deed' \in {"Pull", "BulkPull"}
        /\ stage = "open" /\ holder = None
        /\ holder' \in Users
        /\ UNCHANGED <<stage, submitter>>

\* The holder changes and nothing else.
Hand == /\ deed' \in {"Reassign", "ReassignCase"}
        /\ stage # "FILED"
        /\ holder' \in Users
        /\ UNCHANGED <<stage, submitter>>

\* A manager puts it into a worklist, where it is open, or into a workbasket.
Move == /\ deed' = "Move"
        /\ stage \notin Final
        /\ holder' \in Users \cup {None}
        /\ stage' = IF holder' = None THEN stage ELSE "open"
        /\ UNCHANGED submitter

\* Back to the workbasket, whatever it was waiting for.
Release == /\ deed' \in {"Unassign", "Deactivate"}
           /\ stage \notin Final
           /\ holder' = None /\ stage' = "open"
           /\ UNCHANGED submitter

\* Set aside with its holder; a change of status may do so again, for other dates.
Pend == /\ \/ deed' = "Pend" /\ stage = "open"
           \/ deed' = "Transition" /\ stage \in {"open", "pending"}
        /\ stage' = "pending"
        /\ UNCHANGED <<holder, submitter>>

\* A pending docket is open again, for whoever held it.
Resume == /\ deed' \in {"Unpend", "AutoReopen", "ReopenDue", "EmailReopen"}
          /\ stage = "pending" /\ stage' = "open"
          /\ UNCHANGED <<holder, submitter>>

\* Work under way ends; what is pending or with quality control does not.
End == /\ \/ deed' = "File" /\ stage' = "FILED"
          \/ deed' \in {"Close", "Transition"} /\ stage' = "CLOSED"
       /\ stage = "open"
       /\ UNCHANGED <<holder, submitter>>

\* Given to a workbasket by a change of status.
Route == /\ deed' = "Transition"
         /\ stage \in {"open", "pending"} /\ stage' = "open"
         /\ holder' = None
         /\ UNCHANGED submitter

\* Sent to quality control, in the name of its holder if it has one.
Submit == /\ deed' = "Transition"
          /\ stage = "open" /\ stage' = "qc"
          /\ submitter' \in Users /\ (holder # None => submitter' = holder)
          /\ holder' = None

\* Failed: back to the one who sent it, whoever has held it since.
Return == /\ deed' = "QcFail"
          /\ stage = "qc" /\ stage' = "open"
          /\ holder' = submitter /\ holder' # None
          /\ UNCHANGED submitter

Next == \/ Rest \/ Take \/ Hand \/ Move \/ Release \/ Pend \/ Resume \/ End
        \/ Route \/ Submit \/ Return

Spec == Init /\ [][Next]_vars
=============================================================================
