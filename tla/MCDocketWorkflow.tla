-------------------------- MODULE MCDocketWorkflow --------------------------
(* Instances of DocketWorkflow for TLC.                                       *)
EXTENDS DocketWorkflow, TLC

CONSTANT Cron                             \* the handler that runs the scheduled job

Symmetry == Permutations(Users) \cup Permutations(Handlers \ {Cron})

\* The scheduled job has a handler of its own; requests never run it.
NextCron ==
  \/ StartReopenDue(Cron) \/ Handle(Cron)
  \/ \E h \in Handlers \ {Cron} : \/ StartGuarded(h) \/ StartSave(h) \/ Handle(h)
                                  \/ StartMove(h) \/ StartEmailReopen(h)
                                  \/ StartDeactivate(h)
  \/ Pull \/ BulkPull \/ Transition \/ TimePasses

\* The clock advances, the job is triggered again and again, and once it has
\* found the docket due it goes on to write.  Nothing is asked of the requests.
SpecCron == /\ Init /\ [][NextCron]_vars
            /\ WF_vars(TimePasses)
            /\ WF_vars(StartReopenDue(Cron))
            /\ WF_vars(Handle(Cron))
=============================================================================
