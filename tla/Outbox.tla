------------------------------- MODULE Outbox -------------------------------
(* The outbox: e-mails are written to a MongoDB collection, with the caller's *)
(* transaction, and delivered later by the outbox workers.                    *)
(*                                                                            *)
(* Every process runs one delivery loop: claim the earliest due entry, hand   *)
(* it to the mail provider, mark it, claim the next.  Between those awaits    *)
(* the process can die, a database call can fail - before or after it took    *)
(* effect - and the provider can accept a message and lose the answer.        *)
(* `sent` counts what the provider accepted; no code keeps it.                *)
EXTENDS Naturals, FiniteSets

CONSTANTS
  Entries,      \* outbox rows, numbered in the order of createdAt
  Workers,      \* processes that run the delivery loop
  MaxAttempts,  \* MAX_ATTEMPTS
  Threshold,    \* failureThreshold of the circuit breaker
  MaxFaults     \* bound on crashes and failed database calls

ASSUME EntriesAssumption == Entries \subseteq Nat
ASSUME LimitsAssumption  == /\ MaxAttempts \in Nat \ {0}
                            /\ Threshold \in Nat \ {0}
                            /\ MaxFaults \in Nat

VARIABLES
  entry,        \* the persisted rows
  worker,       \* where each delivery loop is, and the row it holds as it read it
  breaker,      \* each process's circuit breaker for the mail provider
  sent,         \* how often the provider accepted the message of a row
  faults        \* crashes and failed database calls so far

vars == <<entry, worker, breaker, sent, faults>>

RowStates == {"absent", "pending", "processing", "processed", "failed"}
Holding   == {"deliver", "mark", "fail"}

Rows     == [status: RowStates, attempts: 0..MaxAttempts, due: BOOLEAN]
Loops    ==      [pc: {"idle", "claim"}]
            \cup [pc: Holding, entry: Entries, attempts: 0..MaxAttempts]
Breakers == [state: {"CLOSED", "OPEN", "HALF_OPEN"}, failures: 0..Threshold,
             cooled: BOOLEAN]

Closed == [state |-> "CLOSED", failures |-> 0, cooled |-> FALSE]

Init ==
  /\ entry = [e \in Entries |-> [status |-> "absent", attempts |-> 0, due |-> FALSE]]
  /\ worker = [w \in Workers |-> [pc |-> "idle"]]
  /\ breaker = [w \in Workers |-> Closed]
  /\ sent = [e \in Entries |-> 0]
  /\ faults = 0

GoTo(w, pc) == worker' = [worker EXCEPT ![w] =
                 IF pc \in Holding
                 THEN [pc |-> pc, entry |-> worker[w].entry, attempts |-> worker[w].attempts]
                 ELSE [pc |-> pc]]

Fault == faults < MaxFaults /\ faults' = faults + 1

-----------------------------------------------------------------------------
\* The row becomes visible, at once or when the caller's transaction commits.
Enqueue(e) ==
  /\ entry[e].status = "absent"
  /\ entry' = [entry EXCEPT ![e] = [status |-> "pending", attempts |-> 0, due |-> TRUE]]
  /\ UNCHANGED <<worker, breaker, sent, faults>>

\* nextAttemptAt is reached.
BackoffEnds(e) ==
  /\ entry[e].status = "pending" /\ ~entry[e].due
  /\ entry' = [entry EXCEPT ![e].due = TRUE]
  /\ UNCHANGED <<worker, breaker, sent, faults>>

\* The interval timer; the busy flag keeps one loop per process.
Poll(w) ==
  /\ worker[w].pc = "idle"
  /\ GoTo(w, "claim")
  /\ UNCHANGED <<entry, breaker, sent, faults>>

\* Mutant: a row left in processing is taken up again, held or not.
ClaimableUnfinished(e) == entry[e].status \in {"pending", "processing"} /\ entry[e].due

\* Mutant: a row whose first attempt failed is not looked for.
ClaimableFresh(e) == entry[e].status = "pending" /\ entry[e].due /\ entry[e].attempts = 0

Claimable(e) == entry[e].status = "pending" /\ entry[e].due

Earliest(e) == Claimable(e) /\ \A f \in Entries : Claimable(f) => e <= f

\* claimNextPending.  When its answer is lost the row stays in processing.
Claim(w) ==
  /\ worker[w].pc = "claim"
  /\ UNCHANGED <<breaker, sent>>
  /\ \/ /\ \A e \in Entries : ~Claimable(e)
        /\ GoTo(w, "idle")
        /\ UNCHANGED <<entry, faults>>
     \/ \E e \in Entries :
        /\ Earliest(e)
        /\ entry' = [entry EXCEPT ![e].status = "processing"]
        /\ \/ /\ worker' = [worker EXCEPT ![w] =
                   [pc |-> "deliver", entry |-> e, attempts |-> entry[e].attempts]]
              /\ UNCHANGED faults
           \/ GoTo(w, "idle") /\ Fault
     \/ /\ GoTo(w, "idle") /\ Fault
        /\ UNCHANGED entry

-----------------------------------------------------------------------------
(* The circuit breaker of sendEmailNow.                                       *)

Refuses(b) == b.state = "OPEN" /\ ~b.cooled

\* recordFailure; the count beyond the threshold is never told apart from it.
Tripped(b) ==
  LET failures == IF b.failures < Threshold THEN b.failures + 1 ELSE Threshold
      state    == IF b.state = "OPEN" THEN "HALF_OPEN" ELSE b.state
  IN [state |-> IF failures = Threshold THEN "OPEN" ELSE state,
      failures |-> failures, cooled |-> FALSE]

CooldownEnds(w) ==
  /\ Refuses(breaker[w])
  /\ breaker' = [breaker EXCEPT ![w].cooled = TRUE]
  /\ UNCHANGED <<entry, worker, sent, faults>>

\* sendEmailNow: refused by the breaker, accepted, or failed - perhaps after
\* the provider has accepted the message.
Deliver(w) ==
  /\ worker[w].pc = "deliver"
  /\ UNCHANGED <<entry, faults>>
  /\ \/ /\ Refuses(breaker[w])
        /\ GoTo(w, "fail")
        /\ UNCHANGED <<breaker, sent>>
     \/ /\ ~Refuses(breaker[w])
        /\ GoTo(w, "mark")
        /\ sent' = [sent EXCEPT ![worker[w].entry] = @ + 1]
        /\ breaker' = [breaker EXCEPT ![w] = Closed]
     \/ \E accepted \in {0, 1} :
        /\ ~Refuses(breaker[w])
        /\ GoTo(w, "fail")
        /\ sent' = [sent EXCEPT ![worker[w].entry] = @ + accepted]
        /\ breaker' = [breaker EXCEPT ![w] = Tripped(@)]

-----------------------------------------------------------------------------
(* markProcessed and markFailedAttempt: updates that match a row in           *)
(* processing only.                                                           *)

Processed(row) ==
  IF row.status = "processing" THEN [row EXCEPT !.status = "processed"] ELSE row

\* Mutant: the update's filter has lost the status.
FailedAnyway(row, read) ==
  [status   |-> IF read + 1 >= MaxAttempts THEN "failed" ELSE "pending",
   attempts |-> row.attempts + 1, due |-> FALSE]

\* Mutant: the limit is compared before the attempt is counted.
FailedLate(row, read) ==
  IF row.status = "processing"
  THEN [status   |-> IF read >= MaxAttempts THEN "failed" ELSE "pending",
        attempts |-> row.attempts + 1, due |-> FALSE]
  ELSE row

\* Mutant: the attempt is not counted.
FailedUncounted(row, read) ==
  IF row.status = "processing"
  THEN [status   |-> IF read + 1 >= MaxAttempts THEN "failed" ELSE "pending",
        attempts |-> row.attempts, due |-> FALSE]
  ELSE row

\* The status comes from the attempts the worker read, the count from the row.
FailedAttempt(row, read) ==
  IF row.status = "processing"
  THEN [status   |-> IF read + 1 >= MaxAttempts THEN "failed" ELSE "pending",
        attempts |-> row.attempts + 1, due |-> FALSE]
  ELSE row

\* A failing markProcessed is handled like a failed delivery.
Mark(w) ==
  /\ worker[w].pc = "mark"
  /\ UNCHANGED <<breaker, sent>>
  /\ \/ /\ entry' = [entry EXCEPT ![worker[w].entry] = Processed(@)]
        /\ \/ GoTo(w, "claim") /\ UNCHANGED faults
           \/ GoTo(w, "fail") /\ Fault
     \/ /\ UNCHANGED entry
        /\ GoTo(w, "fail") /\ Fault

\* A failing markFailedAttempt ends the loop until the next poll.
Fail(w) ==
  /\ worker[w].pc = "fail"
  /\ UNCHANGED <<breaker, sent>>
  /\ \/ /\ entry' = [entry EXCEPT ![worker[w].entry] = FailedAttempt(@, worker[w].attempts)]
        /\ \/ GoTo(w, "claim") /\ UNCHANGED faults
           \/ GoTo(w, "idle") /\ Fault
     \/ /\ UNCHANGED entry
        /\ GoTo(w, "idle") /\ Fault

\* The process dies and is started again.
Crash(w) ==
  /\ worker[w].pc # "idle"
  /\ GoTo(w, "idle") /\ Fault
  /\ breaker' = [breaker EXCEPT ![w] = Closed]
  /\ UNCHANGED <<entry, sent>>

Loop(w) == Poll(w) \/ Claim(w) \/ Deliver(w) \/ Mark(w) \/ Fail(w)

Next == \/ \E e \in Entries : Enqueue(e) \/ BackoffEnds(e)
        \/ \E w \in Workers : Loop(w) \/ CooldownEnds(w) \/ Crash(w)

Spec == Init /\ [][Next]_vars

\* The interval timer fires, a started loop goes on and the clock advances.
FairSpec == /\ Spec
            /\ \A w \in Workers : WF_vars(Loop(w))
            /\ \A e \in Entries : WF_vars(BackoffEnds(e))
-----------------------------------------------------------------------------
(* Properties.                                                                *)

TypeOK ==
  /\ entry \in [Entries -> Rows]
  /\ worker \in [Workers -> Loops]
  /\ breaker \in [Workers -> Breakers]
  /\ sent \in [Entries -> Nat]
  /\ faults \in 0..MaxFaults

Holds(w, e) == worker[w].pc \in Holding /\ worker[w].entry = e

\* claimNextPending hands a row to one delivery loop: no two processes deliver it
\* at the same time, whatever crashed or failed before.
OneHolder == \A e \in Entries, w1, w2 \in Workers : Holds(w1, e) /\ Holds(w2, e) => w1 = w2

\* A row is marked processed only when the provider has accepted its message.
ProcessedWasSent == \A e \in Entries : entry[e].status = "processed" => sent[e] > 0

\* Every delivery beyond the first is paid for with a failed attempt, so a message
\* is delivered at most MAX_ATTEMPTS times.
SentIsPaid == \A e \in Entries :
  sent[e] <= entry[e].attempts
             + (IF entry[e].status \in {"processing", "processed"} THEN 1 ELSE 0)

\* A row is given up exactly when its attempts are used up.
FailedIsExhausted == \A e \in Entries :
  entry[e].status = "failed" <=> entry[e].attempts = MaxAttempts

\* Once a row is marked processed it is neither retried nor delivered again, even
\* when the answer of markProcessed was lost and the worker counts it as failed.
ProcessedIsFinal == [][\A e \in Entries :
  entry[e].status = "processed" => entry'[e] = entry[e] /\ sent'[e] = sent[e]]_vars

\* A row in processing that no loop holds: its worker died or lost the database.
Stranded(e) == entry[e].status = "processing" /\ \A w \in Workers : ~Holds(w, e)

\* A pending row is delivered or given up, unless its worker dies or loses the
\* database while it holds the row: nothing looks for rows left in processing.
PendingSettles == \A e \in Entries :
  entry[e].status = "pending" ~> entry[e].status \in {"processed", "failed"} \/ Stranded(e)

\* What the row says of its message.
Promised(row) == CASE row.status = "absent"    -> "unwritten"
                   [] row.status = "processed" -> "delivered"
                   [] row.status = "failed"    -> "given up"
                   [] OTHER                    -> "waiting"

Promise == INSTANCE Delivery WITH
  Messages <- Entries, Limit <- MaxAttempts,
  state  <- [e \in Entries |-> Promised(entry[e])],
  tries  <- [e \in Entries |-> entry[e].attempts],
  copies <- sent

\* The claims, deliveries and marks of the workers, with every crash, lost answer
\* and retry, come to no more than Delivery allows.
Delivers == Promise!Spec
=============================================================================
