---------------------------- MODULE OutboxProofs ----------------------------
(* Proofs about Outbox, for any rows, workers, attempts and faults.           *)
(*                                                                            *)
(* The properties need to know what a worker's copy of a row says about the   *)
(* row itself: the inductive invariant adds HeldInv, that a held row is still *)
(* in processing (or already processed, when only the answer of markProcessed *)
(* was lost), with the attempts the worker read, and delivered no more often  *)
(* than its attempts pay for.                                                 *)
EXTENDS Outbox, TLAPS

RowInv == \A e \in Entries :
  /\ entry[e].status = "absent" => sent[e] = 0 /\ entry[e].attempts = 0
  /\ entry[e].status = "failed" <=> entry[e].attempts = MaxAttempts
  /\ entry[e].status = "processed" => sent[e] > 0
  /\ sent[e] <= entry[e].attempts
                + (IF entry[e].status \in {"processing", "processed"} THEN 1 ELSE 0)

HeldRow(w, e) ==
  /\ \/ entry[e].status = "processing" /\ worker[w].attempts = entry[e].attempts
     \/ entry[e].status = "processed" /\ worker[w].pc = "fail"
  /\ worker[w].pc = "deliver" => sent[e] <= entry[e].attempts
  /\ worker[w].pc = "mark" => sent[e] > 0

HeldInv == \A w \in Workers, e \in Entries : Holds(w, e) => HeldRow(w, e)

Inv == TypeOK /\ OneHolder /\ RowInv /\ HeldInv

USE EntriesAssumption, LimitsAssumption

\* The conditions of a holding worker's record.
LEMMA HoldingWorker ==
  ASSUME TypeOK, NEW w \in Workers, worker[w].pc \in Holding
  PROVE  /\ worker[w].entry \in Entries
         /\ worker[w].attempts \in 0..MaxAttempts
         /\ Holds(w, worker[w].entry)
BY DEF TypeOK, Loops, Holding, Holds

\* What one step of a worker does to its own record, in each of the forms GoTo has.
LEMMA GoToHolding ==
  ASSUME TypeOK, NEW w \in Workers, worker[w].pc \in Holding, NEW pc \in Holding, GoTo(w, pc)
  PROVE  /\ worker' \in [Workers -> Loops]
         /\ worker'[w].pc = pc
         /\ worker'[w].entry = worker[w].entry
         /\ worker'[w].attempts = worker[w].attempts
         /\ \A v \in Workers : v # w => worker'[v] = worker[v]
         /\ \A v \in Workers, e \in Entries : Holds(v, e)' <=> Holds(v, e)
BY HoldingWorker DEF TypeOK, GoTo, Loops, Holds

LEMMA GoToFree ==
  ASSUME TypeOK, NEW w \in Workers, NEW pc \in {"idle", "claim"}, GoTo(w, pc)
  PROVE  /\ worker' \in [Workers -> Loops]
         /\ \A v \in Workers : v # w => worker'[v] = worker[v]
         /\ \A v \in Workers, e \in Entries : Holds(v, e)' => v # w /\ Holds(v, e)
BY DEF TypeOK, GoTo, Loops, Holds, Holding

LEMMA FailedAttemptRow ==
  ASSUME NEW row \in Rows, NEW read \in 0..MaxAttempts,
         row.status = "processing" => row.attempts < MaxAttempts /\ read = row.attempts
  PROVE  /\ FailedAttempt(row, read) \in Rows
         /\ row.status # "processing" => FailedAttempt(row, read) = row
         /\ row.status = "processing" =>
              /\ FailedAttempt(row, read).attempts = row.attempts + 1
              /\ FailedAttempt(row, read).status =
                   IF row.attempts + 1 = MaxAttempts THEN "failed" ELSE "pending"
BY DEF FailedAttempt, Rows, RowStates

LEMMA ProcessedRow ==
  ASSUME NEW row \in Rows
  PROVE  /\ Processed(row) \in Rows
         /\ row.status # "processing" => Processed(row) = row
         /\ row.status = "processing" =>
              Processed(row).status = "processed" /\ Processed(row).attempts = row.attempts
BY DEF Processed, Rows, RowStates

LEMMA InitInv == Init => Inv
BY DEF Init, Inv, TypeOK, OneHolder, RowInv, HeldInv, Rows, RowStates, Loops, Breakers,
       Closed, Holds, Holding

-----------------------------------------------------------------------------
(* Each action preserves the invariant.                                       *)

LEMMA EnqueueInv == ASSUME Inv, NEW e \in Entries, Enqueue(e) PROVE Inv'
  <1>1. TypeOK'
    BY DEF Inv, Enqueue, TypeOK, Rows, RowStates
  <1>2. OneHolder'
    BY DEF Inv, Enqueue, OneHolder, Holds
  <1>3. RowInv'
    BY DEF Inv, Enqueue, TypeOK, Rows, RowInv
  <1>4. HeldInv'
    BY DEF Inv, Enqueue, TypeOK, HeldInv, HeldRow, Holds
  <1> QED
    BY <1>1, <1>2, <1>3, <1>4 DEF Inv

LEMMA BackoffEndsInv == ASSUME Inv, NEW e \in Entries, BackoffEnds(e) PROVE Inv'
  <1>1. TypeOK'
    BY DEF Inv, BackoffEnds, TypeOK, Rows, RowStates
  <1>2. OneHolder'
    BY DEF Inv, BackoffEnds, OneHolder, Holds
  <1>3. RowInv'
    BY DEF Inv, BackoffEnds, TypeOK, Rows, RowInv
  <1>4. HeldInv'
    BY DEF Inv, BackoffEnds, TypeOK, Rows, HeldInv, HeldRow, Holds
  <1> QED
    BY <1>1, <1>2, <1>3, <1>4 DEF Inv

\* A step after which a worker holds nothing, and no row has changed.
LEMMA LetGoInv ==
  ASSUME Inv, NEW w \in Workers, NEW pc \in {"idle", "claim"}, GoTo(w, pc),
         UNCHANGED <<entry, sent>>, breaker' \in [Workers -> Breakers],
         faults' \in 0..MaxFaults
  PROVE  Inv'
  <1>1. /\ worker' \in [Workers -> Loops]
        /\ \A v \in Workers : v # w => worker'[v] = worker[v]
        /\ \A v \in Workers, e \in Entries : Holds(v, e)' => v # w /\ Holds(v, e)
    BY GoToFree DEF Inv
  <1>2. TypeOK'
    BY <1>1 DEF Inv, TypeOK
  <1>3. OneHolder'
    BY <1>1 DEF Inv, OneHolder
  <1>4. RowInv'
    BY DEF Inv, RowInv
  <1>5. HeldInv'
    BY <1>1 DEF Inv, HeldInv, HeldRow
  <1> QED
    BY <1>2, <1>3, <1>4, <1>5 DEF Inv

\* A step in which a worker claims a pending row, or loses the answer of the claim.
LEMMA TakenInv ==
  ASSUME Inv, NEW w \in Workers, worker[w].pc = "claim",
         NEW e \in Entries, Earliest(e),
         entry' = [entry EXCEPT ![e].status = "processing"],
         \/ /\ worker' = [worker EXCEPT ![w] =
                 [pc |-> "deliver", entry |-> e, attempts |-> entry[e].attempts]]
            /\ UNCHANGED faults
         \/ GoTo(w, "idle") /\ Fault,
         UNCHANGED <<breaker, sent>>
  PROVE  Inv'
  <1>1. entry[e].status = "pending" /\ entry[e] \in Rows
    BY DEF Earliest, Claimable, Inv, TypeOK
  <1>2. \A v \in Workers : ~Holds(v, e)
    BY <1>1 DEF Inv, HeldInv, HeldRow
  <1>3. /\ entry' \in [Entries -> Rows]
        /\ entry'[e].status = "processing" /\ entry'[e].attempts = entry[e].attempts
        /\ \A f \in Entries : f # e => entry'[f] = entry[f]
    BY <1>1 DEF Inv, TypeOK, Rows, RowStates
  <1>4. RowInv'
    BY <1>1, <1>3 DEF Inv, TypeOK, Rows, RowInv
  <1>5. sent' = sent /\ sent[e] <= entry[e].attempts
    BY <1>1 DEF Inv, TypeOK, Rows, RowInv
  <1>6. CASE GoTo(w, "idle") /\ Fault
    <2>1. /\ worker' \in [Workers -> Loops]
          /\ \A v \in Workers : v # w => worker'[v] = worker[v]
          /\ \A v \in Workers, f \in Entries : Holds(v, f)' => v # w /\ Holds(v, f)
      BY <1>6, GoToFree DEF Inv
    <2>2. TypeOK'
      BY <1>3, <1>6, <2>1 DEF Inv, TypeOK, Fault
    <2>3. OneHolder'
      BY <2>1 DEF Inv, OneHolder
    <2>4. HeldInv'
      BY <1>2, <1>3, <1>5, <2>1 DEF Inv, HeldInv, HeldRow
    <2> QED
      BY <1>4, <2>2, <2>3, <2>4 DEF Inv
  <1>7. CASE /\ worker' = [worker EXCEPT ![w] =
                  [pc |-> "deliver", entry |-> e, attempts |-> entry[e].attempts]]
             /\ UNCHANGED faults
    <2>1. /\ worker' \in [Workers -> Loops]
          /\ worker'[w].pc = "deliver" /\ worker'[w].entry = e
          /\ worker'[w].attempts = entry[e].attempts
          /\ \A v \in Workers : v # w => worker'[v] = worker[v]
      BY <1>1, <1>7 DEF Inv, TypeOK, Loops, Holding, Rows
    <2>2. /\ \A f \in Entries : Holds(w, f)' <=> f = e
          /\ \A v \in Workers, f \in Entries : v # w => (Holds(v, f)' <=> Holds(v, f))
      BY <2>1 DEF Holds, Holding
    <2>3. TypeOK'
      BY <1>3, <1>7, <2>1 DEF Inv, TypeOK
    <2>4. OneHolder'
      BY <1>2, <2>2 DEF Inv, OneHolder
    <2>5. HeldInv'
      <3> SUFFICES ASSUME NEW v \in Workers, NEW f \in Entries, Holds(v, f)'
                   PROVE  HeldRow(v, f)'
        BY DEF HeldInv
      <3>1. CASE v = w
        BY <1>3, <1>5, <2>1, <2>2, <3>1 DEF HeldRow
      <3>2. CASE v # w
        BY <1>2, <1>3, <1>5, <2>1, <2>2, <3>2 DEF Inv, HeldInv, HeldRow
      <3> QED
        BY <3>1, <3>2
    <2> QED
      BY <1>4, <2>3, <2>4, <2>5 DEF Inv
  <1> QED
    BY <1>6, <1>7

LEMMA ClaimInv == ASSUME Inv, NEW w \in Workers, Claim(w) PROVE Inv'
  <1>1. breaker' \in [Workers -> Breakers]
    BY DEF Inv, TypeOK, Claim
  <1>2. CASE (\A e \in Entries : ~Claimable(e)) /\ GoTo(w, "idle") /\ UNCHANGED <<entry, faults>>
    <2>1. faults' \in 0..MaxFaults
      BY <1>2 DEF Inv, TypeOK
    <2> QED
      BY <1>1, <1>2, <2>1, LetGoInv DEF Claim
  <1>3. CASE GoTo(w, "idle") /\ Fault /\ UNCHANGED entry
    <2>1. faults' \in 0..MaxFaults
      BY <1>3 DEF Inv, TypeOK, Fault
    <2> QED
      BY <1>1, <1>3, <2>1, LetGoInv DEF Claim
  <1>4. CASE \E e \in Entries :
          /\ Earliest(e)
          /\ entry' = [entry EXCEPT ![e].status = "processing"]
          /\ \/ /\ worker' = [worker EXCEPT ![w] =
                     [pc |-> "deliver", entry |-> e, attempts |-> entry[e].attempts]]
                /\ UNCHANGED faults
             \/ GoTo(w, "idle") /\ Fault
    BY <1>4, TakenInv DEF Claim
  <1> QED
    BY <1>2, <1>3, <1>4 DEF Claim

\* The breaker of a worker that goes on keeps its type.
LEMMA TrippedType == ASSUME NEW b \in Breakers PROVE Tripped(b) \in Breakers /\ Closed \in Breakers
BY DEF Tripped, Closed, Breakers

LEMMA DeliverInv == ASSUME Inv, NEW w \in Workers, Deliver(w) PROVE Inv'
  <1> DEFINE e == worker[w].entry
  <1>1. worker[w].pc = "deliver" /\ e \in Entries /\ Holds(w, e)
    BY HoldingWorker DEF Inv, Deliver, Holding
  <1>2. /\ entry' = entry /\ faults' = faults
        /\ entry[e].status = "processing" /\ worker[w].attempts = entry[e].attempts
        /\ sent[e] <= entry[e].attempts
    BY <1>1 DEF Inv, HeldInv, HeldRow, Deliver
  <1>3. \A v \in Workers : Holds(v, e) => v = w
    BY <1>1 DEF Inv, OneHolder
  <1>4. PICK pc \in {"mark", "fail"}, accepted \in {0, 1} :
          /\ GoTo(w, pc)
          /\ sent' = [sent EXCEPT ![e] = @ + accepted]
          /\ pc = "mark" => accepted = 1
    <2>1. CASE GoTo(w, "fail") /\ UNCHANGED sent
      <3>1. e \in Entries /\ sent \in [Entries -> Nat] /\ sent' = sent
        BY <1>1, <2>1 DEF Inv, TypeOK
      <3> HIDE DEF e
      <3>2. sent[e] + 0 = sent[e]
        BY <3>1
      <3>3. sent' = [sent EXCEPT ![e] = @ + 0]
        BY <3>1, <3>2
      <3> QED
        BY <2>1, <3>3
    <2>2. CASE GoTo(w, "mark") /\ sent' = [sent EXCEPT ![e] = @ + 1]
      BY <2>2
    <2>3. CASE \E accepted \in {0, 1} :
                 GoTo(w, "fail") /\ sent' = [sent EXCEPT ![e] = @ + accepted]
      BY <2>3
    <2> QED
      BY <2>1, <2>2, <2>3 DEF Deliver
  <1>5. /\ worker' \in [Workers -> Loops]
        /\ worker'[w].pc = pc /\ worker'[w].attempts = worker[w].attempts
        /\ \A v \in Workers : v # w => worker'[v] = worker[v]
        /\ \A v \in Workers, f \in Entries : Holds(v, f)' <=> Holds(v, f)
    BY <1>1, <1>4, GoToHolding DEF Inv, Holding
  <1>6. /\ sent' \in [Entries -> Nat]
        /\ sent'[e] = sent[e] + accepted
        /\ \A f \in Entries : f # e => sent'[f] = sent[f]
    <2>1. sent \in [Entries -> Nat] /\ e \in Entries
      BY <1>1 DEF Inv, TypeOK
    <2>2. sent' = [sent EXCEPT ![e] = @ + accepted] /\ accepted \in Nat
      BY <1>4
    <2> HIDE DEF e
    <2>3. sent[e] + accepted \in Nat
      BY <2>1, <2>2
    <2> QED
      BY <2>1, <2>2, <2>3
  <1>7. breaker' \in [Workers -> Breakers]
    <2>1. \/ breaker' = breaker
          \/ breaker' = [breaker EXCEPT ![w] = Closed]
          \/ breaker' = [breaker EXCEPT ![w] = Tripped(breaker[w])]
      BY DEF Deliver
    <2>2. breaker \in [Workers -> Breakers] /\ breaker[w] \in Breakers
      BY DEF Inv, TypeOK
    <2>3. Closed \in Breakers /\ Tripped(breaker[w]) \in Breakers
      BY <2>2, TrippedType
    <2> QED
      BY <2>1, <2>2, <2>3
  <1>8. TypeOK'
    BY <1>2, <1>5, <1>6, <1>7 DEF Inv, TypeOK
  <1>9. OneHolder'
    BY <1>5 DEF Inv, OneHolder
  <1>10. RowInv'
    BY <1>1, <1>2, <1>6 DEF Inv, TypeOK, Rows, RowInv
  <1>11. HeldInv'
    <2> SUFFICES ASSUME NEW v \in Workers, NEW f \in Entries, Holds(v, f)'
                 PROVE  HeldRow(v, f)'
      BY DEF HeldInv
    <2>1. CASE v = w
      <3>1. f = e
        BY <1>1, <1>5, <2>1 DEF Holds
      <3> QED
        BY <1>1, <1>2, <1>4, <1>5, <1>6, <2>1, <3>1 DEF HeldRow, Inv, TypeOK
    <2>2. CASE v # w
      <3>1. f # e /\ HeldRow(v, f)
        BY <1>3, <1>5, <2>2 DEF Inv, HeldInv
      <3> QED
        BY <1>2, <1>5, <1>6, <2>2, <3>1 DEF HeldRow
    <2> QED
      BY <2>1, <2>2
  <1> QED
    BY <1>8, <1>9, <1>10, <1>11 DEF Inv

\* A step in which a worker's held row is marked or counted, and the worker goes on.
LEMMA MarkInv == ASSUME Inv, NEW w \in Workers, Mark(w) PROVE Inv'
  <1> DEFINE e == worker[w].entry
  <1>1. worker[w].pc = "mark" /\ e \in Entries /\ Holds(w, e)
    BY HoldingWorker DEF Inv, Mark, Holding
  <1>2. /\ entry[e] \in Rows /\ entry[e].status = "processing"
        /\ worker[w].attempts = entry[e].attempts
        /\ sent[e] > 0 /\ sent' = sent /\ breaker' = breaker
    BY <1>1 DEF Inv, TypeOK, HeldInv, HeldRow, Mark
  <1>3. \A v \in Workers : Holds(v, e) => v = w
    BY <1>1 DEF Inv, OneHolder
  <1>4. faults' \in 0..MaxFaults
    BY DEF Inv, TypeOK, Mark, Fault
  <1>5. CASE GoTo(w, "claim") /\ entry' = [entry EXCEPT ![e] = Processed(@)]
    <2>1. /\ worker' \in [Workers -> Loops]
          /\ \A v \in Workers : v # w => worker'[v] = worker[v]
          /\ \A v \in Workers, f \in Entries : Holds(v, f)' => v # w /\ Holds(v, f)
      BY <1>5, GoToFree DEF Inv
    <2>2. /\ entry' \in [Entries -> Rows]
          /\ entry'[e].status = "processed" /\ entry'[e].attempts = entry[e].attempts
          /\ \A f \in Entries : f # e => entry'[f] = entry[f]
      BY <1>1, <1>2, <1>5, ProcessedRow DEF Inv, TypeOK
    <2>3. TypeOK'
      BY <1>2, <1>4, <2>1, <2>2 DEF Inv, TypeOK
    <2>4. OneHolder'
      BY <2>1 DEF Inv, OneHolder
    <2>5. RowInv'
      BY <1>1, <1>2, <2>2 DEF Inv, TypeOK, Rows, RowInv
    <2>6. HeldInv'
      BY <1>2, <1>3, <2>1, <2>2 DEF Inv, HeldInv, HeldRow
    <2> QED
      BY <2>3, <2>4, <2>5, <2>6 DEF Inv
  <1>6. CASE GoTo(w, "fail") /\ (entry' = [entry EXCEPT ![e] = Processed(@)] \/ entry' = entry)
    <2>1. /\ worker' \in [Workers -> Loops]
          /\ worker'[w].pc = "fail" /\ worker'[w].attempts = worker[w].attempts
          /\ \A v \in Workers : v # w => worker'[v] = worker[v]
          /\ \A v \in Workers, f \in Entries : Holds(v, f)' <=> Holds(v, f)
      BY <1>1, <1>6, GoToHolding DEF Inv, Holding
    <2>2. /\ entry' \in [Entries -> Rows]
          /\ entry'[e].status \in {"processing", "processed"}
          /\ entry'[e].attempts = entry[e].attempts
          /\ \A f \in Entries : f # e => entry'[f] = entry[f]
      BY <1>1, <1>2, <1>6, ProcessedRow DEF Inv, TypeOK
    <2>3. TypeOK'
      BY <1>2, <1>4, <2>1, <2>2 DEF Inv, TypeOK
    <2>4. OneHolder'
      BY <2>1 DEF Inv, OneHolder
    <2>5. RowInv'
      BY <1>1, <1>2, <2>2 DEF Inv, TypeOK, Rows, RowInv
    <2>6. HeldInv'
      <3> SUFFICES ASSUME NEW v \in Workers, NEW f \in Entries, Holds(v, f)'
                   PROVE  HeldRow(v, f)'
        BY DEF HeldInv
      <3>1. CASE v = w
        <4>1. f = e
          BY <1>1, <2>1, <3>1 DEF Holds
        <4> QED
          BY <1>2, <2>1, <2>2, <3>1, <4>1 DEF HeldRow
      <3>2. CASE v # w
        <4>1. f # e /\ HeldRow(v, f)
          BY <1>3, <2>1, <3>2 DEF Inv, HeldInv
        <4> QED
          BY <1>2, <2>1, <2>2, <3>2, <4>1 DEF HeldRow
      <3> QED
        BY <3>1, <3>2
    <2> QED
      BY <2>3, <2>4, <2>5, <2>6 DEF Inv
  <1> QED
    BY <1>5, <1>6 DEF Mark

LEMMA FailInv == ASSUME Inv, NEW w \in Workers, Fail(w) PROVE Inv'
  <1> DEFINE e == worker[w].entry
             row == FailedAttempt(entry[e], worker[w].attempts)
  <1>1. worker[w].pc = "fail" /\ e \in Entries /\ Holds(w, e) /\ worker[w].attempts \in 0..MaxAttempts
    BY HoldingWorker DEF Inv, Fail, Holding
  <1>2. /\ entry[e] \in Rows
        /\ \/ entry[e].status = "processing" /\ worker[w].attempts = entry[e].attempts
           \/ entry[e].status = "processed"
        /\ sent' = sent /\ breaker' = breaker
    BY <1>1 DEF Inv, TypeOK, HeldInv, HeldRow, Fail
  <1>3. \A v \in Workers : Holds(v, e) => v = w
    BY <1>1 DEF Inv, OneHolder
  <1>4. faults' \in 0..MaxFaults
    BY DEF Inv, TypeOK, Fail, Fault
  <1>5. PICK pc \in {"idle", "claim"} :
          GoTo(w, pc) /\ (entry' = [entry EXCEPT ![e] = row] \/ entry' = entry)
    BY DEF Fail
  <1>6. /\ worker' \in [Workers -> Loops]
        /\ \A v \in Workers : v # w => worker'[v] = worker[v]
        /\ \A v \in Workers, f \in Entries : Holds(v, f)' => v # w /\ Holds(v, f)
    BY <1>5, GoToFree DEF Inv
  <1>7. CASE entry' = entry
    BY <1>2, <1>4, <1>5, <1>7, LetGoInv DEF Inv, TypeOK
  <1>8. CASE entry' = [entry EXCEPT ![e] = row]
    <2>1. entry[e].status = "processing" => entry[e].attempts < MaxAttempts
      <3>1. entry[e].status = "processing" => entry[e].attempts # MaxAttempts
        BY <1>1 DEF Inv, RowInv
      <3> QED
        BY <1>2, <3>1 DEF Rows
    <2>2. /\ row \in Rows
          /\ entry[e].status # "processing" => row = entry[e]
          /\ entry[e].status = "processing" =>
               /\ row.attempts = entry[e].attempts + 1
               /\ row.status = IF entry[e].attempts + 1 = MaxAttempts THEN "failed" ELSE "pending"
      BY <1>1, <1>2, <2>1, FailedAttemptRow
    <2> HIDE DEF row
    <2>3. /\ entry' \in [Entries -> Rows] /\ entry'[e] = row
          /\ \A f \in Entries : f # e => entry'[f] = entry[f]
      BY <1>1, <1>8, <2>2 DEF Inv, TypeOK
    <2>4. TypeOK'
      BY <1>2, <1>4, <1>6, <2>3 DEF Inv, TypeOK
    <2>5. OneHolder'
      BY <1>6 DEF Inv, OneHolder
    <2>6. RowInv'
      BY <1>1, <1>2, <2>1, <2>2, <2>3 DEF Inv, TypeOK, Rows, RowInv
    <2>7. HeldInv'
      <3> SUFFICES ASSUME NEW v \in Workers, NEW f \in Entries, Holds(v, f)'
                   PROVE  HeldRow(v, f)'
        BY DEF HeldInv
      <3>1. v # w /\ f # e /\ HeldRow(v, f)
        BY <1>3, <1>6 DEF Inv, HeldInv
      <3>2. worker'[v] = worker[v] /\ entry'[f] = entry[f] /\ sent'[f] = sent[f]
        BY <1>2, <1>6, <2>3, <3>1
      <3> QED
        BY <3>1, <3>2 DEF HeldRow
    <2> QED
      BY <2>4, <2>5, <2>6, <2>7 DEF Inv
  <1> QED
    BY <1>5, <1>7, <1>8

LEMMA StutterInv == ASSUME Inv, UNCHANGED vars PROVE Inv'
BY DEF Inv, TypeOK, OneHolder, RowInv, HeldInv, HeldRow, Holds, vars

LEMMA NextInv == ASSUME Inv, [Next]_vars PROVE Inv'
  <1>1. ASSUME NEW e \in Entries, Enqueue(e) \/ BackoffEnds(e) PROVE Inv'
    BY <1>1, EnqueueInv, BackoffEndsInv
  <1>2. ASSUME NEW w \in Workers, Poll(w) PROVE Inv'
    <2>1. breaker' \in [Workers -> Breakers] /\ faults' \in 0..MaxFaults
      BY <1>2 DEF Inv, TypeOK, Poll
    <2> QED
      BY <1>2, <2>1, LetGoInv DEF Poll
  <1>3. ASSUME NEW w \in Workers, Claim(w) \/ Deliver(w) \/ Mark(w) \/ Fail(w) PROVE Inv'
    BY <1>3, ClaimInv, DeliverInv, MarkInv, FailInv
  <1>4. ASSUME NEW w \in Workers, CooldownEnds(w) PROVE Inv'
    <2>1. breaker' \in [Workers -> Breakers]
      BY <1>4 DEF Inv, TypeOK, CooldownEnds, Breakers
    <2> QED
      BY <1>4, <2>1 DEF Inv, TypeOK, OneHolder, RowInv, HeldInv, HeldRow, Holds, CooldownEnds
  <1>5. ASSUME NEW w \in Workers, Crash(w) PROVE Inv'
    <2>1. breaker' \in [Workers -> Breakers] /\ faults' \in 0..MaxFaults
      BY <1>5 DEF Inv, TypeOK, Crash, Fault, Closed, Breakers
    <2> QED
      BY <1>5, <2>1, LetGoInv DEF Crash
  <1> QED
    BY <1>1, <1>2, <1>3, <1>4, <1>5, StutterInv DEF Next, Loop

-----------------------------------------------------------------------------
(* The theorems.                                                              *)

\* The rows, the delivery loops, the breakers and the counters keep their types.
THEOREM Invariance == Spec => []Inv
  <1>1. Init => Inv
    BY InitInv
  <1>2. Inv /\ [Next]_vars => Inv'
    BY NextInv
  <1> QED
    BY <1>1, <1>2, PTL DEF Spec

\* Rows, loops, breakers and counters keep their types.
THEOREM OutboxTypeCorrect == Spec => []TypeOK
BY Invariance, PTL DEF Inv

\* No two processes ever deliver the same row at the same time
\* (claimNextPending hands it to one).
THEOREM OneDeliveryAtATime == Spec => []OneHolder
BY Invariance, PTL DEF Inv

\* A message goes out at most once more than its failed attempts
\* (markFailedAttempt counts each).
THEOREM DeliveriesArePaid == Spec => []SentIsPaid
  <1>1. Inv => SentIsPaid
    BY DEF Inv, RowInv, SentIsPaid
  <1> QED
    BY <1>1, Invariance, PTL

\* A row marked processed was delivered (processOutboxEntry sends, then marks).
THEOREM ProcessedWereSent == Spec => []ProcessedWasSent
  <1>1. Inv => ProcessedWasSent
    BY DEF Inv, RowInv, ProcessedWasSent
  <1> QED
    BY <1>1, Invariance, PTL

\* A row is given up exactly when MAX_ATTEMPTS attempts have failed.
THEOREM FailedAreExhausted == Spec => []FailedIsExhausted
  <1>1. Inv => FailedIsExhausted
    BY DEF Inv, RowInv, FailedIsExhausted
  <1> QED
    BY <1>1, Invariance, PTL

\* A processed row is never touched or sent again (the filters of markProcessed and
\* markFailedAttempt match rows in processing only).
THEOREM ProcessedStaysProcessed == Spec => ProcessedIsFinal
  <1> DEFINE Final == \A e \in Entries :
               entry[e].status = "processed" => entry'[e] = entry[e] /\ sent'[e] = sent[e]
  <1>1. ASSUME Inv, Next PROVE Final
    <2> SUFFICES ASSUME NEW e \in Entries, entry[e].status = "processed"
                 PROVE  entry'[e] = entry[e] /\ sent'[e] = sent[e]
      OBVIOUS
    <2>1. entry \in [Entries -> Rows] /\ sent \in [Entries -> Nat] /\ entry[e] \in Rows
      BY <1>1 DEF Inv, TypeOK
    <2>2. CASE \E f \in Entries : Enqueue(f) \/ BackoffEnds(f)
      BY <2>1, <2>2 DEF Enqueue, BackoffEnds
    <2>3. ASSUME NEW w \in Workers, Poll(w) \/ CooldownEnds(w) \/ Crash(w)
          PROVE  entry'[e] = entry[e] /\ sent'[e] = sent[e]
      BY <2>3 DEF Poll, CooldownEnds, Crash
    <2>4. ASSUME NEW w \in Workers, Claim(w)
          PROVE  entry'[e] = entry[e] /\ sent'[e] = sent[e]
      BY <2>1, <2>4 DEF Claim, Earliest, Claimable
    <2>5. ASSUME NEW w \in Workers, Deliver(w)
          PROVE  entry'[e] = entry[e] /\ sent'[e] = sent[e]
      <3>1. worker[w].entry # e
        BY <1>1, <2>5, HoldingWorker DEF Inv, HeldInv, HeldRow, Deliver, Holding
      <3> QED
        BY <2>1, <2>5, <3>1 DEF Deliver
    <2>6. ASSUME NEW w \in Workers, Mark(w)
          PROVE  entry'[e] = entry[e] /\ sent'[e] = sent[e]
      <3>1. worker[w].entry # e
        BY <1>1, <2>6, HoldingWorker DEF Inv, HeldInv, HeldRow, Mark, Holding
      <3> QED
        BY <2>1, <2>6, <3>1 DEF Mark
    <2>7. ASSUME NEW w \in Workers, Fail(w)
          PROVE  entry'[e] = entry[e] /\ sent'[e] = sent[e]
      <3>1. FailedAttempt(entry[e], worker[w].attempts) = entry[e]
        BY DEF FailedAttempt
      <3> QED
        BY <2>1, <2>7, <3>1 DEF Fail
    <2> QED
      BY <1>1, <2>2, <2>3, <2>4, <2>5, <2>6, <2>7 DEF Next, Loop
  <1>2. Inv /\ [Next]_vars => [Final]_vars
    BY <1>1
  <1> QED
    BY <1>2, Invariance, PTL DEF Spec, ProcessedIsFinal

-----------------------------------------------------------------------------
(* Outbox implements Delivery.                                                *)

\* What a step does to one row is what Delivery allows, or nothing.
LEMMA PromiseOfRow ==
  ASSUME TypeOK, NEW e \in Entries, NEW row \in Rows,
         entry' = [entry EXCEPT ![e] = row], sent' = sent,
         \/ /\ Promised(row) = Promised(entry[e]) /\ row.attempts = entry[e].attempts
         \/ /\ Promised(entry[e]) = "unwritten" /\ Promised(row) = "waiting"
            /\ row.attempts = entry[e].attempts
         \/ /\ Promised(entry[e]) = "waiting" /\ Promised(row) = "delivered"
            /\ row.attempts = entry[e].attempts /\ sent[e] > 0
         \/ /\ Promised(entry[e]) = "waiting" /\ row.attempts = entry[e].attempts + 1
            /\ Promised(row) = IF row.attempts = MaxAttempts THEN "given up" ELSE "waiting"
  PROVE  [Promise!Next]_(Promise!vars)
  <1> DEFINE state == [f \in Entries |-> Promised(entry[f])]
             tries == [f \in Entries |-> entry[f].attempts]
  <1>1. /\ state' = [state EXCEPT ![e] = Promised(row)]
        /\ tries' = [tries EXCEPT ![e] = row.attempts]
    BY DEF TypeOK
  <1>2. state[e] = Promised(entry[e]) /\ tries[e] = entry[e].attempts
    OBVIOUS
  <1>3. CASE Promised(row) = Promised(entry[e]) /\ row.attempts = entry[e].attempts
    BY <1>1, <1>2, <1>3 DEF Promise!vars
  <1>4. CASE /\ Promised(entry[e]) = "unwritten" /\ Promised(row) = "waiting"
             /\ row.attempts = entry[e].attempts
    <2>1. Promise!Write(e)
      BY <1>1, <1>2, <1>4 DEF Promise!Write
    <2> QED
      BY <2>1 DEF Promise!Next
  <1>5. CASE /\ Promised(entry[e]) = "waiting" /\ Promised(row) = "delivered"
             /\ row.attempts = entry[e].attempts /\ sent[e] > 0
    <2>1. Promise!Confirm(e)
      BY <1>1, <1>2, <1>5 DEF Promise!Confirm
    <2> QED
      BY <2>1 DEF Promise!Next
  <1>6. CASE /\ Promised(entry[e]) = "waiting" /\ row.attempts = entry[e].attempts + 1
             /\ Promised(row) = IF row.attempts = MaxAttempts THEN "given up" ELSE "waiting"
    <2>1. state[e] = "waiting" /\ tries' = [tries EXCEPT ![e] = @ + 1]
      BY <1>1, <1>2, <1>6
    <2>2. tries'[e] = row.attempts
      BY <1>1
    <2>3. Promised(row) # "waiting" =>
            row.attempts = MaxAttempts /\ state' = [state EXCEPT ![e] = "given up"]
      BY <1>1, <1>6
    <2>4. Promised(row) = "waiting" => row.attempts # MaxAttempts /\ state' = state
      BY <1>1, <1>2, <1>6
    <2>5. state' = IF tries'[e] = MaxAttempts THEN [state EXCEPT ![e] = "given up"] ELSE state
      BY <2>2, <2>3, <2>4
    <2>6. Promise!Miss(e)
      BY <2>1, <2>5 DEF Promise!Miss
    <2> QED
      BY <2>6 DEF Promise!Next
  <1> QED
    BY <1>3, <1>4, <1>5, <1>6

\* Every step of the workers and their callers is a step of Delivery or none.
LEMMA NextPromise == ASSUME Inv, [Next]_vars PROVE [Promise!Next]_(Promise!vars)
  <1>1. entry \in [Entries -> Rows] /\ sent \in [Entries -> Nat]
    BY DEF Inv, TypeOK
  <1>2. ASSUME UNCHANGED <<entry, sent>> PROVE [Promise!Next]_(Promise!vars)
    BY <1>2 DEF Promise!vars
  <1>3. ASSUME NEW e \in Entries, Enqueue(e) \/ BackoffEnds(e)
        PROVE  [Promise!Next]_(Promise!vars)
    <2>1. CASE Enqueue(e)
      <3> DEFINE row == [status |-> "pending", attempts |-> 0, due |-> TRUE]
      <3>1. row \in Rows /\ entry[e].attempts = 0
        BY <1>1, <2>1 DEF Inv, RowInv, Rows, RowStates, Enqueue
      <3>2. entry' = [entry EXCEPT ![e] = row] /\ sent' = sent
        BY <2>1 DEF Enqueue
      <3>3. /\ Promised(entry[e]) = "unwritten" /\ Promised(row) = "waiting"
            /\ row.attempts = entry[e].attempts
        BY <2>1, <3>1 DEF Enqueue, Promised
      <3> QED
        BY <3>1, <3>2, <3>3, PromiseOfRow DEF Inv
    <2>2. CASE BackoffEnds(e)
      <3> DEFINE row == [entry[e] EXCEPT !.due = TRUE]
      <3>1. row \in Rows
        BY <1>1 DEF Rows
      <3>2. Promised(row) = Promised(entry[e]) /\ row.attempts = entry[e].attempts
        BY <1>1 DEF Rows, Promised
      <3>3. entry' = [entry EXCEPT ![e] = row] /\ sent' = sent
        BY <1>1, <2>2 DEF BackoffEnds
      <3> QED
        BY <3>1, <3>2, <3>3, PromiseOfRow DEF Inv
    <2> QED
      BY <1>3, <2>1, <2>2
  <1>4. ASSUME NEW w \in Workers, Claim(w) PROVE [Promise!Next]_(Promise!vars)
    <2>1. CASE entry' = entry
      BY <1>2, <1>4, <2>1 DEF Claim
    <2>2. CASE \E e \in Entries : /\ Earliest(e)
                                  /\ entry' = [entry EXCEPT ![e].status = "processing"]
      <3>1. PICK e \in Entries : /\ Earliest(e)
                                 /\ entry' = [entry EXCEPT ![e].status = "processing"]
        BY <2>2
      <3> DEFINE row == [entry[e] EXCEPT !.status = "processing"]
      <3>2. row \in Rows
        BY <1>1 DEF Rows, RowStates
      <3>3. Promised(row) = Promised(entry[e]) /\ row.attempts = entry[e].attempts
        BY <1>1, <3>1 DEF Rows, Promised, Earliest, Claimable
      <3>4. entry' = [entry EXCEPT ![e] = row] /\ sent' = sent
        BY <1>1, <1>4, <3>1 DEF Claim
      <3> QED
        BY <3>2, <3>3, <3>4, PromiseOfRow DEF Inv
    <2> QED
      BY <1>4, <2>1, <2>2 DEF Claim
  <1>5. ASSUME NEW w \in Workers, Deliver(w) PROVE [Promise!Next]_(Promise!vars)
    <2> DEFINE e == worker[w].entry
    <2>1. e \in Entries /\ Holds(w, e) /\ worker[w].pc = "deliver" /\ entry' = entry
      BY <1>5, HoldingWorker DEF Inv, Deliver, Holding
    <2>2. entry[e].status = "processing" /\ sent[e] <= entry[e].attempts
      BY <2>1 DEF Inv, HeldInv, HeldRow
    <2>3. sent' = sent \/ sent' = [sent EXCEPT ![e] = @ + 1]
      <3>1. sent' = sent \/ \E accepted \in {0, 1} : sent' = [sent EXCEPT ![e] = @ + accepted]
        BY <1>5 DEF Deliver
      <3> HIDE DEF e
      <3>2. [sent EXCEPT ![e] = @ + 0] = sent
        BY <1>1, <2>1
      <3> QED
        BY <3>1, <3>2
    <2>4. CASE sent' = [sent EXCEPT ![e] = @ + 1]
      <3> HIDE DEF e
      <3>1. Promise!Send(e)
        BY <2>1, <2>2, <2>4 DEF Promise!Send, Promised
      <3> QED
        BY <2>1, <3>1 DEF Promise!Next
    <2> QED
      BY <1>2, <2>1, <2>3, <2>4
  <1>6. ASSUME NEW w \in Workers, Mark(w) PROVE [Promise!Next]_(Promise!vars)
    <2> DEFINE e   == worker[w].entry
               row == Processed(entry[e])
    <2>1. e \in Entries /\ Holds(w, e) /\ worker[w].pc = "mark" /\ sent' = sent
      BY <1>6, HoldingWorker DEF Inv, Mark, Holding
    <2>2. entry[e] \in Rows /\ entry[e].status = "processing" /\ sent[e] > 0
      BY <1>1, <2>1 DEF Inv, HeldInv, HeldRow
    <2>3. row \in Rows /\ row.status = "processed" /\ row.attempts = entry[e].attempts
      BY <2>2, ProcessedRow
    <2>4. entry' = [entry EXCEPT ![e] = row] \/ entry' = entry
      BY <1>6 DEF Mark
    <2> HIDE DEF e, row
    <2>5. Promised(entry[e]) = "waiting" /\ Promised(row) = "delivered"
      BY <2>2, <2>3 DEF Promised
    <2> QED
      BY <1>2, <2>1, <2>2, <2>3, <2>4, <2>5, PromiseOfRow DEF Inv
  <1>7. ASSUME NEW w \in Workers, Fail(w) PROVE [Promise!Next]_(Promise!vars)
    <2> DEFINE e   == worker[w].entry
               row == FailedAttempt(entry[e], worker[w].attempts)
    <2>1. /\ e \in Entries /\ Holds(w, e) /\ worker[w].pc = "fail" /\ sent' = sent
          /\ worker[w].attempts \in 0..MaxAttempts
      BY <1>7, HoldingWorker DEF Inv, Fail, Holding
    <2>2. /\ entry[e] \in Rows
          /\ \/ entry[e].status = "processing" /\ worker[w].attempts = entry[e].attempts
             \/ entry[e].status = "processed"
          /\ entry[e].status = "processing" => entry[e].attempts < MaxAttempts
      <3>1. entry[e] \in Rows /\ HeldRow(w, e)
        BY <1>1, <2>1 DEF Inv, HeldInv
      <3>2. entry[e].status = "processing" => entry[e].attempts # MaxAttempts
        BY <2>1 DEF Inv, RowInv
      <3> QED
        BY <3>1, <3>2 DEF HeldRow, Rows
    <2>3. /\ row \in Rows
          /\ entry[e].status # "processing" => row = entry[e]
          /\ entry[e].status = "processing" =>
               /\ row.attempts = entry[e].attempts + 1
               /\ row.status = IF entry[e].attempts + 1 = MaxAttempts THEN "failed" ELSE "pending"
      BY <2>1, <2>2, FailedAttemptRow
    <2>4. entry' = [entry EXCEPT ![e] = row] \/ entry' = entry
      BY <1>7 DEF Fail
    <2> HIDE DEF e, row
    <2>5. CASE entry[e].status = "processing"
      <3>1. /\ Promised(entry[e]) = "waiting"
            /\ Promised(row) = IF row.attempts = MaxAttempts THEN "given up" ELSE "waiting"
        BY <2>3, <2>5 DEF Promised
      <3> QED
        BY <1>2, <2>1, <2>3, <2>4, <2>5, <3>1, PromiseOfRow DEF Inv
    <2>6. CASE entry[e].status # "processing"
      <3>1. entry' = entry
        BY <1>1, <2>1, <2>3, <2>4, <2>6
      <3> QED
        BY <1>2, <2>1, <3>1
    <2> QED
      BY <2>5, <2>6
  <1>8. ASSUME NEW w \in Workers, Poll(w) \/ CooldownEnds(w) \/ Crash(w)
        PROVE  [Promise!Next]_(Promise!vars)
    BY <1>2, <1>8 DEF Poll, CooldownEnds, Crash
  <1>9. CASE UNCHANGED vars
    BY <1>2, <1>9 DEF vars
  <1> QED
    BY <1>3, <1>4, <1>5, <1>6, <1>7, <1>8, <1>9 DEF Next, Loop

\* The outbox keeps the promise of Delivery: at least one copy before a message
\* counts as delivered, no copy without a failed try to pay for it, and no return
\* from delivered or given up.
THEOREM OutboxImplementsDelivery == Spec => Delivers
  <1>1. Init => Promise!Init
    BY DEF Init, Promise!Init, Promised
  <1>2. Inv /\ [Next]_vars => [Promise!Next]_(Promise!vars)
    BY NextPromise
  <1> QED
    BY <1>1, <1>2, Invariance, PTL DEF Spec, Delivers, Promise!Spec
=============================================================================
