---------------------------- MODULE WriteRequest ----------------------------
(* The HTTP requests with which a client tries, and tries again, one write:   *)
(* all carry the same Idempotency-Key.                                        *)
(*                                                                            *)
(* A request passes the idempotency middleware, runs its handler inside       *)
(* withTransaction (executeWrite), answers, and when the answer has been sent *)
(* two listeners run: one keeps or deletes the key, the other hands over the  *)
(* effects (e-mails, audit rows) the handler has recorded to be run after the *)
(* transaction.  The key lives in Redis, which all processes share; each      *)
(* request here has a process of its own, as far as its effect queue goes.    *)
EXTENDS Naturals, Sequences, FiniteSets

CONSTANTS
  Attempts,       \* the requests
  Styles,         \* how the handlers of this instance answer
  MaxRetries,     \* DEFAULT_MAX_RETRIES of an effect
  MaxMishaps      \* bound on the mishaps of a run

\* A handler returns its result, which is sent after the commit, or it answers
\* by itself from inside the transaction.
ASSUME StylesAssumption == Styles \subseteq {"returns", "direct"}
ASSUME BoundsAssumption == MaxRetries \in Nat /\ MaxMishaps \in Nat
ASSUME AttemptsAssumption == IsFiniteSet(Attempts)

VARIABLES
  style,          \* how the handler of this route answers
  key,            \* what Redis holds under the key
  req,            \* each request
  effects,        \* its side effects
  mishaps,        \* transient errors, lost answers, clients and processes gone, expiries
  released        \* those after which the write may rightly be executed once more

vars == <<style, key, req, effects, mishaps, released>>

Statuses == {"ok", "refused", "error"}          \* 2xx, 4xx, 5xx
\* "ok" and "refused": completed, with that response.
Keys     == {"none", "inProgress", "ok", "refused"}
Phases   == {"new", "asking", "accepted", "running", "commit", "ended", "done", "dead"}

Requests ==
  [phase: Phases,
   step: {"start", "wrote", "answered"},                   \* of the handler
   tx: {"none", "open", "committed", "aborted", "plain", "plainDone", "plainFailed"},
   status: Statuses \cup {"none"},                         \* res.statusCode
   sent: BOOLEAN,                                          \* res.headersSent
   told: Statuses \cup {"none", "duplicate"},              \* what the client received
   hook: {"none", "armed", "finished", "closed", "closedEarly"},
   flush: {"none", "waiting", "now", "done"}]

NewRequest == [phase |-> "new", step |-> "start", tx |-> "none", status |-> "none",
               sent |-> FALSE, told |-> "none", hook |-> "none", flush |-> "none"]

NoEffects == [recorded |-> 0, pending |-> 0, queue |-> <<>>, ran |-> 0, gaveUp |-> 0]

Effects == [recorded: Nat, pending: Nat, queue: Seq(0..MaxRetries), ran: Nat, gaveUp: Nat]

Init ==
  /\ style \in Styles
  /\ key = "none"
  /\ req = [r \in Attempts |-> NewRequest]
  /\ effects = [r \in Attempts |-> NoEffects]
  /\ mishaps = 0 /\ released = 0

NoMishap == UNCHANGED <<mishaps, released>>
Mishap   == mishaps < MaxMishaps /\ mishaps' = mishaps + 1

-----------------------------------------------------------------------------
(* The idempotency middleware: SET NX, and when the key is there, GET.        *)

\* Mutant: the key is looked at first and written later, unconditionally.
ArriveUnlocked(r) ==
  /\ req[r].phase = "new"
  /\ key' = "inProgress"
  /\ req' = [req EXCEPT ![r].phase = "accepted", ![r].hook = "armed"]
  /\ UNCHANGED <<style, effects, mishaps, released>>

Arrive(r) ==
  /\ req[r].phase = "new"
  /\ UNCHANGED <<style, effects, mishaps, released>>
  /\ \/ /\ key = "none"
        /\ key' = "inProgress"
        /\ req' = [req EXCEPT ![r].phase = "accepted", ![r].hook = "armed"]
     \/ /\ key # "none"
        /\ req' = [req EXCEPT ![r].phase = "asking"]
        /\ UNCHANGED key

\* A completed key replays its response; any other is a duplicate.
Ask(r) ==
  /\ req[r].phase = "asking"
  /\ req' = [req EXCEPT ![r].phase = "done",
                        ![r].told = IF key # "inProgress" /\ key # "none" THEN key ELSE "duplicate"]
  /\ UNCHANGED <<style, key, effects, mishaps, released>>

-----------------------------------------------------------------------------
(* executeWrite and the handler.                                              *)

\* startSession may fail, or the route may skip transactions: then the handler
\* runs without one.
Begin(r) == \E tx \in {"open", "plain"} :
  /\ req[r].phase = "accepted"
  /\ req' = [req EXCEPT ![r].phase = "running", ![r].tx = tx]
  /\ UNCHANGED <<style, key, effects, mishaps, released>>

\* The handler makes its writes and records an effect.
Work(r) ==
  /\ req[r].phase = "running" /\ req[r].step = "start"
  /\ req' = [req EXCEPT ![r].step = "wrote"]
  /\ effects' = [effects EXCEPT ![r].recorded = @ + 1, ![r].pending = @ + 1]
  /\ UNCHANGED <<style, key, mishaps, released>>

Connected(r) == req[r].hook = "armed"

\* The client receives the first answer; a later one changes res.statusCode only.
Send(r, status) ==
  [req[r] EXCEPT !.status = status, !.sent = TRUE,
                 !.told = IF ~req[r].sent /\ Connected(r) THEN status ELSE @]

AnswerDirectly(r) == \E status \in Statuses :
  /\ style = "direct"
  /\ req[r].phase = "running" /\ req[r].step = "wrote"
  /\ req' = [req EXCEPT ![r] = [Send(r, status) EXCEPT !.step = "answered"]]
  /\ UNCHANGED <<style, key, effects, mishaps, released>>

\* The transaction is rolled back; without one, what is written stays written.
GivenUp(tx) == IF tx = "open" THEN "aborted" ELSE "plainFailed"

\* The handler's result decides: below 400 it is committed.
Return(r) == \E status \in Statuses :
  /\ req[r].phase = "running"
  /\ \/ style = "returns" /\ req[r].step = "wrote"
     \/ style = "direct" /\ req[r].step = "answered" /\ status = req[r].status
  /\ \/ /\ status = "ok" /\ req[r].tx = "open"
        /\ req' = [req EXCEPT ![r].phase = "commit", ![r].status = status]
     \/ /\ status = "ok" /\ req[r].tx = "plain"
        /\ req' = [req EXCEPT ![r].phase = "ended", ![r].status = status,
                              ![r].tx = "plainDone"]
     \/ /\ status # "ok"
        /\ req' = [req EXCEPT ![r].phase = "ended", ![r].status = status,
                              ![r].tx = GivenUp(@)]
  /\ UNCHANGED <<style, key, effects, mishaps, released>>

\* The handler throws; the error handler picks the status.
Throw(r) == \E status \in {"refused", "error"} :
  /\ req[r].phase = "running"
  /\ req' = [req EXCEPT ![r].phase = "ended", ![r].status = status, ![r].tx = GivenUp(@)]
  /\ UNCHANGED <<style, key, effects, mishaps, released>>

\* A call of the handler, or the commit, meets a transient error: withTransaction
\* runs the handler again, and what the first run recorded stays recorded.
Rerun(r) ==
  /\ req[r].tx = "open"
  /\ \/ req[r].phase = "running" /\ req[r].step # "answered"
     \/ req[r].phase = "commit"
  /\ req' = [req EXCEPT ![r].phase = "running", ![r].step = "start"]
  /\ Mishap
  /\ UNCHANGED <<style, key, effects, released>>

\* Mutant: an aborted commit is answered like a good one.
CommitUnchecked(r) ==
  /\ req[r].phase = "commit"
  /\ UNCHANGED <<style, key, effects, mishaps, released>>
  /\ \E tx \in {"committed", "aborted"} :
       req' = [req EXCEPT ![r].phase = "ended", ![r].tx = tx]

\* The commit succeeds, fails, or succeeds and its answer is lost.
Commit(r) ==
  /\ req[r].phase = "commit"
  /\ UNCHANGED <<style, key, effects>>
  /\ \/ /\ req' = [req EXCEPT ![r].phase = "ended", ![r].tx = "committed"]
        /\ NoMishap
     \/ /\ req' = [req EXCEPT ![r].phase = "ended", ![r].tx = "aborted", ![r].status = "error"]
        /\ NoMishap
     \/ /\ req' = [req EXCEPT ![r].phase = "ended", ![r].tx = "committed", ![r].status = "error"]
        /\ Mishap /\ released' = released + 1

\* wrapWriteHandler, or the error handler, answers after executeWrite.
Respond(r) ==
  /\ req[r].phase = "ended"
  /\ req' = [req EXCEPT ![r] = [Send(r, req[r].status) EXCEPT !.phase = "done"]]
  /\ UNCHANGED <<style, key, effects, mishaps, released>>

-----------------------------------------------------------------------------
(* What the end of a response sets off.                                       *)

\* transactionFinalized exists once executeWrite has a session; without it the
\* effects are handed over at once.
Scheduled(tx) == IF tx \in {"open", "committed", "aborted"} THEN "waiting" ELSE "now"

\* Mutant: a server error is kept for replay like any other answer.
KeptAlways(status) == status

\* The key after a response: deleted for a server error, completed otherwise.
Kept(status) == IF status = "error" THEN "none" ELSE status

\* 'finish': the answer has been handed to the client.  The Redis call may fail,
\* which is only logged.
FinishEvent(r) ==
  /\ req[r].sent /\ Connected(r)
  /\ req' = [req EXCEPT ![r].hook = "finished", ![r].flush = Scheduled(req[r].tx)]
  /\ \/ key' = Kept(req[r].status) /\ UNCHANGED mishaps
     \/ UNCHANGED key /\ Mishap
  /\ UNCHANGED <<style, effects, released>>

\* 'close' without 'finish': the client has gone.  The key stays in progress.
CloseEvent(r) ==
  /\ req[r].phase \in {"accepted", "running", "commit", "ended", "done"} /\ Connected(r)
  /\ req' = [req EXCEPT ![r].hook = IF req[r].phase = "accepted" THEN "closedEarly" ELSE "closed",
                        ![r].flush = Scheduled(req[r].tx)]
  /\ Mishap
  /\ UNCHANGED <<style, key, effects, released>>

\* Mutant: nothing waits for the transaction.
FlushReadyEarly(r) == req[r].flush \in {"waiting", "now"}

FlushReady(r) ==
  \/ req[r].flush = "now"
  \/ req[r].flush = "waiting" /\ req[r].phase \in {"ended", "done"}

\* Mutant: the transaction is not looked at.
ShouldRunAlways(tx) == TRUE

\* !transactionActive || transactionCommitted: the request is inactive before
\* executeWrite has a session and again after its finally block.
ShouldRun(tx) == tx # "open"

Flush(r) ==
  /\ FlushReady(r)
  /\ req' = [req EXCEPT ![r].flush = "done"]
  /\ effects' = [effects EXCEPT ![r].pending = 0,
                                ![r].queue = IF ShouldRun(req[r].tx)
                                             THEN @ \o [i \in 1..effects[r].pending |-> 0]
                                             ELSE @]
  /\ UNCHANGED <<style, key, mishaps, released>>

\* processQueue: a failing effect goes back to the end of the queue.
RunEffect(r) ==
  /\ effects[r].queue # <<>>
  /\ UNCHANGED <<style, key, req, mishaps, released>>
  /\ LET attempts == Head(effects[r].queue) + 1 IN
     \/ effects' = [effects EXCEPT ![r].queue = Tail(@), ![r].ran = @ + 1]
     \/ /\ attempts <= MaxRetries
        /\ effects' = [effects EXCEPT ![r].queue = Append(Tail(@), attempts)]
     \/ /\ attempts > MaxRetries
        /\ effects' = [effects EXCEPT ![r].queue = Tail(@), ![r].gaveUp = @ + 1]

-----------------------------------------------------------------------------
\* The key's 60 seconds are over.
Expire ==
  /\ key # "none" /\ key' = "none"
  /\ Mishap /\ released' = released + 1
  /\ UNCHANGED <<style, req, effects>>

\* The process of a request dies; MongoDB aborts an open transaction.
Crash(r) ==
  /\ req[r].phase \in Phases \ {"new", "dead"}
  /\ req' = [req EXCEPT ![r].phase = "dead", ![r].hook = "none", ![r].flush = "none",
                        ![r].tx = IF @ \in {"open", "plain"} THEN GivenUp(@) ELSE @]
  /\ effects' = [effects EXCEPT ![r].pending = 0, ![r].queue = <<>>]
  /\ Mishap
  /\ UNCHANGED <<style, key, released>>

Next == \/ \E r \in Attempts :
             \/ Arrive(r) \/ Ask(r) \/ Begin(r) \/ Work(r) \/ AnswerDirectly(r)
             \/ Return(r) \/ Throw(r) \/ Rerun(r) \/ Commit(r) \/ Respond(r)
             \/ FinishEvent(r) \/ CloseEvent(r) \/ Flush(r) \/ RunEffect(r) \/ Crash(r)
        \/ Expire

Spec == Init /\ [][Next]_vars
-----------------------------------------------------------------------------
(* Properties.                                                                *)

\* The key, the requests and their effects stay what the middleware can make them.
TypeOK ==
  /\ style \in Styles
  /\ key \in Keys
  /\ req \in [Attempts -> Requests]
  /\ effects \in [Attempts -> Effects]
  /\ mishaps \in 0..MaxMishaps /\ released \in 0..MaxMishaps

Succeeded(r) == req[r].tx \in {"committed", "plainDone"}

\* One key, one execution: the write takes effect once, and once more for each time
\* the key expired or a commit's answer was lost, whatever the client repeats.
ExecutedOnce == Cardinality({r \in Attempts : Succeeded(r)}) <= 1 + released

\* A client that is told of success, first hand or by a replay, has had its write
\* executed, if the handlers leave the answer to wrapWriteHandler (its comment, 4).
AnswersAreEarned ==
  style = "returns" /\ (\E r \in Attempts : req[r].told = "ok") =>
    \E r \in Attempts : Succeeded(r)

\* No effect is run, or queued to run, while its transaction is open.
EffectsAwaitTransaction == \A r \in Attempts :
  req[r].tx = "open" => effects[r].queue = <<>> /\ effects[r].ran = 0

\* No effect of a committed request is lost: each is still recorded, queued, run or
\* was tried as often as it may be, unless the process died or the client was gone
\* before the transaction began.
NoEffectLost == \A r \in Attempts :
  LET e == effects[r] IN
  req[r].tx = "committed" /\ req[r].phase # "dead" /\ req[r].hook # "closedEarly" =>
    e.recorded = e.pending + Len(e.queue) + e.ran + e.gaveUp
=============================================================================
