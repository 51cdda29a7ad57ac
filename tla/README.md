# Docketra: a verification project

TLA+ models of the parts of Docketra in which concurrent requests, scheduled jobs
and background workers change shared documents, TLC configurations that check them
on small instances, and TLAPS proofs for every size. Every definition is translated
from the code under `src/src/`; `PROJECT.json` (`map`) gives the lines of each.

Docketra is a multi-tenant office system: a Node.js/Express API over MongoDB and
Redis, a React client, background workers and Cloud Run jobs. Its unit of work is
the *docket* (a `Case` document), which travels between workbaskets, users'
worklists, a pending shelf and quality control (QC) until it is resolved or filed.

## 1. Inventory

| Component | State | Operations | What is hard | What makes it correct |
|---|---|---|---|---|
| Docket state tables (`domain/docketLifecycle`, `utils/docketState*`) | none | three transition tables, conversions between `status`, `state`, `lifecycle` | three vocabularies that must allow the same moves | finished in one is finished in all |
| Docket workflow (`docketWorkflow.service`, `caseAction.service`, `case.service`, `caseAssignment.service`, `docketWorkflow.controller`, `caseWorkflow.controller`) | the docket: status, state, lifecycle, owner, queue, routed team, pending dates and reason, QC submitter, `version`, `__v` | pull, bulk pull, move, reassign, pend, unpend, file, close, unassign, transition, QC pass/fail, two kinds of automatic reopening, reopening by client e-mail, hand-off of a deactivated user's dockets | four ways of writing one document, each trusting another token; reads separated from writes by awaits | FILED is final; decisions land on the docket they were made for; owners are kept; due dockets come back |
| Docket routing (`docketRouting.service`) | owner, routed and originator teams, originator, `DocketRoute` rows | route, accept, routed team's status, submit, manager move | saves of whole documents beside updates that leave `__v` alone; a second document per route | submitted by its holder, and from a single routing to the one who routed it |
| Docket approvals (`docketApproval.service`) | `approval_stage`, `approval_history` | request, decide | two requests or decisions at once | every request decided once |
| Docket sessions and soft lock (`docketSession.service`, `caseLock.middleware`) | lock owner, heartbeat | take, refresh, expire, take over | expiry against activity | one editor |
| Turnaround clock (`caseSla.service`) | due date, pause intervals | compute the due date over a calendar; pause, resume | seconds at the edges of a day, days off, a cap on the passes; called from eight operations | all business time counted, none invented; paused exactly while it should be |
| Numbering (`counter.service`, `caseIdGenerator`) | counters | `$inc` | concurrent creation | unique, increasing numbers |
| Write requests (`idempotency.middleware`, `executeWrite`, `wrapWriteHandler`, `requestLifecycle.middleware`) | the idempotency key, the transaction, the response | start, run, commit, answer, finish/close events | retries by client and driver, lost answers, expiry | one execution per key; no success without a commit |
| Side-effect queue (`sideEffectQueue.service`) | recorded and queued effects | record, flush, run, retry | runs after a response, outside the transaction | only and all effects of committed requests |
| Outbox (`outbox.service`, `outbox.worker`) | rows, attempts, worker loops | enqueue, claim, deliver, mark, retry | several workers, crashes, lost answers | delivered, at most a bounded number of times |
| Circuit breaker, Redis job lock | breaker state, lock | allow, record, acquire, release | shared by callers | refuses while open, one holder |
| Direct uploads (`directUpload.service`, `CaseFile`, `Attachment`) | upload sessions, attachments, the client's file | create intent, finalize (lock, verify, attach, link) | two calls for one session; a call that stops half-way; saves of stale copies; expiry; storages that differ | one verified attachment, a settled session stays so |
| Compliance obligations (`complianceTemplateGeneration.service`, `complianceTemplate.controller`) | templates, clients, dockets with idempotency keys | preview or generate the dockets of a range of months, edit templates | overlapping ranges and calls, calls that stop, periods at the edges of a range | one docket per obligation and period, none left out |
| Storage pipeline, bulk upload | BullMQ jobs, dead letters | enqueue, process, retry | two stores, retries | no orphan |
| Sessions, one-time passwords, signup | refresh tokens, OTPs, firm bootstrap | rotate, verify, compensate | concurrent refresh, retry | one use per token |
| Scheduled jobs (`cloudRunJob.runner`, `autoReopenScheduler.service`) | none of their own | reopen due dockets, batches | overlap with requests, partial failure | eventually, everything due |
| Notifications, audit, reports, CRM, forms, invoices, AI assistance, tenancy and policies | rows | record, read, decide | none that the workflow depends on | tenant isolation |

How they interact: an HTTP request passes the idempotency middleware and runs a
controller, usually inside `executeWrite`; the controller calls a workflow service,
which reads and writes the docket, its audit rows and outbox rows in the same MongoDB
transaction where there is one; when the response has gone, the recorded side effects
are handed to the in-process queue. The outbox worker and the Cloud Run jobs share
only the database with the requests. A direct upload bypasses the server: the client writes to
the firm's storage and the server finds out when it is asked to finalize. Everything hard in the system comes from that:
a handler that has read a document and awaits something else holds a copy that any
other process may make stale.

## 2. Plan

Order of work, the most important behaviour first.

1. `DocketStates`, `DocketWorkflow` - the docket and everything that moves it. *Done.*
2. `Outbox` - delivery of e-mail by several workers. *Done.*
3. `WriteRequest` - idempotency, transaction, answer and side effects. *Done.*
4. `DocketRouting` - a docket between teams and its approvals, with the updates of the
   workflow that leave `__v` alone. *Done.*
5. `DirectUpload` - sessions, overlapping and stopped finalize calls. *Done.*
6. `DueDate` - the arithmetic of the turnaround clock. *Done.*
7. `Delivery` - the abstract promise of the outbox, with the refinement. *Done.*
8. `Obligations` - the dockets of recurring obligations. *Done.*
9. The pauses of the turnaround clock and the job batch (`Promise.all` over due dockets). *Open.*
10. `Worklist` - an abstract specification of one docket (held or not; open, pending, in QC for
   a submitter, ended) and a refinement mapping from `DocketWorkflow`, one request at a time. *Done.*

Runs: one per question; an instance has the operations the question is about, two
overlapping requests, two users, and the counters needed for the shortest story plus
one step of slack. As new modules come, the docket's runs that ask related questions
can share an instance.

Theorems: section 5. Every safety property of a passing run is stated by one.

## 3. Modules

### DocketStates

Pure operators: the persisted statuses, the canonical states, the lifecycles, the three
tables (`LifecycleSuccessors`, `CanonicalSuccessors`, `ActionSuccessors`) and the
conversions. Only statuses that code under `src/src/` writes are listed; legacy spellings
normalised on read are left out.

### DocketWorkflow

One docket, a set of `Handlers` (requests or jobs in flight) and the last `reply`.

| Variable | Code |
|---|---|
| `docket` | the `Case` document: `status`, `state`, `lifecycle`, `assignee` (`assignedToXID`), `queue` (`queueType`), `routed` (`routedToTeamId` set), `reopenAt`, `pendingUntil` and `pendingReason`, `submitter` (`qcMeta`/`qcSubmittedBy`), `version` (`Case.version`), `v` (mongoose's `__v`) |
| `req[h]` | where a handler is between two database calls, its arguments, and `snap`, the copy it has read |
| `reply` | the operation the last step completed and its outcome |

A date is `none`, `later` or `due`; a pending reason is `listed` (in the schema's enum)
or `freeText`. Dockets start as `createCase` or the CMS intake store them.

| Way of writing | Operations | Actions | Token |
|---|---|---|---|
| guarded update | pend, file, close, unpend, read-time auto-reopen, unassign | `Start*`, `Load`, `Validate`, `Commit` | `Case.version` |
| save | reassign, reassignCase, QC pass and fail | `StartReassign`, `ReadReassign`, `StartReassignCase`, `StartQc`, `Save` | `__v`, after the schema's validators |
| blind update | move, reopenDuePending, client e-mail, deactivation | `StartMove`, `StartReopenDue`, `StartEmailReopen`, `StartDeactivate`, `Write` | none |
| atomic | pull, bulk pull, transition() | `Pull`, `BulkPull`, `Transition` | one statement, or a transaction MongoDB aborts on conflict |

Role and team policies, the soft lock and the team test of unassignment are left open: a
request that some user could make, any handler may make. `CLOSED`, `FILED` and the other
statuses are the ones the code writes. A handler that dies simply takes no more steps.

Code with no caller is not modelled: `activateOnOpen`, `processExpiredPendedDockets`,
`resolveCase` and `resolveDocketWithTeamRestriction` of caseAction, the single-docket
functions of caseAssignment other than `reassignCase`; `PUT /:caseId/status` is refused
by its own schema. The automatic pend of the upload-session controller always throws
('Transaction session required') and the error is swallowed. The QC sampling in
`transition()` lies behind the line on which a RESOLVED request throws.

`Spec` lets requests overlap. `SpecAlone` starts one only when none is under way (`AllIdle`); the
atomic operations and the clock wait for that as well. It is the sequential program, with which
the overlapping runs are compared.

### Worklist

What each operation promises of `holder`, `stage` (open, pending, qc, or the end it came to),
`submitter` and `deed` (the operation that completed, if one did): whoever takes a docket nobody
held, a reassignment changes the holder only, reopening keeps the holder, only open work ends,
what is resolved or filed stays so, a failed QC goes back to the one who submitted.
`DocketWorkflow!Desk` maps status to stage (`Stage`), the assignee to the holder and the last reply
to the deed; `KeepsWorklist` is the whole of `Worklist`'s behaviour under that mapping. Two things
the operations do are part of the promise because the code means them: a manager's move or a
reassignment may take a `CLOSED` docket up again (section 6), and a change of status may pend a
pending docket for other dates.

### Outbox

`entry` (the rows), `worker` (where each process's delivery loop is, and the row it holds
as it read it), `breaker` (each process's circuit breaker), `sent` (a history variable:
how often the provider accepted the message) and `faults`. `Claim`, `Deliver`, `Mark` and
`Fail` are the awaits of `pollOutbox`; each database call may fail before or after it took
effect, and `Crash` stops a process anywhere. Rows are numbered in the order of `createdAt`
and become visible in any order, since they are written in transactions.

### WriteRequest

The HTTP requests of one client operation: all carry one idempotency key. `key` is what
Redis holds, `req[r]` the request (`phase`, how far the handler is, the transaction,
`res.statusCode`, `headersSent`, what the client received, the end-of-response listener and
the flush it scheduled), `effects[r]` its side effects. `style` is how the route's handler
answers: it *returns* a result that `wrapWriteHandler` sends after the commit, or it answers
*directly* from inside the transaction. `mishaps` counts transient transaction errors, lost
commit answers, failed Redis calls, clients and processes gone, and expiries of the key;
`released` those after which the write may rightly be executed again (expiry, lost commit
answer). A handler without a session (`startSession` failed, or the route skips
transactions) has `tx = "plain"`. The in-memory store used outside production is not
modelled.

### Delivery

What the outbox promises: each message is written, then sent at most once more than it has
failed tries, and ends delivered or given up for good. `Outbox!Promise` maps a row's status to
the message's state (`Promised`), `attempts` to tries and `sent` to copies; `Delivers` is the
whole of `Delivery`'s behaviour under that mapping. Claims, breakers, crashes and backoff map
to steps that change nothing.

### DocketRouting

| Variable | Code |
|---|---|
| `docket` | the fields of `Case` routing uses: `status`, `queue` (`queueType`), `assignee` (`assignedToXID`), `reason` (`pendingReason` set), `team` (`ownerTeamId` and `workbasketId`, written together), `routedTo`, `routedBy`, `originUser`, `originTeam` (`routeOriginator*`), `approval` (`approval_stage.status`), `v` (`__v`) |
| `routes` | `DocketRoute` rows; `at` orders them by `routedAt`, `open` is `returnedAt: null` |
| `req[h]` | the handler's point (`close` the row, `save` the docket, create the `row`), its user and argument, and the document it read and edits |
| `router`, `diverted`, `undecided` | history since the last submit: who routed the docket first, whether it was then routed onward or moved by a manager; approvals asked less decided |

Each handler checks the document it reads, edits that copy and saves it: `Start*` is the read,
`Edited` (with `Routed`, `Submitted`, `ManagerMoved`) the edit, `Save` the write of the changed
fields under `__v`, `SaveNothing` a save refused by a validator or by `__v` or with nothing to
write. `CreateRow` and `CloseRow` are the second document; `LoseRow` is a failure before it.
`Pull` and `File` are the workflow's updates, which leave `__v` alone. Who asks for an approval
and who may decide is left open, and so is the role of a manager or an administrator beyond the
constants. `resolveDocketWithTeamRestriction` has no caller.

### DirectUpload

| Variable | Code |
|---|---|
| `session` | `CaseFile`: `uploadStatus`, `attachmentId` and the storage it was opened for (`provider`, `providerMode`) |
| `expired` | `expiresAt` has passed |
| `file` | what the client put into the storage: nothing, what it announced, or something else |
| `attachments` | how many `Attachment` documents were created for the session |
| `call[c]` | the await at which a call of `finalizeIntent` is, the status it read, the attachment it made |
| `resumed` | history: attachments made by calls that took the session over |

`Start` is the first read and what follows it; `Lock` the conditional update with its three
outcomes (won, missed but read `uploaded`, missed); `Verify` the provider's answer; `Create`, `Log`
and `Link` the awaits after it; `GiveUp` the save of a session that expired or was found wrong.
`Fail` stops a call before any of its writes. Saves are unconditional, as `markUploadSessionStatus`
is. Each session is independent.

The storages differ in three ways. *What is put*: a resumable session of Google's, which the managed
storage uses as well, takes its file once, while a presigned URL of S3 can be used again until it runs
out, so that `Put` may replace the file at any time before expiry. *What goes wrong*: Google's
`files.get` throws for a file that is not there (`VerifyThrows`, the session stays `uploaded`), S3's
provider answers every error as a wrong object, and the session fails. *What the schema takes*: `Attachment.storageProvider` knows
`google-drive` alone (`Accepted`), so for the others `Attachment.create` throws (`Refuse`). A session's
storage is fixed when it is opened: the firm is taken not to change its storage while it lasts.
Completions whose identifiers do not match are answered before anything is written and are left out.

### DueDate

The loops of `alignToBusinessTime` and `calculateDueDate` as steps (`Align`, `Spend`,
`Finish`), over a calendar of working weekdays, holidays and overrides. Time is in ticks,
several to a minute, because dockets are created at any second while the loop counts whole
minutes. The initial states are the inputs. Days have one length: the firm calendar is fixed
to Asia/Kolkata, 10:00-18:00 (`firmCalendar.service.js`), which has no daylight saving, and
`normalizeConfig` makes the business day end after it starts (`Opens < Closes`).

### Obligations

| Variable | Code |
|---|---|
| `template` | `ComplianceObligationTemplate`: type, recurrence pattern, due date rule, `isActive`; `mapped`: a category and subcategory are found, the template's or the firm's |
| `active` | the clients that are not inactive |
| `dockets` | the generated dockets, with their idempotency `key` as stored, what they are for (`of`) and the call that wrote them |
| `run[r]` | one call of `previewOrGenerate`: its phase, the request, what it `read` of templates and clients, the `existing` keys, the candidates left (`todo`), what it reports (`items`) |

A period is a number of months counted from some January, and a template's place in the order of
names its number. `PeriodStarts` and `DueMonth` are `expandRecurringPeriods` and the month of
`computeStatutoryDueDate` (day of the month clamped, internal buffer and time zone left out): an
offset of no month counts as one, and a fixed date without its month (0, the schema's null) falls
into the last month of the period. `LoadTemplates`, `LoadClients` and `FindExisting` are the queries,
in the order the awaits allow;
each candidate is then one of `Unmapped`, `Known`, `Preview`, `Save`, `Reject` and `Fault`, in the
loop's order (`At`). `Stop` is the death of the process. A save that fails may have been stored
(`Fault`). Two keys that differ only in the letters' case are told apart by `letters`; the client
ids of this system are in capitals (`C000001`).

Settings are whole numbers within the schema's limits although the update runs no validators of the
model: both routes check their bodies first, with integers and the same limits
(`schemas/dashboard.routes.schema.js:26-35`, used at 128 and 132). A rule or pattern that is replaced
without some of its fields reads as one with the defaults, which are among the values.

The code reports every error with code 11000 as a duplicate (line 470); `Reject` is the idempotency
key's. The other unique fields of a docket cannot give one here: `_id`-like ids and the e-mail token
are random, `caseNumber` and the name come from atomic counters, and a repeated number is retried and
then thrown without that code (`Case.model.js:1641-1668`), which is a `Fault`.

## 4. Runs and what they show

| Run | Instance | Shows |
|---|---|---|
| `operations_alone` | all 17 operations, one request at a time (`SpecAlone`), 2 handlers, 2 users | types; every operation does what `Worklist` promises; PERSONAL dockets have an owner; status, state and lifecycle agree on what is filed; reopening keeps the owner. Hence what breaks these elsewhere is overlap |
| `guarded_updates` | guarded updates, both reassignments, both pulls; 2 overlapping handlers | the version filter makes the lifecycle check of an earlier read hold at the commit (`CommitValidated`); finished work stays finished (`TerminalIsFinal`); status and lifecycle agree on what is finished |
| `qc_decisions` | reassignments, QC decisions, transition(); 2 handlers | a decision lands on a docket in QC; a failed one returns to its submitter |
| `pended_reopens` | pend, the job, e-mail reopening, deactivation, move, reassign; a handler and the job's | `DueIsReopened`, under the job's fairness |
| `outbox_delivery` | 2 workers, 2 rows, 2 attempts, breaker threshold 2, 2 faults | the rows implement `Delivery`; one holder per row, deliveries paid by attempts, processed is final, rows settle or are stranded |
| `write_requests` | 2 requests, both styles, 1 retry per effect, 2 mishaps | one execution per life of the key, earned answers, effects wait and are not lost |
| `direct_upload` | 1 session, 3 calls, 2 stopped calls | attachments show the announced file; the calls that take nothing over make one at most; settled is settled; if its client asks again, a session of Google's with its file settles, and any that has expired |
| `due_dates` | 20 starts, 5 durations, 224 calendars | all business time counted, the due date ends a business minute, the cap never decides, the loops end |
| `docket_routing` | 2 teams of 1 user, one a manager; all 7 operations, 2 handlers, 3 saves | a submit is its holder's, and a docket routed once goes back to its router; every approval is decided once |
| `obligations` | 2 templates set in 5 ways, 2 clients, 3 ranges, 2 calls, 1 edit, 1 failed save | one docket for a period (`OncePerObligation`), no period left out (`FinishedRunCovers`), periods disjoint, due dates after their periods |
| `filed_then_failed_qc` | file, transition, QC fail | **violated** `FiledIsFinal`: the QC save checks `__v`, filing raises `version` |
| `finalize_not_idempotent` | 1 session, 2 calls, no fault | **violated** `SameAttachment`: a call takes over a session whose first call is alive |

Bounds and why they suffice. *Handlers* (2): every hazard of the docket is one handler's
stale copy against one other write; a third only repeats it. *Users* (2): one to lose a
docket and one to get it. *MaxVersion*, *MaxV* (1-3): a token has to change once under a
reader, and once more to be changed after a successful commit; `qc_decisions` has three
saves, so that a docket is submitted, given to another user while in QC, and then decided.
*Outbox* attempts 2 has a
first, a last and thereby both outcomes of `markFailedAttempt`; two faults allow a lost
answer followed by a crash. *WriteRequest* mishaps 2 allow an expiry and a lost answer in one
run. *DirectUpload*: three calls are a locker, one that takes over and one that lost; two
faults let the locker and its successor both stop. Sessions share no state, so one is enough.
*DueDate*: days of five minutes with three of business, two ticks to a minute, weeks of three
days, durations up to three business days; the look-ahead of 8 days stands for 370 and exceeds
every row of days off the calendars have. *DocketRouting*: three saves are a route, a submit
and one that overlaps with either, or two routes and a submit; two teams suffice since a docket
is routed to a team other than its owner's. `Admins` is empty there: with an administrator the
instance outgrows its time (two saves with one were checked by hand: 354,045 states, no error),
and the theorems of section 5 have any set of them. *Obligations*:
the ranges overlap in a month, begin inside a quarter, and go past a year's end with a start month
in between; templates are monthly, quarterly and yearly, two of them with one obligation type, so
that the index also meets two candidates of one call; two calls are one that stops and one that
is sent after it, or two that overlap; one fault is a lost answer.
The settings are `Regular`, which `PeriodsDisjoint` asks for (section 6).

Deadlock is not checked in the docket's, the requests' and the obligations' runs: a docket nothing
more happens to, or whose counters are at their bound, stops, and so do requests that are over.

Symmetry over users and handlers (and requests and calls; in `docket_routing` over handlers
only) is used in the safety runs only; the runs with a liveness property use none.

Fairness. `pended_reopens`: the clock advances; the job is triggered again and again (Cloud
Scheduler starts `auto_reopen_pending_dockets`, `jobs/cloudRunJob.runner.js:21`), so it is
started if the docket stays due; and once it has read the docket it goes on to write. Nothing
is asked of requests. `outbox_delivery`: `setInterval` fires, a started loop goes on, the
backoff date is reached. Faults are finite in an instance, so the property is about what
happens after the last one. `direct_upload`: a call that has
started goes on or stops, and a client that got no outcome asks again
(`direct-upload-rollout.md:20` speaks of such retries). Nothing is asked of the clock: that a session
settles is claimed once it has expired, or once Google's storage holds its file; those of S3 and of
the managed storage end by expiry alone, because of `Refuse`. `due_dates`: the loop goes on. The breaker needs no fairness of its own: a refused delivery
costs an attempt, so a row settles even if the breaker never closes.

## 5. Proofs

`DocketWorkflowProofs` proves for every set of users, handlers and operations and all bounds:

- `TypeCorrect`: `Spec => []TypeOK`. `TypeOK` is not inductive, because what a handler
  writes depends on what it carries; `TypeInv` adds which phase, arguments and copy each
  operation's handler has (a handler in `commit` has a snapshot that is a docket, a
  reassigning one has a user, and so on).
- For `SpecAlone`, `AlonePersonalHasOwner`, `AloneFiledAgrees`, `AloneReopenKeepsOwner`,
  `AloneFiledIsFinal` and the refinement `AloneKeepsWorklist`: with one request at a time, whatever
  the numbers of users and handlers and whichever operations are enabled, every step is the
  promised step of `Worklist` or changes nothing of it. The inductive invariant is `AloneInv`.
  `OneBusy`: at most one handler is under way. `Alone`: its snapshot is the docket itself and what
  its handler checked still holds. `InStep`: the docket's fields go together - queue PERSONAL only
  with an owner, status FILED with state FILED and the other way round, finished with lifecycle DONE, PENDING with WL or
  WAITING, in QC with WAITING and a submitter. The five properties rest on it: that a filed docket
  stays filed, for one, on its lifecycle being DONE, which the guarded updates check, and on its
  status, which the others check. There is one
  lemma per way of writing (`CommitAlone`, `SaveAlone`, `WriteAlone`, `AtomicsAlone`), each ending in
  `DeedPromised`, where the mapping to `Worklist` is made once. Along this proof one sees that no
  sequence of single requests makes a docket RESOLVED: a QC pass is refused and a transition to
  it throws (section 6).

`DocketTokenProofs` proves what the tokens are for, when requests overlap:

- `FiledStaysFiled`: if only the version-checked updates, the two reassignments and the
  atomic operations are enabled, `Spec => FiledIsFinal`. The inductive invariant `FiledInv`
  says that a FILED docket has lifecycle DONE, so that every later validation refuses it; that
  a request past its validation either lost the version or still agrees with the docket; and
  that the two kinds of requests carry disjoint targets. The assumption on `Ops` is needed:
  `filed_then_failed_qc` is the counterexample without it.
- `TerminalMatchesLifecycle`, `TerminalIsFinal` and `CommitValidated` as the run `guarded_updates`
  states them, for the same operations or any subset of them, however many overlap. The operations
  left out are so by assumption and for a reason: transition(), QC decisions and the blind updates
  change the lifecycle without raising the version, and with transition() `CommitValidated` is
  false (section 6). None of the three is inductive: status and lifecycle are computed from two reads. `GuardInv` says what a request knows
  (`Knows`): its snapshot is no newer than the docket, agrees with it on the lifecycle as long as
  the version is the same, and a request past its check then still passes it. Pulls and
  reassignments raise no version, so this rests on `UnownedInWL`: an UNASSIGNED or ROUTED docket
  without an owner has lifecycle WL, which a bulk pull leaves as it is.
- `QcDecidesOnQc` and `QcReturnsToSubmitter` for the operations of `qc_decisions`. What these
  operations change of status, owner, queue and submitter they change with `__v` (`Moves`), so what
  a handler has read is still so when its save matches; the proof adds that a docket in QC has a
  submitter.

`OutboxProofs` proves `OneHolder`, `SentIsPaid`, `ProcessedWasSent`, `FailedIsExhausted`,
`ProcessedIsFinal`, the types and the
refinement of `Delivery` (`OutboxImplementsDelivery`) for any rows, workers, attempts, thresholds and faults, from
one inductive invariant. Its heart is `HeldInv`: a held row is still in processing with the
attempts the worker read (or processed already, when only the answer was lost), and delivered
no more often than its attempts pay for. Without it nothing ties the worker's copy, from which
`markFailedAttempt` computes the new status, to the stored count. The refinement has one lemma
per action: deliveries map to `Send`, marks to `Confirm` or `Miss`, the rest to stutters; a
delivery is a `Send` only because a held row has not been sent more often than it has failed.

`WriteRequestProofs` proves the types, `ExecutedOnce`, `AnswersAreEarned`,
`EffectsAwaitTransaction` and `NoEffectLost` for any finite set of requests, retries and
mishaps. `LocalInv` says of each request alone what each phase knows: which transaction states,
answers and effects go with it. `CountInv` carries the counting: the requests that executed, or
still may because they were let through by the key (`Counted`), and those whose key was deleted
after a lost answer (`Lost`), are no more than the releases plus the key itself. `NoEffectLost`
speaks of committed requests only, and neither of dead ones nor of those whose client was gone
before the transaction began, whose effects do get lost (section 6); it counts a doubled effect twice. Neither
`ExecutedOnce` alone nor the key's state is inductive: a request that is through but has not
committed would be free.

`DirectUploadProofs` proves the types, `OneUnlessTakenOver`, `AttachmentsAreVerified` and
`SettledStaysSettled` for any sessions, calls and faults. `CountInv`: the attachments of a session,
and the winners of its lock on their way to make one, are no more than one for the lock, once the
session is past `initiated`, and one for each attachment of a call that took it over; no save writes
`initiated` again, so there is one lock. `CheckedInv`: a call that is about to create has seen the
announced file, if its session is one whose attachments the schema takes; `AttachedInv`: only such a
session has attachments. Their files are put once (`PutInv`), so what was checked is still there: the
proof shows that `AttachmentsAreVerified` rests on the schema, and with every name in `Accepted` TLC
finds it violated by a `Put` after the check.

`DocketRoutingProofs` proves the types, `DecidedOnce`, `SubmitFromHolder` and
`SubmitGoesToRouter` for any users, teams, administrators, managers and handlers and any subset
of the operations. `ReqInv`: a request's copy satisfies what its handler checked (`Checked`),
has no later `__v` than the docket (`Fresh`), and agrees with it on routing and approval as long
as `__v` is the same (`Agrees`) - which pulls and filing respect, as they write neither.
`SubmitFromHolder` needs the assignee as well, which a pull changes without raising `__v`: only
that a pull wants a docket without an assignee, and a submit was checked on one with, saves it.
`RouterInv` says that the originator of a routed docket is the user who routed it, unless it was
routed onward or moved by a manager since.

`ObligationsProofs` proves the types, `OncePerObligation`, `FinishedRunCovers`, `PeriodsDisjoint`
and `DueAfterPeriod` for any templates, clients, requests and calls. `Inv` adds to them what a call
knows (`RunOK`): what is in its `existing` has a docket, and every period of what it read has a
docket, was reported as failed or is still to come (`Covered`). That the candidates leave no period
out (`StartsAreAligned`) is arithmetic on `FirstCursor`: from wherever the range begins the
cursor meets the calendar's quarters and years; `Placed` is the converse, every docket's period
is one of the calendar's, on which `PeriodsDisjoint` rests.

`DueDateProofs` proves types and bounds (`DueTypeCorrect`), `NothingLost` (`DueNothingLost`) and
`DueInBusiness` (`DueDateInBusiness`) for any lengths of day, opening hours, weeks, calendars, starts and
durations. `BusinessTicks` counts the set of business instants of an interval, so the proof is one
of counting: intervals that adjoin add up (`TicksAdd`), no instant between the end of business and
the next opening counts (`NextOpening`), every instant inside a working day's window does
(`WindowTicks`). The invariant says where a pass can be: while the start is aligned nothing has
passed, and a search that has begun stands at an opening (`AlignInv`, `FoundInv`); while minutes are
spent (`SpendInv`), the instant lies in the window of a working day and what passed is what was
spent and less than a minute more (`OnTime`), that rest can be lost once, since from then on passes
begin a whole number of minutes before closing time, and the minutes left need no more than the
passes left, minus one until the first is made (`OnTrack`). The last part is what `NothingLost`
and `DueInBusiness` need to be inductive and shows that the cap on the passes never decides.

The two theorems on business time assume `WorkInReach`: after every day there is a working one
within the lookahead. The code does not enforce it: the schema takes 500 holidays
(`schemas/admin.routes.schema.js:75`), the search gives up after 370 days, and with a
longer row of days off `calculateDueDate` goes on to spend minutes on a day off. `FewHolidaysReach` says which calendars are safe: those whose
holidays, plus one, times the days of a week fit into the days looked at - up to 52 listed
holidays. The types need no such assumption.

Assumptions: `None` is no user and no team, users have a team, `Ops` are operations, bounds are naturals, rows are numbered by
naturals, `MaxAttempts` and `Threshold` are positive, requests and calls are finite sets.

Business opens before it closes and closes before midnight, edges lie on whole minutes, and the
lookahead is positive: the code's are 10:00, 18:00 and 370.

Only model-checked: liveness (`DueIsReopened`, `PendingSettles`, `SessionSettles`, `Terminates`)
and everything under fairness, which is out of the prover's reach. Not proved because not true:
the properties of the two violation runs, and those of `operations_alone` when requests overlap.

## 6. Disagreements between code and documents

The two violated properties are listed with quotations under `findings`. Met while modelling
and not kept as runs of their own:

- A file request validated before an in-transaction transition still commits
  (`docketTransition.service.js:110`): transition() changes status and lifecycle without raising
  `version`, against the comment at `Case.model.js:1268`.
- `reopenDuePending` (`docketWorkflow.service.js:905`) decides on the owner it read and updates
  by `_id`: a docket moved to a worklist in between loses that owner, against
  `docs/features/task-manager-worklists.md:42`.
- A QC pass is refused: `qcDecision` checks WAITING to DONE (`docketWorkflow.service.js:291`)
  against a table that allows ACTIVE only; `docket-lifecycle-specification.md:105` lets it pass.
- A docket routed onward by the team it was routed to is submitted to the last router
  (`docketRouting.service.js:100`), where `task-manager-worklists.md:82` says "the original routing
  user". The documents do not agree with one another either: `task-manager-worklists.md:77` has the
  routed team route onward, R4 (`docket-lifecycle-specification.md:61`) has a single level of routing,
  which the code does not enforce. `SubmitGoesToRouter` is about what they share, dockets routed once.
- A pull does not raise `__v`: a route that read the docket before it still saves and writes only
  the fields it changed, so a ROUTED docket may keep an assignee or a PERSONAL queue.
- A manager's move to the workbasket of a docket in queue PERSONAL is refused by the validator
  (`Case.model.js:1308`) after its history row was written (`docketRouting.service.js:303-322`).
  The move of a docket marks it routed to the manager's own team and names no originator.
- The routed team can set PENDING only on a docket that happens to have an old pending reason.
- A route's row is created after the docket was saved and wants the team it came from
  (`DocketRoute.model.js:10`): a docket without an owner team is routed, and the request fails.
- Each decided approval is in `approval_history` twice, once when it is made and once when the
  next is asked for (`docketApproval.service.js:116` and `196`).
- A finalize call saves its outcome unconditionally (`directUpload.service.js:214`): a verified
  session may become failed or abandoned and the other way round, although
  `byos-direct-upload-flow.md:65` calls these terminal. Expired sessions are abandoned only when
  somebody asks to finalize them. The version of an attachment is read and written without
  synchronisation, so two files of one name can get the same.
- A session of S3 or of the managed storage never gets its attachment: `finalizeIntent` passes the
  provider's own name (line 479), `s3` (`S3Provider.js:174`) or `docketra_managed`
  (`DocketraManagedStorageProvider.js:35`), and the schema's enum is `google-drive` alone
  (`Attachment.model.js:114-116`). The create throws after the lock, the session stays `uploaded`, and
  so it does for every retry until it expires. `byos-direct-upload-flow.md:28` and `47` and
  `direct-upload-rollout.md:15-17` promise these sessions; `tests/directUpload.service.test.js:268`
  expects such an attachment ("docketra_managed") of a stub without the schema. Taking the names into
  the enum would not be enough: a presigned URL of S3 stays usable after the check
  (`S3Provider.js:62`), so the object could be replaced once it is attached.
- `moveDocket` (`controllers/docketWorkflow.controller.js:259`) checks its policy on an earlier
  read and updates by id alone: a docket filed in between becomes ASSIGNED, against rule R7 of
  `docs/features/docket-lifecycle-specification.md:64`.
- `reassign` (`docketWorkflow.service.js:973`) puts a docket filed in between back into a
  worklist, against `docs/features/task-manager-worklists.md:47`.
- Reopening by client e-mail (line 1161) and the hand-off of a deactivated user's dockets (line 1084)
  write by `_id` what they decided on a read: a docket filed in between is open again, one moved or
  reassigned in between loses its new owner or keeps a PERSONAL queue without one (rules 17 and 22 of
  `docs/features/task-manager-worklists.md`).
- `isTerminal` (`workbasketAuthorization.service.js:22`) knows RESOLVED and FILED only, so a
  CLOSED docket can be moved, although `Case.isReadOnly` (`Case.model.js:1326`) counts it as
  finalized.
- A QC decision can be written after an unassignment has taken the docket out of QC
  (`docketWorkflow.service.js:807`), against the check at line 732.
- `transition()` pends without a reopen date (line 615) and such a docket is never found due;
  R3 (`docket-lifecycle-specification.md:60`) makes the date compulsory.
- Pending pauses the turnaround clock (`caseSla.service.js:243`); `task-manager-worklists.md:43`
  says it does not. Only a target status OPEN resumes it, and no operation has that target.
- `reopenDuePending` (line 905) can leave a PERSONAL docket without owner after its owner was
  deactivated, against the validator at `Case.model.js:1313`.
- The CMS intake (`cmsIntake.service.js:415`) creates workbasket dockets with an owner, and a
  move to a workbasket leaves state IN_PROGRESS without one, against `validateOwnershipRules`
  (`docketWorkflow.service.js:154` and `158`). Such intake dockets (status OPEN) cannot be pulled.
- `transition()` reads the undeclared `subcategory` (line 556) on every RESOLVED request.
- Filing a docket just pulled (lifecycle WL) and unpending an owned docket by hand (WAITING to
  WL) are refused by the lifecycle table (`docketTransition.service.js:99`);
  `docket-lifecycle-specification.md:77` and `82` allow both.
- `pendCase` (`caseAction.service.js:289`) stores a free-text reason that the schema's enum
  refuses on every later save, so the docket can no longer be reassigned.
- A handler that answers directly from inside its transaction can tell the client of a success
  that the commit then fails to make true, and the idempotency key replays it; with handlers
  that return their result this cannot happen (`AnswersAreEarned`).
- `withTransaction` may run a handler twice; effects recorded by both runs are run.
- When `startSession` fails, `executeWrite` runs the handler without a transaction, so a later
  error leaves partial writes, against the comment of `wrapWriteHandler` (item 5).
- A client that disconnects before the transaction begins makes the flush run too early: the
  effects recorded later are never handed over.
- The side effects of a request that is rolled back run (an invitation e-mail, a soft-delete audit
  row): `flushRequestEffects` (`sideEffectQueue.service.js:99`) drops them only while the request
  is in a transaction, and `executeWrite` has taken it out of one before the flush.
  `tests/sideEffectQueue.test.js:24`: "Side effects should not run when transaction rolled back".
- A preview of obligations shows dockets that exist as ready to generate:
  `existingKeys.has` (`complianceTemplateGeneration.service.js:382`) compares a key that has the
  client's id in capitals with the stored one, which the schema puts in lower case
  (`Case.model.js:143`). `tests/complianceTemplateGeneration.service.test.js:60` ("preview should
  classify as skipped_duplicate") stubs the query and does not see it.
- Obligations. Because the lookup never matches, a period is kept from getting a second docket
  by the unique index alone (`Case.model.js:1515`), which nothing builds in production: the
  connection turns `autoIndex` off there (`config/database.js:31`). With an interval above 1
  periods are counted from the start of the range (quarter, start month), so ranges that adjoin or
  overlap can give periods that overlap. Two templates of one obligation type (`OTHER`, say) share
  their keys, and the second's dockets are reported as duplicates. A month offset of 0, which the
  schema allows, counts as 1 (`complianceTemplateGeneration.service.js:93`).
- An outbox row whose worker dies in between stays in processing forever: no query looks for it.
  While the circuit breaker refuses, each claim still costs an attempt, so during an outage rows
  can be given up without having been sent to the provider at all.

## 7. Not modelled

The pauses of the turnaround clock and the job's batch are planned (section 2). Authentication
sessions and one-time passwords are left out: the models take the user of a request as given. The storage pipeline is left out because its worker cannot complete a job in this
commit: it calls `provider.uploadFile(firmId, folderId, stream, ...)` (`workers/storage.worker.js:278`)
where `GoogleDriveProvider.js:65` takes `(folderId, filename, streamOrBuffer, mimeType)`, asks
for folder methods the provider does not have, and one permanently failed job marks the firm's
storage as in error (line 513 on): a model of it would be of its error path alone. Bulk upload
is a sequential worker; a retry re-inserts clients, whose e-mail has no unique index, and a
crash between the creation of its job row and the enqueueing leaves the row pending. Numbering
is one `$inc` per number. The soft lock is advisory. The compliance state that approvals
overwrite, and the removal of settled upload sessions after their retention, change nothing a
property is about. Stateless decisions (tenancy,
authentication, policies) are left open in the models, which covers every order of permitted
requests. Notifications, audit rows, reports, search, CRM records, forms, invoices and AI
assistance change nothing the modelled components read.
