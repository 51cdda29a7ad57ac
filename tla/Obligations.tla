----------------------------- MODULE Obligations -----------------------------
(* The dockets of recurring obligations.  An administrator asks for all the   *)
(* dockets due in a range of months: previewOrGenerate reads the firm's       *)
(* templates and clients, expands every template into periods, looks which    *)
(* dockets exist, and saves the others one by one.                            *)
(*                                                                            *)
(* The ranges of two requests may overlap, the requests may run at once, and  *)
(* one may stop half way and be sent again.  What keeps a period from getting *)
(* two dockets is the unique index on the idempotency key.  Months are        *)
(* counted from some January.                                                 *)
EXTENDS Integers

CONSTANTS
  Templates,   \* templates, numbered in the order of their names
  Clients,     \* clients, numbered in the order the database returns them
  Applies,     \* the pairs <<template, client>> whose entity type fits
  Settings,    \* what a template may be set to
  Initial,     \* how the templates are set at first
  Requests,    \* ranges, templates and clients that are asked for
  Runs,        \* calls of previewOrGenerate
  MaxEdits,    \* bound on edits of templates and clients
  MaxFaults    \* bound on saves that fail

Types       == {"gst", "tds", "roc", "annual_filing", "other"}
Frequencies == {"monthly", "quarterly", "yearly"}
Modes       == {"day_of_next_month", "day_of_month_after_period", "fixed_day_month"}
Patterns    == [frequency: Frequencies, interval: 1..12, startMonth: 0..11]
Rules       == [mode: Modes, monthOffset: 0..24, fixedMonth: 0..12]  \* 0: not set

ASSUME TemplatesAssumption == Templates \subseteq Nat /\ Clients \subseteq Nat
ASSUME SettingsAssumption ==
  Settings \subseteq [type: Types, pattern: Patterns, rule: Rules,
                      active: BOOLEAN, mapped: BOOLEAN]
ASSUME InitialAssumption == Initial \subseteq [Templates -> Settings]
ASSUME RequestsAssumption ==
  Requests \subseteq [from: Nat, to: Nat, templates: SUBSET Templates,
                      clients: SUBSET Clients]
ASSUME BoundsAssumption == MaxEdits \in Nat /\ MaxFaults \in Nat

VARIABLES
  template,    \* the templates' settings
  active,      \* the clients that are not inactive
  dockets,     \* the dockets generated, with their idempotency keys
  run,         \* where each call is, what it has read and what it reports
  edits, faults

vars == <<template, active, dockets, run, edits, faults>>

-----------------------------------------------------------------------------
(* Periods and due dates.                                                     *)

\* The months one period takes.
Span(p) ==
  CASE p.frequency = "quarterly" -> 3 * p.interval
    [] p.frequency = "yearly"    -> 12 * p.interval
    [] p.frequency = "monthly"   -> p.interval

\* Mutant: quarters are counted from the start of the range.
FirstCursorUnaligned(p, from) ==
  IF p.frequency = "yearly"
  THEN 12 * (from \div 12 + IF from % 12 > p.startMonth THEN 1 ELSE 0) + p.startMonth
  ELSE from

\* The first month expandRecurringPeriods looks at.
FirstCursor(p, from) ==
  CASE p.frequency = "quarterly" -> 3 * (from \div 3)
    [] p.frequency = "yearly"    ->
         12 * (from \div 12 + IF from % 12 > p.startMonth THEN 1 ELSE 0) + p.startMonth
    [] p.frequency = "monthly"   -> from

\* The months in which the periods of a range begin.
PeriodStarts(p, from, to) ==
  {s \in from..to : s >= FirstCursor(p, from) /\ (s - FirstCursor(p, from)) % Span(p) = 0}

\* The month of a fixed date in the year of the period's end; no month is its last.
FixedMonth(rule, end) ==
  IF rule.fixedMonth = 0 THEN end ELSE 12 * (end \div 12) + rule.fixedMonth - 1

\* Mutant: an offset of no month is taken as it is.
DueMonthExact(rule, end) ==
  CASE rule.mode = "fixed_day_month"           -> FixedMonth(rule, end)
    [] rule.mode = "day_of_month_after_period" -> end + rule.monthOffset
    [] rule.mode = "day_of_next_month"         -> end + 1

\* The month of the statutory due date; an offset of no month counts as one.
DueMonth(rule, end) ==
  CASE rule.mode = "fixed_day_month"           -> FixedMonth(rule, end)
    [] rule.mode = "day_of_month_after_period" ->
         end + IF rule.monthOffset = 0 THEN 1 ELSE rule.monthOffset
    [] rule.mode = "day_of_next_month"         -> end + 1

\* One docket that is due, of client c by template t set as in s.
Candidate(t, s, c, start) ==
  [template |-> t, client |-> c, type |-> s.type, mapped |-> s.mapped,
   start |-> start, end |-> start + Span(s.pattern) - 1, mode |-> s.rule.mode,
   due |-> DueMonth(s.rule, start + Span(s.pattern) - 1)]

\* Every candidate of the templates and clients that a run has read.
CandidatesOf(r) ==
  UNION {{Candidate(x[1], r.templates[x[1]], x[2], s) :
            s \in PeriodStarts(r.templates[x[1]].pattern, r.request.from, r.request.to)} :
         x \in {y \in Applies : y[1] \in DOMAIN r.templates /\ y[2] \in r.clients}}

\* The templates by name, and each template's clients and periods in order.
Before(a, b) ==
  \/ a.template < b.template
  \/ a.template = b.template /\ a.client < b.client
  \/ a.template = b.template /\ a.client = b.client /\ a.start < b.start

\* The key names the client as "C000001"; the schema stores it in lower case.
Key(c)       == [client |-> c.client, type |-> c.type, start |-> c.start, letters |-> "given"]
StoredKey(c) == [Key(c) EXCEPT !.letters = "lower"]

Candidates == [template: Templates, client: Clients, type: Types, mapped: BOOLEAN,
               start: Nat, end: Nat, mode: Modes, due: Nat]
Keys == [client: Clients, type: Types, start: Nat, letters: {"given", "lower"}]

-----------------------------------------------------------------------------
Idle == [phase |-> "idle"]

Outcomes == {"ready", "generated", "skipped_duplicate", "failed"}

\* A call once it has been asked: what it has read, what is left, what it reports.
Called == [phase: {"loading", "working", "done", "stopped"}, request: Requests, execute: BOOLEAN,
           read: SUBSET {"templates", "clients"},
           templates: UNION {[T -> Settings] : T \in SUBSET Templates},
           clients: SUBSET Clients, existing: SUBSET Keys, todo: SUBSET Candidates,
           items: SUBSET [of: Candidates, status: Outcomes]]

Init ==
  /\ template \in Initial
  /\ active \in SUBSET Clients
  /\ dockets = {}
  /\ run = [r \in Runs |-> Idle]
  /\ edits = 0 /\ faults = 0

firm == <<template, active, edits>>

-----------------------------------------------------------------------------
\* An administrator asks for a preview or for the dockets of a range.
Ask(r) ==
  /\ run[r].phase = "idle"
  /\ \E q \in Requests, execute \in BOOLEAN :
       /\ q.from <= q.to
       /\ run' = [run EXCEPT ![r] =
                    [phase |-> "loading", request |-> q, execute |-> execute, read |-> {},
                     templates |-> [t \in {} |-> template[t]], clients |-> {},
                     existing |-> {}, todo |-> {}, items |-> {}]]
  /\ UNCHANGED <<firm, dockets, faults>>

\* Templates and clients are read at the same time, each when its query runs.
LoadTemplates(r) ==
  /\ run[r].phase = "loading" /\ "templates" \notin run[r].read
  /\ run' = [run EXCEPT
       ![r].read = @ \cup {"templates"},
       ![r].templates = [t \in {u \in run[r].request.templates : template[u].active}
                           |-> template[t]]]
  /\ UNCHANGED <<firm, dockets, faults>>

LoadClients(r) ==
  /\ run[r].phase = "loading" /\ "clients" \notin run[r].read
  /\ run' = [run EXCEPT ![r].read = @ \cup {"clients"},
                        ![r].clients = run[r].request.clients \cap active]
  /\ UNCHANGED <<firm, dockets, faults>>

\* The candidates' keys that dockets have, as they are stored.
FindExisting(r) ==
  /\ run[r].phase = "loading" /\ run[r].read = {"templates", "clients"}
  /\ LET due == CandidatesOf(run[r]) IN
       run' = [run EXCEPT
         ![r].phase = "working", ![r].todo = due,
         ![r].existing = {d.key : d \in dockets} \cap {StoredKey(c) : c \in due}]
  /\ UNCHANGED <<firm, dockets, faults>>

\* Run r is at candidate c.
At(r, c) ==
  /\ run[r].phase = "working" /\ c \in run[r].todo
  /\ \A o \in run[r].todo : o = c \/ Before(c, o)

\* Run r reports c and goes on, knowing also of the keys in known.
Report(r, c, status, known) ==
  run' = [run EXCEPT ![r].todo = @ \ {c},
                     ![r].items = @ \cup {[of |-> c, status |-> status]},
                     ![r].existing = @ \cup known]

\* Mutant: the key as the run has it is compared with the stored ones.
TakenAsGiven(c) == \E d \in dockets : d.key = Key(c)

\* The unique index has the key of c.
Taken(c) == \E d \in dockets : d.key = StoredKey(c)

\* The docket of c is written by run r.
Write(r, c) == dockets' = dockets \cup {[key |-> StoredKey(c), of |-> c, by |-> r]}

\* No category is left for the docket.
Unmapped(r, c) ==
  /\ At(r, c) /\ ~c.mapped
  /\ Report(r, c, "failed", {})
  /\ UNCHANGED <<firm, dockets, faults>>

Known(r, c) ==
  /\ At(r, c) /\ c.mapped /\ Key(c) \in run[r].existing
  /\ Report(r, c, "skipped_duplicate", {})
  /\ UNCHANGED <<firm, dockets, faults>>

Preview(r, c) ==
  /\ At(r, c) /\ c.mapped /\ Key(c) \notin run[r].existing /\ ~run[r].execute
  /\ Report(r, c, "ready", {})
  /\ UNCHANGED <<firm, dockets, faults>>

\* The docket of c is to be saved.
Saves(r, c) == At(r, c) /\ c.mapped /\ Key(c) \notin run[r].existing /\ run[r].execute

\* Mutant: the docket keeps the key as the run has it.
SaveAsGiven(r, c) ==
  /\ Saves(r, c) /\ ~Taken(c)
  /\ dockets' = dockets \cup {[key |-> Key(c), of |-> c, by |-> r]}
  /\ Report(r, c, "generated", {Key(c)})
  /\ UNCHANGED <<firm, faults>>

Save(r, c) ==
  /\ Saves(r, c) /\ ~Taken(c)
  /\ Write(r, c)
  /\ Report(r, c, "generated", {Key(c)})
  /\ UNCHANGED <<firm, faults>>

\* The index rejects the docket.  The other unique fields of a docket, its numbers
\* and its name, are made for it here and meet no other docket's.
Reject(r, c) ==
  /\ Saves(r, c) /\ Taken(c)
  /\ Report(r, c, "skipped_duplicate", {})
  /\ UNCHANGED <<firm, dockets, faults>>

\* Mutant: whatever is wrong with a save counts as a duplicate.
FaultAsDuplicate(r, c) ==
  /\ Saves(r, c) /\ faults < MaxFaults
  /\ faults' = faults + 1
  /\ UNCHANGED dockets
  /\ Report(r, c, "skipped_duplicate", {})
  /\ UNCHANGED firm

\* The save fails, or only its answer is lost.
Fault(r, c) ==
  /\ Saves(r, c) /\ faults < MaxFaults
  /\ faults' = faults + 1
  /\ UNCHANGED dockets \/ (~Taken(c) /\ Write(r, c))
  /\ Report(r, c, "failed", {})
  /\ UNCHANGED firm

Answer(r) ==
  /\ run[r].phase = "working" /\ run[r].todo = {}
  /\ run' = [run EXCEPT ![r].phase = "done"]
  /\ UNCHANGED <<firm, dockets, faults>>

\* The process serving r stops.
Stop(r) ==
  /\ run[r].phase \in {"loading", "working"}
  /\ run' = [run EXCEPT ![r].phase = "stopped"]
  /\ UNCHANGED <<firm, dockets, faults>>

Item(r) ==
  /\ run[r].phase = "working"
  /\ \E c \in run[r].todo : \/ Unmapped(r, c) \/ Known(r, c) \/ Preview(r, c)
                              \/ Save(r, c) \/ Reject(r, c) \/ Fault(r, c)

\* Administrators change templates and clients meanwhile.
Edit ==
  /\ edits < MaxEdits
  /\ edits' = edits + 1
  /\ \/ /\ \E t \in Templates, s \in Settings : template' = [template EXCEPT ![t] = s]
        /\ UNCHANGED active
     \/ /\ \E c \in Clients : active' \in {active \cup {c}, active \ {c}}
        /\ UNCHANGED template
  /\ UNCHANGED <<dockets, run, faults>>

Next ==
  \/ \E r \in Runs : \/ Ask(r) \/ LoadTemplates(r) \/ LoadClients(r) \/ FindExisting(r)
                     \/ Item(r) \/ Answer(r) \/ Stop(r)
  \/ Edit

Spec == Init /\ [][Next]_vars

-----------------------------------------------------------------------------
\* The types of the variables (the schemas of templates and dockets, and what
\* previewOrGenerate holds); a stored key is in lower case.
TypeOK ==
  /\ template \in [Templates -> Settings] /\ active \subseteq Clients
  /\ dockets \subseteq [key: Keys, of: Candidates, by: Runs]
  /\ \A d \in dockets : d.key = StoredKey(d.of)
  /\ run \in [Runs -> {Idle} \cup Called]
  /\ edits \in 0..MaxEdits /\ faults \in 0..MaxFaults

\* However requests overlap, stop and are sent again, a client has one docket for
\* an obligation and a period (the unique index on the idempotency key).
OncePerObligation ==
  \A d, e \in dockets :
    d.of.client = e.of.client /\ d.of.type = e.of.type /\ d.of.start = e.of.start => d = e

\* A period of pattern p begins in month s, whatever range is asked for; stated for
\* patterns that skip no period.
Begins(p, s) ==
  /\ p.interval = 1
  /\ p.frequency = "quarterly" => s % 3 = 0
  /\ p.frequency = "yearly" => s % 12 = p.startMonth

HasDocket(c, type, start) ==
  \E d \in dockets : d.of.client = c /\ d.of.type = type /\ d.of.start = start

HasFailed(r, t, c, start) ==
  \E i \in run[r].items : /\ i.status = "failed" /\ i.of.template = t
                          /\ i.of.client = c /\ i.of.start = start

\* When previewOrGenerate answers, every period that begins in the range has its
\* docket or is reported as failed, for every template and client it read: ranges
\* that follow each other leave no period out, and a duplicate is one.
FinishedRunCovers ==
  \A r \in Runs : run[r].phase = "done" /\ run[r].execute =>
    \A t \in DOMAIN run[r].templates, c \in run[r].clients,
       s \in run[r].request.from .. run[r].request.to :
      <<t, c>> \in Applies /\ Begins(run[r].templates[t].pattern, s) =>
        HasDocket(c, run[r].templates[t].type, s) \/ HasFailed(r, t, c, s)

\* No template skips a period, and years begin in one month.
Regular ==
  \A s, u \in Settings :
    s.pattern.interval = 1 /\ s.pattern.startMonth = u.pattern.startMonth

\* If templates are regular, two dockets of a client for one obligation, with periods of
\* one length, have no month in common, whatever ranges were asked for
\* (expandRecurringPeriods).
PeriodsDisjoint == Regular =>
  \A d, e \in dockets :
    /\ d.of.client = e.of.client /\ d.of.type = e.of.type
    /\ d.of.end - d.of.start = e.of.end - e.of.start
    => d = e \/ d.of.end < e.of.start \/ e.of.end < d.of.start

\* A due date counted from a period is after it (computeStatutoryDueDate).
DueAfterPeriod ==
  \A d \in dockets : d.of.mode # "fixed_day_month" => d.of.due > d.of.end
=============================================================================
