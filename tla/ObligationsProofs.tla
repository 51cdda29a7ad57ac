-------------------------- MODULE ObligationsProofs --------------------------
(* For any templates, clients, requests and calls: the types, one docket for  *)
(* each period, due dates after the periods they count from, and a finished   *)
(* call has left no period out.                                               *)
EXTENDS Obligations, TLAPS

LEMMA Assumptions ==
  /\ Templates \subseteq Nat /\ Clients \subseteq Nat
  /\ Settings \subseteq [type: Types, pattern: Patterns, rule: Rules,
                         active: BOOLEAN, mapped: BOOLEAN]
  /\ Requests \subseteq [from: Nat, to: Nat, templates: SUBSET Templates,
                         clients: SUBSET Clients]
  /\ MaxEdits \in Nat /\ MaxFaults \in Nat
  /\ Initial \subseteq [Templates -> Settings]
  BY TemplatesAssumption, SettingsAssumption, RequestsAssumption, BoundsAssumption,
     InitialAssumption

-----------------------------------------------------------------------------
(* Periods and due dates.                                                     *)

LEMMA SpanPositive ==
  ASSUME NEW p \in Patterns
  PROVE  Span(p) \in Nat /\ Span(p) >= 1
  BY DEF Span, Patterns, Frequencies

LEMMA DueMonthType ==
  ASSUME NEW rule \in Rules, NEW end \in Nat
  PROVE  /\ DueMonth(rule, end) \in Nat
         /\ rule.mode # "fixed_day_month" => DueMonth(rule, end) > end
  <1>1. rule.monthOffset \in 0..24 /\ rule.fixedMonth \in 0..12 /\ rule.mode \in Modes
    BY DEF Rules
  <1>2. end \div 12 \in Nat
    OBVIOUS
  <1> QED
    BY <1>1, <1>2 DEF DueMonth, FixedMonth, Modes

\* Wherever a range begins, the periods in it are the calendar's.
LEMMA StartsAreAligned ==
  ASSUME NEW p \in Patterns, NEW from \in Nat, NEW to \in Nat, NEW s \in from..to,
         Begins(p, s)
  PROVE  s \in PeriodStarts(p, from, to)
  <1>1. p.interval = 1 /\ p.startMonth \in 0..11 /\ p.frequency \in Frequencies
    BY DEF Begins, Patterns
  <1>2. CASE p.frequency = "monthly"
    <2>1. FirstCursor(p, from) = from /\ Span(p) = 1
      BY <1>1, <1>2 DEF FirstCursor, Span
    <2> QED
      BY <2>1 DEF PeriodStarts
  <1>3. CASE p.frequency = "quarterly"
    <2>1. FirstCursor(p, from) = 3 * (from \div 3) /\ Span(p) = 3
      BY <1>1, <1>3 DEF FirstCursor, Span
    <2>2. s % 3 = 0
      BY <1>3 DEF Begins
    <2> QED
      BY <2>1, <2>2 DEF PeriodStarts
  <1>4. CASE p.frequency = "yearly"
    <2>1. /\ FirstCursor(p, from)
              = 12 * (from \div 12 + IF from % 12 > p.startMonth THEN 1 ELSE 0) + p.startMonth
          /\ Span(p) = 12
      BY <1>1, <1>4 DEF FirstCursor, Span
    <2>2. s % 12 = p.startMonth
      BY <1>4 DEF Begins
    <2> QED
      BY <1>1, <2>1, <2>2 DEF PeriodStarts
  <1> QED
    BY <1>1, <1>2, <1>3, <1>4 DEF Frequencies

-----------------------------------------------------------------------------
(* What is true of a call.                                                    *)

DueOK(c) == c.mode # "fixed_day_month" => c.due > c.end

\* If templates are regular, a candidate's period is a month, a quarter or a year.
Placed(c) == Regular =>
  \/ c.end = c.start
  \/ c.end = c.start + 2 /\ c.start % 3 = 0
  \/ c.end = c.start + 11 /\ \E u \in Settings : c.start % 12 = u.pattern.startMonth

Sound(c) == DueOK(c) /\ Placed(c)

\* A docket among ds for client c, obligation type and period.
Has(ds, c, type, start) ==
  \E d \in ds : d.of.client = c /\ d.of.type = type /\ d.of.start = start

\* Call x has reported the period as failed, or has yet to come to it.
Failed(x, t, c, start) ==
  \E i \in x.items : /\ i.status = "failed" /\ i.of.template = t
                     /\ i.of.client = c /\ i.of.start = start
Left(x, t, c, start) ==
  \E k \in x.todo : /\ k.template = t /\ k.type = x.templates[t].type
                    /\ k.client = c /\ k.start = start

\* No period of what x has read is lost.
Covered(x, ds) ==
  \A t \in DOMAIN x.templates, c \in x.clients, s \in x.request.from .. x.request.to :
    <<t, c>> \in Applies /\ Begins(x.templates[t].pattern, s) =>
      Has(ds, c, x.templates[t].type, s) \/ Failed(x, t, c, s) \/ Left(x, t, c, s)

RunOK(x, ds) == x.phase # "idle" =>
  /\ \A c \in x.todo : Sound(c)
  /\ \A k \in x.existing : Has(ds, k.client, k.type, k.start)
  /\ x.execute /\ x.phase \in {"working", "done"} => Covered(x, ds)
  /\ x.phase = "done" => x.todo = {}

\* The inductive invariant.
Inv ==
  /\ TypeOK
  /\ OncePerObligation
  /\ \A d \in dockets : Sound(d.of)
  /\ \A r \in Runs : RunOK(run[r], dockets)

LEMMA Grows ==
  ASSUME NEW x, NEW ds, NEW es, ds \subseteq es, RunOK(x, ds)
  PROVE  RunOK(x, es)
  BY DEF RunOK, Covered, Has

LEMMA CalledFields ==
  ASSUME NEW x \in Called
  PROVE  /\ x.request \in Requests /\ x.request.from \in Nat /\ x.request.to \in Nat
         /\ DOMAIN x.templates \subseteq Templates
         /\ \A t \in DOMAIN x.templates : x.templates[t] \in Settings
         /\ x.clients \subseteq Clients
  <1>1. x.request \in Requests /\ x.clients \subseteq Clients
        /\ x.templates \in UNION {[T -> Settings] : T \in SUBSET Templates}
    BY DEF Called
  <1>2. PICK T \in SUBSET Templates : x.templates \in [T -> Settings]
    BY <1>1
  <1> QED
    BY <1>1, <1>2, Assumptions

LEMMA CandidateTyped ==
  ASSUME NEW t \in Templates, NEW s \in Settings, NEW c \in Clients, NEW start \in Nat
  PROVE  Candidate(t, s, c, start) \in Candidates /\ DueOK(Candidate(t, s, c, start))
  <1>1. s.pattern \in Patterns /\ s.rule \in Rules /\ s.type \in Types /\ s.mapped \in BOOLEAN
    BY Assumptions
  <1>2. s.rule.mode \in Modes
    BY <1>1 DEF Rules
  <1> DEFINE end == start + Span(s.pattern) - 1
  <1>3. end \in Nat
    BY <1>1, SpanPositive
  <1>4. /\ DueMonth(s.rule, end) \in Nat
        /\ s.rule.mode # "fixed_day_month" => DueMonth(s.rule, end) > end
    BY <1>1, <1>3, DueMonthType
  <1> HIDE DEF end
  <1>5. Candidate(t, s, c, start) =
          [template |-> t, client |-> c, type |-> s.type, mapped |-> s.mapped, start |-> start,
           end |-> end, mode |-> s.rule.mode, due |-> DueMonth(s.rule, end)]
    BY DEF Candidate, end
  <1> QED
    BY <1>1, <1>2, <1>3, <1>4, <1>5 DEF Candidates, DueOK

LEMMA MonthOfYear ==
  ASSUME NEW start \in Nat, NEW year \in Int, NEW month \in 0..11,
         (start - (12 * year + month)) % 12 = 0
  PROVE  start % 12 = month
  OBVIOUS

LEMMA CandidatePlaced ==
  ASSUME NEW t, NEW s \in Settings, NEW c, NEW from \in Nat, NEW to \in Nat,
         NEW start \in PeriodStarts(s.pattern, from, to)
  PROVE  Placed(Candidate(t, s, c, start))
  <1> DEFINE p == s.pattern
             k == Candidate(t, s, c, start)
  <1> SUFFICES ASSUME Regular PROVE Placed(k)
    BY DEF Placed
  <1>1. /\ p \in Patterns /\ p.interval = 1 /\ p.startMonth \in 0..11
        /\ p.frequency \in Frequencies
    BY Assumptions DEF Regular, Patterns
  <1>2. \E u \in Settings : u.pattern.startMonth = p.startMonth
    OBVIOUS
  <1>3. /\ start \in from..to /\ start >= FirstCursor(p, from)
        /\ (start - FirstCursor(p, from)) % Span(p) = 0
    BY DEF PeriodStarts
  <1>4. k.start = start /\ k.end = start + Span(p) - 1
    BY DEF Candidate
  <1> HIDE DEF p, k
  <1>5. CASE p.frequency = "monthly"
    BY <1>1, <1>3, <1>4, <1>5 DEF Placed, Span
  <1>6. CASE p.frequency = "quarterly"
    <2>1. FirstCursor(p, from) = 3 * (from \div 3) /\ Span(p) = 3
      BY <1>1, <1>6 DEF FirstCursor, Span
    <2>2. start % 3 = 0
      BY <1>3, <2>1
    <2> QED
      BY <1>3, <1>4, <2>1, <2>2 DEF Placed
  <1>7. CASE p.frequency = "yearly"
    <2>1. /\ FirstCursor(p, from)
              = 12 * (from \div 12 + IF from % 12 > p.startMonth THEN 1 ELSE 0) + p.startMonth
          /\ Span(p) = 12
      BY <1>1, <1>7 DEF FirstCursor, Span
    <2>2. start % 12 = p.startMonth
      <3> DEFINE year == from \div 12 + IF from % 12 > p.startMonth THEN 1 ELSE 0
      <3>1. year \in Int /\ (start - (12 * year + p.startMonth)) % 12 = 0
        BY <1>1, <1>3, <2>1
      <3>2. start \in Nat
        BY <1>3
      <3> HIDE DEF year
      <3> QED
        BY <1>1, <3>1, <3>2, MonthOfYear
    <2> QED
      BY <1>2, <1>3, <1>4, <2>1, <2>2 DEF Placed
  <1> QED
    BY <1>1, <1>5, <1>6, <1>7 DEF Frequencies

LEMMA CandidatesTyped ==
  ASSUME NEW x \in Called
  PROVE  \A c \in CandidatesOf(x) : c \in Candidates /\ Sound(c)
  <1> SUFFICES ASSUME NEW k \in CandidatesOf(x) PROVE k \in Candidates /\ Sound(k)
    OBVIOUS
  <1>1. PICK y \in Applies :
          /\ y[1] \in DOMAIN x.templates /\ y[2] \in x.clients
          /\ \E s \in PeriodStarts(x.templates[y[1]].pattern, x.request.from, x.request.to) :
               k = Candidate(y[1], x.templates[y[1]], y[2], s)
    BY DEF CandidatesOf
  <1>2. PICK s \in PeriodStarts(x.templates[y[1]].pattern, x.request.from, x.request.to) :
          k = Candidate(y[1], x.templates[y[1]], y[2], s)
    BY <1>1
  <1>3. s \in Nat
    BY CalledFields DEF PeriodStarts
  <1> QED
    BY <1>1, <1>2, <1>3, CalledFields, CandidateTyped, CandidatePlaced DEF Sound

\* The candidates leave no period out.
LEMMA AllAreCandidates ==
  ASSUME NEW x \in Called, NEW t \in DOMAIN x.templates, NEW c \in x.clients,
         NEW s \in x.request.from .. x.request.to,
         <<t, c>> \in Applies, Begins(x.templates[t].pattern, s)
  PROVE  \E k \in CandidatesOf(x) : /\ k.template = t /\ k.type = x.templates[t].type
                                    /\ k.client = c /\ k.start = s
  <1>1. x.templates[t].pattern \in Patterns
    BY CalledFields, Assumptions
  <1>2. s \in PeriodStarts(x.templates[t].pattern, x.request.from, x.request.to)
    BY <1>1, CalledFields, StartsAreAligned
  <1> DEFINE k == Candidate(t, x.templates[t], c, s)
  <1>3. k \in CandidatesOf(x)
    <2> DEFINE y == <<t, c>>
    <2>1. y \in Applies /\ y[1] = t /\ y[2] = c
      OBVIOUS
    <2> HIDE DEF y
    <2> QED
      BY <1>2, <2>1 DEF CandidatesOf
  <1>4. /\ k.template = t /\ k.type = x.templates[t].type /\ k.client = c /\ k.start = s
    BY DEF Candidate
  <1> QED
    BY <1>3, <1>4

-----------------------------------------------------------------------------
(* The steps.                                                                 *)

\* What a call reports of a candidate.
Reported(x, c, status, known) ==
  [x EXCEPT !.todo = @ \ {c}, !.items = @ \cup {[of |-> c, status |-> status]},
            !.existing = @ \cup known]

LEMMA ReportedOK ==
  ASSUME NEW x \in Called, NEW c \in x.todo, NEW status \in Outcomes, NEW known \in SUBSET Keys,
         NEW ds, NEW es, ds \subseteq es, RunOK(x, ds), x.phase = "working",
         \A k \in known : Has(es, k.client, k.type, k.start),
         ~x.execute \/ status = "failed" \/ Has(es, c.client, c.type, c.start)
  PROVE  Reported(x, c, status, known) \in Called /\ RunOK(Reported(x, c, status, known), es)
  <1> DEFINE y == Reported(x, c, status, known)
  <1>1. /\ y.phase = x.phase /\ y.request = x.request /\ y.execute = x.execute
        /\ y.templates = x.templates /\ y.clients = x.clients
        /\ y.todo = x.todo \ {c} /\ y.items = x.items \cup {[of |-> c, status |-> status]}
        /\ y.existing = x.existing \cup known
    BY DEF Reported, Called
  <1>2. y \in Called
    <2>1. c \in Candidates /\ x.todo \ {c} \subseteq Candidates
      BY DEF Called
    <2>2. x.items \cup {[of |-> c, status |-> status]}
            \subseteq [of: Candidates, status: Outcomes]
      BY <2>1 DEF Called
    <2>3. x.existing \cup known \subseteq Keys
      BY DEF Called
    <2> DEFINE items == x.items \cup {[of |-> c, status |-> status]}
               existing == x.existing \cup known
               todo == x.todo \ {c}
    <2>4. y = [x EXCEPT !.todo = todo, !.items = items, !.existing = existing]
      BY DEF Reported
    <2>5. /\ todo \in SUBSET Candidates /\ existing \in SUBSET Keys
          /\ items \in SUBSET [of: Candidates, status: Outcomes]
      BY <2>1, <2>2, <2>3
    <2> HIDE DEF items, existing, todo, y
    <2> QED
      BY <2>4, <2>5 DEF Called
  <1>3. RunOK(x, es)
    BY Grows
  <1>4. x.execute => Covered(y, es)
    <2> SUFFICES ASSUME x.execute, NEW t \in DOMAIN x.templates, NEW d \in x.clients,
                        NEW s \in x.request.from .. x.request.to,
                        <<t, d>> \in Applies, Begins(x.templates[t].pattern, s)
                 PROVE  \/ Has(es, d, x.templates[t].type, s)
                        \/ Failed(y, t, d, s) \/ Left(y, t, d, s)
      BY <1>1 DEF Covered
    <2>1. Has(es, d, x.templates[t].type, s) \/ Failed(x, t, d, s) \/ Left(x, t, d, s)
      BY <1>3 DEF RunOK, Covered
    <2>2. Failed(x, t, d, s) => Failed(y, t, d, s)
      BY <1>1 DEF Failed
    <2>3. ASSUME Left(x, t, d, s)
          PROVE  \/ Has(es, d, x.templates[t].type, s)
                 \/ Failed(y, t, d, s) \/ Left(y, t, d, s)
      <3>1. PICK k \in x.todo : /\ k.template = t /\ k.type = x.templates[t].type
                                /\ k.client = d /\ k.start = s
        BY <2>3 DEF Left
      <3>2. CASE k # c
        BY <1>1, <3>1, <3>2 DEF Left
      <3>3. CASE k = c
        <4> DEFINE i == [of |-> c, status |-> status]
        <4>1. status = "failed" => Failed(y, t, d, s)
          <5>1. i \in y.items /\ i.of = c /\ i.status = status
            BY <1>1
          <5> HIDE DEF i, y
          <5> QED
            BY <3>1, <3>3, <5>1 DEF Failed
        <4> QED
          BY <3>1, <3>3, <4>1
      <3> QED
        BY <3>2, <3>3
    <2> QED
      BY <2>1, <2>2, <2>3
  <1> HIDE DEF y
  <1> QED
    BY <1>1, <1>2, <1>3, <1>4 DEF RunOK, y

\* A call goes from x to y while the others go on as they were.
LEMMA OneCall ==
  ASSUME Inv, NEW r \in Runs, NEW y \in Called, run' = [run EXCEPT ![r] = y],
         RunOK(y, dockets'), dockets \subseteq dockets'
  PROVE  run' \in [Runs -> {Idle} \cup Called] /\ \A q \in Runs : RunOK(run'[q], dockets')
  <1>1. run \in [Runs -> {Idle} \cup Called]
    BY DEF Inv, TypeOK
  <1>2. ASSUME NEW q \in Runs PROVE RunOK(run'[q], dockets')
    <2>1. CASE q = r
      BY <1>1, <2>1
    <2>2. CASE q # r
      <3>1. run'[q] = run[q] /\ RunOK(run[q], dockets)
        BY <1>1, <2>2 DEF Inv
      <3> QED
        BY <3>1, Grows
    <2> QED
      BY <2>1, <2>2
  <1> QED
    BY <1>1, <1>2

LEMMA IsCalled ==
  ASSUME Inv, NEW r \in Runs, run[r].phase # "idle"
  PROVE  run[r] \in Called /\ RunOK(run[r], dockets)
  BY DEF Inv, TypeOK, Idle

\* A step of one call that writes no docket.
LEMMA Quiet ==
  ASSUME Inv, NEW r \in Runs, NEW y \in Called, run' = [run EXCEPT ![r] = y],
         RunOK(y, dockets), UNCHANGED <<template, active, edits, dockets>>, faults' \in 0..MaxFaults
  PROVE  Inv'
  <1>1. run' \in [Runs -> {Idle} \cup Called] /\ \A q \in Runs : RunOK(run'[q], dockets')
    BY OneCall
  <1> QED
    BY <1>1 DEF Inv, TypeOK, OncePerObligation

LEMMA AskStep ==
  ASSUME Inv, NEW r \in Runs, Ask(r)
  PROVE  Inv'
  <1>1. PICK q \in Requests, execute \in BOOLEAN :
          run' = [run EXCEPT ![r] =
                    [phase |-> "loading", request |-> q, execute |-> execute, read |-> {},
                     templates |-> [t \in {} |-> template[t]], clients |-> {},
                     existing |-> {}, todo |-> {}, items |-> {}]]
    BY DEF Ask
  <1> DEFINE none == [t \in {} |-> template[t]]
             y == [phase |-> "loading", request |-> q, execute |-> execute, read |-> {},
                   templates |-> none, clients |-> {},
                   existing |-> {}, todo |-> {}, items |-> {}]
  <1>2. none \in UNION {[T -> Settings] : T \in SUBSET Templates}
    <2>1. none \in [{} -> Settings]
      OBVIOUS
    <2> QED
      BY <2>1
  <1> HIDE DEF none
  <1>3. y \in Called /\ RunOK(y, dockets)
    BY <1>2 DEF Called, RunOK
  <1>4. run' = [run EXCEPT ![r] = y]
    BY <1>1 DEF none
  <1> HIDE DEF y
  <1> QED
    BY <1>3, <1>4, Quiet DEF Ask, firm, Inv, TypeOK

LEMMA LoadTemplatesStep ==
  ASSUME Inv, NEW r \in Runs, LoadTemplates(r)
  PROVE  Inv'
  <1>1. run[r] \in Called /\ RunOK(run[r], dockets) /\ run[r].phase = "loading"
    BY IsCalled DEF LoadTemplates
  <1> DEFINE T == {u \in run[r].request.templates : template[u].active}
             read == [t \in T |-> template[t]]
             y == [run[r] EXCEPT !.read = @ \cup {"templates"}, !.templates = read]
  <1>2. read \in UNION {[U -> Settings] : U \in SUBSET Templates}
    <2>1. template \in [Templates -> Settings] /\ run[r].request \in Requests
      BY <1>1 DEF Inv, TypeOK, Called
    <2>2. T \in SUBSET Templates
      BY <2>1, Assumptions
    <2>3. read \in [T -> Settings]
      BY <2>1, <2>2
    <2> HIDE DEF T, read
    <2> QED
      BY <2>2, <2>3
  <1>3. run' = [run EXCEPT ![r] = y]
    BY DEF LoadTemplates, Inv, TypeOK
  <1> HIDE DEF T, read
  <1>4. y \in Called /\ RunOK(y, dockets)
    BY <1>1, <1>2 DEF Called, RunOK
  <1> HIDE DEF y
  <1> QED
    BY <1>3, <1>4, Quiet DEF LoadTemplates, firm, Inv, TypeOK

LEMMA LoadClientsStep ==
  ASSUME Inv, NEW r \in Runs, LoadClients(r)
  PROVE  Inv'
  <1>1. run[r] \in Called /\ RunOK(run[r], dockets) /\ run[r].phase = "loading"
    BY IsCalled DEF LoadClients
  <1> DEFINE y == [run[r] EXCEPT !.read = @ \cup {"clients"},
                                 !.clients = run[r].request.clients \cap active]
  <1>2. run' = [run EXCEPT ![r] = y]
    BY DEF LoadClients, Inv, TypeOK
  <1>3. run[r].request.clients \cap active \subseteq Clients
    BY DEF Inv, TypeOK
  <1>4. y \in Called /\ RunOK(y, dockets)
    BY <1>1, <1>3 DEF Called, RunOK
  <1> HIDE DEF y
  <1> QED
    BY <1>2, <1>4, Quiet DEF LoadClients, firm, Inv, TypeOK

LEMMA FindExistingStep ==
  ASSUME Inv, NEW r \in Runs, FindExisting(r)
  PROVE  Inv'
  <1> DEFINE x == run[r]
             due == CandidatesOf(x)
             existing == {d.key : d \in dockets} \cap {StoredKey(k) : k \in due}
             y == [x EXCEPT !.phase = "working", !.todo = due, !.existing = existing]
  <1>1. x \in Called /\ RunOK(x, dockets) /\ x.phase = "loading"
    BY IsCalled DEF FindExisting
  <1>2. run' = [run EXCEPT ![r] = y]
    BY DEF FindExisting, Inv, TypeOK
  <1>3. \A k \in due : k \in Candidates /\ Sound(k)
    BY <1>1, CandidatesTyped
  <1>4. \A k \in existing : k \in Keys /\ Has(dockets, k.client, k.type, k.start)
    <2> SUFFICES ASSUME NEW k \in existing
                 PROVE  k \in Keys /\ Has(dockets, k.client, k.type, k.start)
      OBVIOUS
    <2>1. PICK d \in dockets : k = d.key
      OBVIOUS
    <2>2. d.key = StoredKey(d.of) /\ d.key \in Keys /\ d.of \in Candidates
      BY DEF Inv, TypeOK
    <2>3. k.client = d.of.client /\ k.type = d.of.type /\ k.start = d.of.start
      BY <2>1, <2>2 DEF StoredKey, Key
    <2> QED
      BY <2>1, <2>2, <2>3 DEF Has
  <1>5. \A t \in DOMAIN x.templates, c \in x.clients, s \in x.request.from .. x.request.to :
          <<t, c>> \in Applies /\ Begins(x.templates[t].pattern, s) =>
            \E k \in due : /\ k.template = t /\ k.type = x.templates[t].type
                           /\ k.client = c /\ k.start = s
    BY <1>1, AllAreCandidates
  <1> HIDE DEF due, existing
  <1>6. y \in Called
    BY <1>1, <1>3, <1>4 DEF Called
  <1>7. /\ y.phase = "working" /\ y.todo = due /\ y.existing = existing
        /\ y.templates = x.templates /\ y.clients = x.clients /\ y.request = x.request
    BY <1>1 DEF Called
  <1> HIDE DEF x, y
  <1>8. RunOK(y, dockets)
    BY <1>3, <1>4, <1>5, <1>7 DEF RunOK, Covered, Left
  <1> QED
    BY <1>2, <1>6, <1>8, Quiet DEF FindExisting, firm, Inv, TypeOK

\* What holds of the candidate a call is at.
LEMMA AtCandidate ==
  ASSUME Inv, NEW r \in Runs, NEW c \in run[r].todo, run[r].phase = "working"
  PROVE  /\ run[r] \in Called /\ RunOK(run[r], dockets)
         /\ c \in Candidates /\ Sound(c)
         /\ Key(c) \in Keys /\ StoredKey(c) \in Keys
         /\ StoredKey(c).client = c.client /\ StoredKey(c).type = c.type
         /\ StoredKey(c).start = c.start
  <1>1. run[r] \in Called /\ RunOK(run[r], dockets)
    BY IsCalled
  <1>2. c \in Candidates /\ Sound(c)
    BY <1>1 DEF RunOK, Called
  <1> QED
    BY <1>1, <1>2 DEF Key, StoredKey, Keys, Candidates

\* A taken key is a docket of the period.
LEMMA TakenHas ==
  ASSUME Inv, NEW c, c \in Candidates, Taken(c)
  PROVE  Has(dockets, c.client, c.type, c.start)
  <1>1. PICK d \in dockets : d.key = StoredKey(c)
    BY DEF Taken
  <1>2. d.key = StoredKey(d.of) /\ d.of \in Candidates
    BY DEF Inv, TypeOK
  <1>3. d.of.client = c.client /\ d.of.type = c.type /\ d.of.start = c.start
    BY <1>1, <1>2 DEF StoredKey, Key, Candidates
  <1> QED
    BY <1>3 DEF Has

\* A report that writes no docket.
LEMMA QuietReport ==
  ASSUME Inv, NEW r \in Runs, NEW c \in run[r].todo, run[r].phase = "working",
         NEW status \in Outcomes, Report(r, c, status, {}),
         ~run[r].execute \/ status = "failed" \/ Has(dockets, c.client, c.type, c.start),
         UNCHANGED <<template, active, edits, dockets>>, faults' \in 0..MaxFaults
  PROVE  Inv'
  <1> DEFINE y == Reported(run[r], c, status, {})
  <1>1. run[r] \in Called /\ RunOK(run[r], dockets)
    BY AtCandidate
  <1>2. y \in Called /\ RunOK(y, dockets)
    BY <1>1, ReportedOK
  <1>3. run' = [run EXCEPT ![r] = y]
    BY DEF Report, Reported, Inv, TypeOK
  <1> HIDE DEF y
  <1> QED
    BY <1>2, <1>3, Quiet

\* A report of a call that writes the docket of c.
LEMMA WritingReport ==
  ASSUME Inv, NEW r \in Runs, NEW c \in run[r].todo, run[r].phase = "working", ~Taken(c),
         NEW status \in Outcomes, NEW known \in SUBSET {Key(c)},
         Write(r, c), Report(r, c, status, known),
         UNCHANGED <<template, active, edits>>, faults' \in 0..MaxFaults
  PROVE  Inv'
  <1> DEFINE y == Reported(run[r], c, status, known)
             new == [key |-> StoredKey(c), of |-> c, by |-> r]
  <1>1. /\ run[r] \in Called /\ RunOK(run[r], dockets)
        /\ c \in Candidates /\ Sound(c) /\ Key(c) \in Keys /\ StoredKey(c) \in Keys
    BY AtCandidate
  <1>2. dockets' = dockets \cup {new} /\ new.of = c /\ new.key = StoredKey(c)
    BY DEF Write
  <1>3. Has(dockets', c.client, c.type, c.start)
    BY <1>2 DEF Has
  <1>4. \A k \in known : Has(dockets', k.client, k.type, k.start)
    BY <1>3 DEF Key
  <1>5. y \in Called /\ RunOK(y, dockets')
    BY <1>1, <1>2, <1>3, <1>4, ReportedOK
  <1>6. run' = [run EXCEPT ![r] = y]
    BY DEF Report, Reported, Inv, TypeOK
  <1> HIDE DEF y
  <1>7. run' \in [Runs -> {Idle} \cup Called] /\ \A q \in Runs : RunOK(run'[q], dockets')
    BY <1>2, <1>5, <1>6, OneCall
  <1>8. /\ dockets' \subseteq [key: Keys, of: Candidates, by: Runs]
        /\ \A d \in dockets' : d.key = StoredKey(d.of) /\ Sound(d.of)
    BY <1>1, <1>2 DEF Inv, TypeOK
  <1>9. OncePerObligation'
    <2>1. \A d \in dockets : ~ (/\ d.of.client = c.client /\ d.of.type = c.type
                                /\ d.of.start = c.start)
      BY DEF Inv, TypeOK, Taken, StoredKey, Key
    <2> HIDE DEF new
    <2> QED
      BY <1>2, <2>1 DEF OncePerObligation, Inv
  <1> QED
    BY <1>7, <1>8, <1>9 DEF Inv, TypeOK

LEMMA ItemStep ==
  ASSUME Inv, NEW r \in Runs, Item(r)
  PROVE  Inv'
  <1>1. PICK c \in run[r].todo : \/ Unmapped(r, c) \/ Known(r, c) \/ Preview(r, c)
                                 \/ Save(r, c) \/ Reject(r, c) \/ Fault(r, c)
    BY DEF Item
  <1>2. run[r].phase = "working" /\ faults \in 0..MaxFaults
    BY DEF Item, Inv, TypeOK
  <1>3. CASE Unmapped(r, c)
    BY <1>2, <1>3, QuietReport DEF Unmapped, firm, Outcomes
  <1>4. CASE Known(r, c)
    <2>1. Has(dockets, c.client, c.type, c.start)
      BY <1>2, <1>4, AtCandidate DEF Known, RunOK, Key
    <2> QED
      BY <1>2, <1>4, <2>1, QuietReport DEF Known, firm, Outcomes
  <1>5. CASE Preview(r, c)
    BY <1>2, <1>5, QuietReport DEF Preview, firm, Outcomes
  <1>6. CASE Save(r, c)
    BY <1>2, <1>6, WritingReport DEF Save, firm, Outcomes
  <1>7. CASE Reject(r, c)
    <2>1. Has(dockets, c.client, c.type, c.start)
      BY <1>2, <1>7, AtCandidate, TakenHas DEF Reject
    <2> QED
      BY <1>2, <1>7, <2>1, QuietReport DEF Reject, firm, Outcomes
  <1>8. CASE Fault(r, c)
    <2>1. faults' \in 0..MaxFaults /\ "failed" \in Outcomes
      BY <1>2, <1>8, Assumptions DEF Fault, Outcomes
    <2>2. CASE UNCHANGED dockets
      BY <1>2, <1>8, <2>1, <2>2, QuietReport DEF Fault, firm
    <2>3. CASE ~Taken(c) /\ Write(r, c)
      BY <1>2, <1>8, <2>1, <2>3, WritingReport DEF Fault, firm
    <2> QED
      BY <1>8, <2>2, <2>3 DEF Fault
  <1> QED
    BY <1>1, <1>3, <1>4, <1>5, <1>6, <1>7, <1>8

LEMMA AnswerStep ==
  ASSUME Inv, NEW r \in Runs, Answer(r)
  PROVE  Inv'
  <1> DEFINE y == [run[r] EXCEPT !.phase = "done"]
  <1>1. run[r] \in Called /\ RunOK(run[r], dockets) /\ run[r].phase = "working"
    BY IsCalled DEF Answer
  <1>2. y \in Called /\ RunOK(y, dockets)
    BY <1>1 DEF Called, RunOK, Covered, Failed, Left, Answer
  <1>3. run' = [run EXCEPT ![r] = y]
    BY DEF Answer, Inv, TypeOK
  <1> HIDE DEF y
  <1> QED
    BY <1>2, <1>3, Quiet DEF Answer, firm, Inv, TypeOK

LEMMA StopStep ==
  ASSUME Inv, NEW r \in Runs, Stop(r)
  PROVE  Inv'
  <1> DEFINE y == [run[r] EXCEPT !.phase = "stopped"]
  <1>1. run[r] \in Called /\ RunOK(run[r], dockets)
    BY IsCalled DEF Stop
  <1>2. y \in Called /\ RunOK(y, dockets)
    BY <1>1 DEF Called, RunOK, Stop
  <1>3. run' = [run EXCEPT ![r] = y]
    BY DEF Stop, Inv, TypeOK
  <1> HIDE DEF y
  <1> QED
    BY <1>2, <1>3, Quiet DEF Stop, firm, Inv, TypeOK

LEMMA EditStep ==
  ASSUME Inv, Edit
  PROVE  Inv'
  <1>1. UNCHANGED <<dockets, run, faults>> /\ edits' \in 0..MaxEdits
    BY Assumptions DEF Edit, Inv, TypeOK
  <1>2. template' \in [Templates -> Settings] /\ active' \subseteq Clients
    BY DEF Edit, Inv, TypeOK
  <1> QED
    BY <1>1, <1>2 DEF Inv, TypeOK, OncePerObligation

-----------------------------------------------------------------------------
(* The theorems.                                                              *)

LEMMA InitInv == Init => Inv
  BY Assumptions DEF Init, Inv, TypeOK, OncePerObligation, RunOK, Idle

LEMMA NextInv == Inv /\ [Next]_vars => Inv'
  <1> SUFFICES ASSUME Inv, [Next]_vars PROVE Inv'
    OBVIOUS
  <1>1. CASE UNCHANGED vars
    BY <1>1 DEF vars, Inv, TypeOK, OncePerObligation
  <1>2. CASE Edit
    BY <1>2, EditStep
  <1>3. ASSUME NEW r \in Runs,
               \/ Ask(r) \/ LoadTemplates(r) \/ LoadClients(r) \/ FindExisting(r)
               \/ Item(r) \/ Answer(r) \/ Stop(r)
        PROVE  Inv'
    BY <1>3, AskStep, LoadTemplatesStep, LoadClientsStep, FindExistingStep, ItemStep,
       AnswerStep, StopStep
  <1> QED
    BY <1>1, <1>2, <1>3 DEF Next

\* The invariant that the theorems follow from: what a call knows to exist exists, and
\* every period of what it has read has a docket, is reported as failed or is to come.
THEOREM ObligationsInvariant == Spec => []Inv
  BY InitInv, NextInv, PTL DEF Spec

\* The variables keep their types, and a stored key is in lower case
\* (previewOrGenerate and the docket schema).
THEOREM ObligationTypeCorrect == Spec => []TypeOK
  <1>1. Inv => TypeOK
    BY DEF Inv
  <1> QED
    BY <1>1, ObligationsInvariant, PTL

\* However many calls overlap, stop and are sent again, no period gets two dockets
\* (the saves of previewOrGenerate under the unique index).
THEOREM OneDocketPerPeriod == Spec => []OncePerObligation
  <1>1. Inv => OncePerObligation
    BY DEF Inv
  <1> QED
    BY <1>1, ObligationsInvariant, PTL

\* A call that has answered has left out no period of its range, wherever the range
\* begins (expandRecurringPeriods and the loop of previewOrGenerate).
THEOREM RunsCoverRanges == Spec => []FinishedRunCovers
  <1>1. Inv => FinishedRunCovers
    <2> SUFFICES ASSUME Inv, NEW r \in Runs, run[r].phase = "done", run[r].execute,
                        NEW t \in DOMAIN run[r].templates, NEW c \in run[r].clients,
                        NEW s \in run[r].request.from .. run[r].request.to,
                        <<t, c>> \in Applies, Begins(run[r].templates[t].pattern, s)
                 PROVE  HasDocket(c, run[r].templates[t].type, s) \/ HasFailed(r, t, c, s)
      BY DEF FinishedRunCovers
    <2>1. Covered(run[r], dockets) /\ run[r].todo = {}
      BY DEF Inv, RunOK
    <2>2. Has(dockets, c, run[r].templates[t].type, s) \/ Failed(run[r], t, c, s)
      BY <2>1 DEF Covered, Left
    <2> QED
      BY <2>2 DEF Has, HasDocket, Failed, HasFailed
  <1> QED
    BY <1>1, ObligationsInvariant, PTL

\* A due date that is counted from a period lies after it (computeStatutoryDueDate).
THEOREM DueDatesFollow == Spec => []DueAfterPeriod
  <1>1. Inv => DueAfterPeriod
    BY DEF Inv, Sound, DueOK, DueAfterPeriod
  <1> QED
    BY <1>1, ObligationsInvariant, PTL

\* Ranges that overlap, adjoin or begin anywhere give the same periods: if templates are
\* regular, no two of one length share a month (expandRecurringPeriods).
THEOREM PeriodsAreDisjoint == Spec => []PeriodsDisjoint
  <1>1. Inv => PeriodsDisjoint
    <2> SUFFICES ASSUME Inv, Regular, NEW d \in dockets, NEW e \in dockets,
                        d.of.client = e.of.client, d.of.type = e.of.type,
                        d.of.end - d.of.start = e.of.end - e.of.start, d # e
                 PROVE  d.of.end < e.of.start \/ e.of.end < d.of.start
      BY DEF PeriodsDisjoint
    <2> DEFINE a == d.of.start
               b == e.of.start
               n == d.of.end - a
    <2>1. /\ d.of \in Candidates /\ e.of \in Candidates /\ Placed(d.of) /\ Placed(e.of)
      BY DEF Inv, TypeOK, Sound
    <2>2. /\ a \in Nat /\ b \in Nat /\ d.of.end \in Nat /\ e.of.end \in Nat
          /\ d.of.start = a /\ e.of.start = b
          /\ d.of.end = a + n /\ e.of.end = b + n /\ n \in Int
      BY <2>1 DEF Candidates
    <2>3. a # b
      BY DEF Inv, OncePerObligation
    <2> HIDE DEF a, b, n
    <2>4. \/ n = 0
          \/ n = 2 /\ a % 3 = 0 /\ b % 3 = 0
          \/ n = 11 /\ a % 12 = b % 12
      BY <2>1, <2>2 DEF Placed, Regular, a, b
    <2>5. CASE n = 0
      BY <2>2, <2>3, <2>5
    <2>6. CASE n = 2 /\ a % 3 = 0 /\ b % 3 = 0
      BY <2>2, <2>3, <2>6
    <2>7. CASE n = 11 /\ a % 12 = b % 12
      BY <2>2, <2>3, <2>7
    <2> QED
      BY <2>4, <2>5, <2>6, <2>7
  <1> QED
    BY <1>1, ObligationsInvariant, PTL
=============================================================================
