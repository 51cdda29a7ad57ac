------------------------------- MODULE DueDate -------------------------------
(* When a docket is due: calculateDueDate spends a duration, in minutes, over *)
(* the business hours of a firm's calendar.                                   *)
(*                                                                            *)
(* Time is counted in ticks, TicksPerMinute of them in a minute, since        *)
(* dockets are created at any second and the loop counts whole minutes.       *)
(* Every state is one pass of one of the two loops; the initial states are    *)
(* the inputs.                                                                *)
EXTENDS Integers, FiniteSets, FiniteSetsExt

CONSTANTS
  TicksPerMinute,
  DayLength,    \* ticks of a day
  Opens,        \* business start, in ticks of the day
  Closes,       \* business end
  Week,         \* days of a week
  Lookahead,    \* MAX_CALENDAR_DAYS_LOOKAHEAD
  Calendars,    \* weekdays worked, holidays and working-date overrides of a firm
  Starts,       \* instants at which a docket is created
  Durations     \* minutes it may take

ASSUME UnitsAssumption ==
  /\ TicksPerMinute \in Nat \ {0} /\ Week \in Nat \ {0} /\ Lookahead \in Nat \ {0}
  /\ {Opens, Closes, DayLength} \subseteq {TicksPerMinute * m : m \in 0..DayLength}
  /\ Opens < Closes /\ Closes < DayLength

ASSUME CalendarsAssumption ==
  \A c \in Calendars : /\ c.weekdays \in (SUBSET (0..Week - 1)) \ {{}}
                       /\ c.holidays \in SUBSET Nat /\ c.overrides \in SUBSET Nat

ASSUME InputsAssumption == Starts \subseteq Nat /\ Durations \subseteq Nat

VARIABLES
  calendar, start, duration,    \* the input
  pc,           \* which loop runs: alignToBusinessTime or calculateDueDate
  current,      \* the instant reached
  remaining,    \* minutes still to spend
  attempts      \* passes left

vars == <<calendar, start, duration, pc, current, remaining, attempts>>

-----------------------------------------------------------------------------
(* The calendar.                                                              *)

Day(t) == t \div DayLength

BusinessStart(t) == Day(t) * DayLength + Opens
BusinessEnd(t)   == Day(t) * DayLength + Closes

\* isWorkingDateTime.
IsWorkingDay(c, d) ==
  d \in c.overrides \/ (d \notin c.holidays /\ d % Week \in c.weekdays)

\* Mutant: holidays are not skipped on the way.
NextWorkingDayStartByWeekday(c, t) ==
  LET days == {d \in Day(t) + 1..Day(t) + 1 + Lookahead : d % Week \in c.weekdays}
  IN Min(days) * DayLength + Opens

\* moveToNextWorkingDayStart; it gives up on a day off after Lookahead days.
NextWorkingDayStart(c, t) ==
  LET days == {d \in Day(t) + 1..Day(t) + 1 + Lookahead : IsWorkingDay(c, d)}
  IN (IF days = {} THEN Day(t) + 1 + Lookahead ELSE Min(days)) * DayLength + Opens

-----------------------------------------------------------------------------
Init ==
  /\ calendar \in Calendars /\ start \in Starts /\ duration \in Durations
  /\ pc = "align"
  /\ current = start /\ remaining = duration /\ attempts = Lookahead

\* Mutant: a docket created in the very minute the day ends is taken as in time.
AlignInclusive ==
  /\ pc = "align" /\ UNCHANGED <<calendar, start, duration, remaining, attempts>>
  /\ pc' = "spend"
  /\ current' = IF IsWorkingDay(calendar, Day(current)) /\ current <= BusinessEnd(current)
                THEN current ELSE NextWorkingDayStart(calendar, current)

\* Passes of spending: as many as the minutes may need, and days off.
Passes ==
  LET perDay == (Closes - Opens) \div TicksPerMinute
  IN Lookahead + (remaining + perDay - 1) \div perDay

\* One pass of alignToBusinessTime.
Align ==
  /\ pc = "align" /\ UNCHANGED <<calendar, start, duration, remaining>>
  /\ LET off  == ~IsWorkingDay(calendar, Day(current)) \/ current >= BusinessEnd(current)
     IN \/ /\ attempts > 0 /\ off
           /\ current' = NextWorkingDayStart(calendar, current)
           /\ attempts' = attempts - 1
           /\ UNCHANGED pc
        \/ /\ attempts = 0 \/ ~off
           /\ current' = IF attempts = 0 \/ current < BusinessStart(current)
                         THEN BusinessStart(current) ELSE current
           /\ attempts' = Passes
           /\ pc' = "spend"

\* Mutant: what is left of the day is rounded up to a minute.
AvailableRoundedUp(t) ==
  LET left == BusinessEnd(t) - t + TicksPerMinute - 1
  IN IF left < 0 THEN 0 ELSE left \div TicksPerMinute

\* Whole minutes of the day that are left.
Available(t) == LET left == BusinessEnd(t) - t
                IN IF left < 0 THEN 0 ELSE left \div TicksPerMinute

\* Mutant: every pass spends all the day has left.
SpendWholeDay ==
  /\ pc = "spend" /\ remaining > 0 /\ attempts > 0
  /\ remaining' = remaining - Available(current)
  /\ current' = NextWorkingDayStart(calendar, current)
  /\ attempts' = attempts - 1
  /\ UNCHANGED <<calendar, start, duration, pc>>

\* Mutant: a day with nothing left is passed over without a move.
SpendWithoutMoving ==
  /\ pc = "spend" /\ remaining > 0 /\ attempts > 0 /\ Available(current) > 0
  /\ LET spent == Min({remaining, Available(current)})
         after == current + spent * TicksPerMinute
     IN /\ remaining' = remaining - spent
        /\ current' = IF spent < remaining
                      THEN NextWorkingDayStart(calendar, after) ELSE after
  /\ attempts' = attempts - 1
  /\ UNCHANGED <<calendar, start, duration, pc>>

\* One pass of calculateDueDate: spend what the day has left.
Spend ==
  /\ pc = "spend" /\ remaining > 0 /\ attempts > 0
  /\ LET spent == Min({remaining, Available(current)})
         after == current + spent * TicksPerMinute
     IN /\ remaining' = remaining - spent
        /\ current' = IF spent < remaining
                      THEN NextWorkingDayStart(calendar, after) ELSE after
  /\ attempts' = attempts - 1
  /\ UNCHANGED <<calendar, start, duration, pc>>

Finish ==
  /\ pc = "spend" /\ (remaining = 0 \/ attempts = 0)
  /\ pc' = "done"
  /\ UNCHANGED <<calendar, start, duration, current, remaining, attempts>>

Next == Align \/ Spend \/ Finish

Spec == Init /\ [][Next]_vars /\ WF_vars(Next)

-----------------------------------------------------------------------------
(* Properties.                                                                *)

\* The definition the loops are measured by: business ticks of an interval.
InBusiness(t) == IsWorkingDay(calendar, Day(t)) /\ BusinessStart(t) <= t /\ t < BusinessEnd(t)

BusinessTicks(from, to) == Cardinality({t \in from..to - 1 : InBusiness(t)})

\* Instants, minutes and passes are naturals, and time never runs backwards.
TypeOK ==
  /\ calendar \in Calendars /\ start \in Starts /\ duration \in Durations
  /\ pc \in {"align", "spend", "done"}
  /\ current \in Nat /\ current >= start
  /\ remaining \in 0..duration
  /\ attempts \in Nat

\* No business minute between creation and the instant reached goes uncounted,
\* but for the rest of a minute at the end of the first day.
NothingLost ==
  pc # "align" =>
    BusinessTicks(start, current) - (duration - remaining) * TicksPerMinute
      \in 0..TicksPerMinute - 1

\* The due date ends a business minute - or, for no duration, can begin one -
\* and the whole duration was spent: the cap on the passes never decides.
DueInBusiness ==
  pc = "done" => /\ remaining = 0
                 /\ InBusiness(IF duration = 0 THEN current ELSE current - 1)

\* Every input has a due date.
Terminates == <>(pc = "done")
==============================================================================
