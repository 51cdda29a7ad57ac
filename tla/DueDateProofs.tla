----------------------------- MODULE DueDateProofs -----------------------------
(* The due date of a docket: every business minute is counted, and the last   *)
(* one spent is a business minute, for every calendar, length of day and      *)
(* duration.                                                                  *)
(*                                                                            *)
(* The invariants, as measured by BusinessTicks: while the start is aligned   *)
(* nothing has passed, and while minutes are spent what passed is what was    *)
(* spent, but for a rest of a minute that can be lost once, at the end of the *)
(* first day: from then on every pass begins at opening time, a whole number  *)
(* of minutes before closing time.                                            *)
EXTENDS DueDate, FiniteSetTheorems, WellFoundedInduction, TLAPS

\* The two search loops stop after Lookahead days: a firm whose days off reach
\* further has no next working day, and no due date worth the name.
WorkInReach ==
  \A c \in Calendars, d \in Nat : \E e \in d + 1..d + 1 + Lookahead : IsWorkingDay(c, e)

PerDay == (Closes - Opens) \div TicksPerMinute

\* While the start is aligned nothing has passed, and a search that has begun
\* is at an opening.
AlignInv ==
  pc = "align" => /\ remaining = duration
                  /\ attempts <= Lookahead
                  /\ attempts < Lookahead => current = BusinessStart(current)
                  /\ BusinessTicks(start, current) = 0

TypeInv == TypeOK /\ AlignInv

-----------------------------------------------------------------------------
(* Arithmetic.                                                                *)

LEMMA UnitsTyped ==
  /\ TicksPerMinute \in Nat /\ TicksPerMinute > 0 /\ Lookahead \in Nat /\ Lookahead > 0
  /\ Opens \in Nat /\ Closes \in Nat /\ DayLength \in Nat
  /\ Opens < Closes /\ Closes < DayLength
  BY UnitsAssumption

LEMMA Division ==
  ASSUME NEW a \in Nat, NEW b \in Nat, b > 0
  PROVE  /\ a \div b \in Nat /\ a % b \in 0..b - 1
         /\ a = b * (a \div b) + (a % b)
  OBVIOUS

LEMMA Quotient ==
  ASSUME NEW a \in Nat, NEW b \in Nat, b > 0, NEW q \in Nat, b * q <= a, a < b * (q + 1)
  PROVE  a \div b = q
  <1>1. a \div b \in Nat /\ b * (a \div b) <= a /\ a < b * (a \div b) + b
    BY Division
  <1> DEFINE p == a \div b
  <1>2. p \in Nat /\ b * p <= a /\ a < b * p + b
    BY <1>1
  <1> HIDE DEF p
  <1>3. CASE p < q
    <2>1. b * (p + 1) <= b * q
      BY <1>2, <1>3
    <2> QED
      BY <1>2, <2>1
  <1>4. CASE p > q
    <2>1. b * (q + 1) <= b * p
      BY <1>2, <1>4
    <2> QED
      BY <1>2, <2>1
  <1>5. p = q
    BY <1>2, <1>3, <1>4
  <1> QED
    BY <1>5 DEF p

LEMMA PerDayTyped == PerDay \in Nat /\ PerDay > 0 /\ Closes - Opens = PerDay * TicksPerMinute
  <1> USE UnitsTyped
  <1>1. PICK m \in 0..DayLength, n \in 0..DayLength :
          Opens = TicksPerMinute * m /\ Closes = TicksPerMinute * n
    BY UnitsAssumption
  <1>2. m < n
    <2>1. CASE n <= m
      <3>1. TicksPerMinute * n <= TicksPerMinute * m
        BY <2>1
      <3> QED
        BY <1>1, <3>1
    <2> QED
      BY <2>1
  <1>3. n - m \in Nat /\ Closes - Opens = TicksPerMinute * (n - m)
    BY <1>1, <1>2
  <1>4. PerDay = n - m
    BY <1>3, Quotient DEF PerDay
  <1> QED
    BY <1>2, <1>3, <1>4

\* The least of a nonempty set of naturals.
LEMMA MinIsLeast ==
  ASSUME NEW S \in SUBSET Nat, S # {}
  PROVE  Min(S) \in S /\ \A x \in S : Min(S) <= x
  <1>1. \E x \in S : \A y \in S : ~ (<<y, x>> \in OpToRel(<, Nat))
    BY WFMin, NatLessThanWellFounded
  <1>2. PICK x \in S : \A y \in S : ~ (<<y, x>> \in OpToRel(<, Nat))
    BY <1>1
  <1>3. ASSUME NEW y \in S  PROVE x <= y
    <2>1. ~ (y < x)
      BY <1>2 DEF OpToRel
    <2> QED
      BY <2>1
  <1> QED
    BY <1>3 DEF Min

-----------------------------------------------------------------------------
(* Days.                                                                      *)

LEMMA DayBounds ==
  ASSUME NEW t \in Nat
  PROVE  Day(t) \in Nat /\ Day(t) * DayLength <= t /\ t < Day(t) * DayLength + DayLength
  BY UnitsTyped, Division DEF Day

LEMMA EdgesTyped ==
  ASSUME NEW t \in Nat
  PROVE  BusinessStart(t) \in Nat /\ BusinessEnd(t) \in Nat
  <1> DEFINE d == Day(t)
  <1>1. d \in Nat
    BY DayBounds
  <1>2. BusinessStart(t) = d * DayLength + Opens /\ BusinessEnd(t) = d * DayLength + Closes
    BY DEF BusinessStart, BusinessEnd
  <1> HIDE DEF d
  <1>3. d * DayLength + Opens \in Nat /\ d * DayLength + Closes \in Nat
    BY <1>1, UnitsTyped
  <1> QED
    BY <1>2, <1>3

LEMMA DayIs ==
  ASSUME NEW t \in Nat, NEW d \in Nat, d * DayLength <= t, t < d * DayLength + DayLength
  PROVE  Day(t) = d
  <1>1. DayLength * d <= t /\ t < DayLength * (d + 1)
    BY UnitsTyped
  <1> QED
    BY <1>1, UnitsTyped, Quotient DEF Day

LEMMA DaysInOrder ==
  ASSUME NEW t \in Nat, NEW u \in Nat, t <= u
  PROVE  Day(t) <= Day(u)
  <1> DEFINE d == Day(t)
             e == Day(u)
  <1>1. /\ d \in Nat /\ d * DayLength <= t
        /\ e \in Nat /\ u < e * DayLength + DayLength
    BY DayBounds
  <1> HIDE DEF d, e
  <1>2. ASSUME e < d  PROVE FALSE
    <2>1. (e + 1) * DayLength <= d * DayLength
      BY <1>1, <1>2, UnitsTyped
    <2> QED
      BY <1>1, <2>1, UnitsTyped
  <1>3. d <= e
    BY <1>1, <1>2
  <1> QED
    BY <1>3 DEF d, e

\* The opening of a day, and what its own window is.
LEMMA Opening ==
  ASSUME NEW d \in Nat
  PROVE  LET t == d * DayLength + Opens
         IN /\ t \in Nat /\ Day(t) = d
            /\ BusinessStart(t) = t /\ BusinessEnd(t) = t + PerDay * TicksPerMinute
  <1> DEFINE t == d * DayLength + Opens
  <1>1. t \in Nat /\ d * DayLength <= t /\ t < d * DayLength + DayLength
    BY UnitsTyped
  <1>2. Day(t) = d
    BY <1>1, DayIs
  <1> QED
    BY <1>1, <1>2, PerDayTyped, UnitsTyped DEF BusinessStart, BusinessEnd

-----------------------------------------------------------------------------
(* Business ticks of an interval.                                             *)

\* InBusiness of a given calendar.
Business(c, t) == IsWorkingDay(c, Day(t)) /\ BusinessStart(t) <= t /\ t < BusinessEnd(t)

Ticks(c, from, to) == Cardinality({t \in from..to - 1 : Business(c, t)})

LEMMA TicksMeasured == BusinessTicks(start, current) = Ticks(calendar, start, current)
  BY DEF BusinessTicks, Ticks, InBusiness, Business

LEMMA TicksTyped ==
  ASSUME NEW c, NEW a \in Nat, NEW b \in Nat
  PROVE  Ticks(c, a, b) \in Nat /\ IsFiniteSet({t \in a..b - 1 : Business(c, t)})
  <1>1. IsFiniteSet(a..b - 1)
    BY FS_Interval
  <1>2. IsFiniteSet({t \in a..b - 1 : Business(c, t)})
    BY <1>1, FS_Subset
  <1> QED
    BY <1>2, FS_CardinalityType DEF Ticks

LEMMA TicksAdd ==
  ASSUME NEW c, NEW from \in Nat, NEW via \in Nat, NEW to \in Nat, from <= via, via <= to
  PROVE  Ticks(c, from, to) = Ticks(c, from, via) + Ticks(c, via, to)
  <1> DEFINE A == {t \in from..via - 1 : Business(c, t)}
             B == {t \in via..to - 1 : Business(c, t)}
  <1>1. IsFiniteSet(A) /\ IsFiniteSet(B)
    BY TicksTyped
  <1>2. {t \in from..to - 1 : Business(c, t)} = A \cup B
    <2>1. from..to - 1 = (from..via - 1) \cup (via..to - 1)
      OBVIOUS
    <2> QED
      BY <2>1
  <1>3. A \cap B = {}
    OBVIOUS
  <1>4. Cardinality(A \cup B) = Cardinality(A) + Cardinality(B) - 0
    BY <1>1, <1>3, FS_Union, FS_EmptySet
  <1>5. Cardinality(A) \in Nat /\ Cardinality(B) \in Nat
    BY <1>1, FS_CardinalityType
  <1> QED
    BY <1>2, <1>4, <1>5 DEF Ticks

LEMMA TicksNone ==
  ASSUME NEW c, NEW from \in Nat, NEW to \in Nat,
         \A t \in Nat : from <= t /\ t < to => ~Business(c, t)
  PROVE  Ticks(c, from, to) = 0
  <1>1. {t \in from..to - 1 : Business(c, t)} = {}
    OBVIOUS
  <1> QED
    BY <1>1, FS_EmptySet DEF Ticks

LEMMA TicksAll ==
  ASSUME NEW c, NEW from \in Nat, NEW to \in Nat, from <= to,
         \A t \in Nat : from <= t /\ t < to => Business(c, t)
  PROVE  Ticks(c, from, to) = to - from
  <1>1. {t \in from..to - 1 : Business(c, t)} = from..to - 1
    OBVIOUS
  <1>2. Cardinality(from..to - 1) = IF from > to - 1 THEN 0 ELSE (to - 1) - from + 1
    BY FS_Interval
  <1>3. (IF from > to - 1 THEN 0 ELSE (to - 1) - from + 1) = to - from
    OBVIOUS
  <1>4. Ticks(c, from, to) = Cardinality(from..to - 1)
    BY <1>1 DEF Ticks
  <1> QED
    BY <1>2, <1>3, <1>4

\* The next working day is the first one: no business lies between.
LEMMA NextDay ==
  ASSUME NEW c, NEW t \in Nat
  PROVE  \E n \in Nat : /\ Day(t) < n /\ NextWorkingDayStart(c, t) = n * DayLength + Opens
                        /\ \A d \in Nat : Day(t) < d /\ d < n => ~IsWorkingDay(c, d)
                        /\ WorkInReach /\ c \in Calendars => IsWorkingDay(c, n)
  <1> DEFINE days == {d \in Day(t) + 1..Day(t) + 1 + Lookahead : IsWorkingDay(c, d)}
             n == IF days = {} THEN Day(t) + 1 + Lookahead ELSE Min(days)
  <1>1. Day(t) \in Nat /\ days \in SUBSET Nat
    BY DayBounds, UnitsTyped
  <1>2. NextWorkingDayStart(c, t) = n * DayLength + Opens
    BY DEF NextWorkingDayStart
  <1>3. CASE days = {}
    <2>1. n \in Nat /\ Day(t) < n
      BY <1>1, <1>3, UnitsTyped
    <2>2. \A d \in Nat : Day(t) < d /\ d < n => ~IsWorkingDay(c, d)
      BY <1>1, <1>3, UnitsTyped
    <2>3. ~(WorkInReach /\ c \in Calendars)
      BY <1>1, <1>3 DEF WorkInReach
    <2> QED
      BY <1>2, <2>1, <2>2, <2>3
  <1>4. CASE days # {}
    <2>1. n \in days /\ \A d \in days : n <= d
      BY <1>1, <1>4, MinIsLeast
    <2>2. n \in Nat /\ Day(t) < n /\ IsWorkingDay(c, n) /\ n <= Day(t) + 1 + Lookahead
      BY <1>1, <2>1, UnitsTyped
    <2>3. ASSUME NEW d \in Nat, Day(t) < d, d < n  PROVE ~IsWorkingDay(c, d)
      <3>1. d \in Day(t) + 1..Day(t) + 1 + Lookahead
        BY <1>1, <2>2, <2>3, UnitsTyped
      <3>2. d \notin days
        BY <1>1, <2>1, <2>2, <2>3
      <3> QED
        BY <3>1, <3>2
    <2> QED
      BY <1>2, <2>2, <2>3
  <1> QED
    BY <1>3, <1>4

LEMMA NextIsLater ==
  ASSUME NEW c, NEW t \in Nat
  PROVE  /\ NextWorkingDayStart(c, t) \in Nat /\ t < NextWorkingDayStart(c, t)
         /\ BusinessStart(NextWorkingDayStart(c, t)) = NextWorkingDayStart(c, t)
  <1> DEFINE next == NextWorkingDayStart(c, t)
  <1>1. PICK n \in Nat : Day(t) < n /\ next = n * DayLength + Opens
    BY NextDay
  <1> HIDE DEF next
  <1>2. next \in Nat /\ Day(next) = n /\ BusinessStart(next) = next
    BY <1>1, Opening
  <1>3. t < next
    BY <1>1, <1>2, DaysInOrder, DayBounds
  <1> QED
    BY <1>2, <1>3 DEF next

\* Once the business of a day is over, none passes until the next opening.
LEMMA NextOpening ==
  ASSUME NEW c, NEW t \in Nat, ~IsWorkingDay(c, Day(t)) \/ BusinessEnd(t) <= t
  PROVE  LET next == NextWorkingDayStart(c, t)
         IN /\ next \in Nat /\ t < next /\ Ticks(c, t, next) = 0
            /\ BusinessStart(next) = next
            /\ BusinessEnd(next) = next + PerDay * TicksPerMinute
            /\ WorkInReach /\ c \in Calendars => IsWorkingDay(c, Day(next))
  <1> DEFINE next == NextWorkingDayStart(c, t)
  <1>1. PICK n \in Nat : /\ Day(t) < n /\ next = n * DayLength + Opens
                         /\ \A d \in Nat : Day(t) < d /\ d < n => ~IsWorkingDay(c, d)
                         /\ WorkInReach /\ c \in Calendars => IsWorkingDay(c, n)
    BY NextDay
  <1> HIDE DEF next
  <1>2. /\ next \in Nat /\ Day(next) = n
        /\ BusinessStart(next) = next /\ BusinessEnd(next) = next + PerDay * TicksPerMinute
    BY <1>1, Opening
  <1>3. t < next
    BY NextIsLater DEF next
  <1>4. ASSUME NEW u \in Nat, t <= u, u < next  PROVE ~Business(c, u)
    <2>1. Day(u) \in Nat /\ Day(t) \in Nat /\ Day(t) <= Day(u) /\ Day(u) <= n
      BY <1>2, <1>4, DaysInOrder, DayBounds
    <2>2. CASE Day(u) = Day(t)
      BY <1>4, <2>2, UnitsTyped, DayBounds DEF Business, BusinessEnd
    <2>3. CASE Day(t) < Day(u) /\ Day(u) < n
      BY <1>1, <2>1, <2>3 DEF Business
    <2>4. CASE Day(u) = n
      <3>1. BusinessStart(u) = next
        BY <1>1, <2>4 DEF BusinessStart
      <3> QED
        BY <1>2, <1>4, <3>1 DEF Business
    <2> QED
      BY <2>1, <2>2, <2>3, <2>4
  <1>5. Ticks(c, t, next) = 0
    BY <1>2, <1>4, TicksNone
  <1> QED
    BY <1>1, <1>2, <1>3, <1>5 DEF next

\* Inside the window of a working day, every tick is one of business.
LEMMA WindowTicks ==
  ASSUME NEW c, NEW from \in Nat, NEW to \in Nat, IsWorkingDay(c, Day(from)),
         BusinessStart(from) <= from, from <= to, to <= BusinessEnd(from)
  PROVE  /\ Ticks(c, from, to) = to - from
         /\ Day(to) = Day(from)
         /\ BusinessStart(to) = BusinessStart(from) /\ BusinessEnd(to) = BusinessEnd(from)
  <1> DEFINE d == Day(from)
  <1>1. d \in Nat /\ d * DayLength <= from
    BY DayBounds
  <1>2. \A t \in Nat : from <= t /\ t <= BusinessEnd(from) => Day(t) = d
    <2> TAKE t \in Nat
    <2> HAVE from <= t /\ t <= BusinessEnd(from)
    <2>1. BusinessEnd(from) = d * DayLength + Closes
      BY DEF BusinessEnd
    <2> HIDE DEF d
    <2>2. d * DayLength <= t /\ t < d * DayLength + DayLength
      BY <1>1, <2>1, UnitsTyped
    <2> QED
      BY <1>1, <2>2, DayIs
  <1>3. ASSUME NEW t \in Nat, from <= t, t < to  PROVE Business(c, t)
    <2>1. BusinessEnd(from) \in Nat /\ BusinessStart(from) \in Nat
      BY <1>1, UnitsTyped DEF BusinessEnd, BusinessStart
    <2>2. t < BusinessEnd(from) /\ BusinessStart(from) <= t
      BY <1>3, <2>1
    <2>3. Day(t) = d
      BY <1>2, <2>1, <2>2, <1>3
    <2> QED
      BY <2>2, <2>3 DEF Business, BusinessStart, BusinessEnd
  <1>4. Day(to) = d
    BY <1>2
  <1> QED
    BY <1>3, <1>4, TicksAll DEF BusinessStart, BusinessEnd

\* Before the opening of its day, none is.
LEMMA EarlyTicks ==
  ASSUME NEW c, NEW t \in Nat, t <= BusinessStart(t)
  PROVE  LET open == BusinessStart(t)
         IN /\ open \in Nat /\ Ticks(c, t, open) = 0 /\ Day(open) = Day(t)
            /\ BusinessStart(open) = open
            /\ BusinessEnd(open) = open + PerDay * TicksPerMinute
  <1> DEFINE d == Day(t)
             open == d * DayLength + Opens
  <1>1. d \in Nat /\ d * DayLength <= t
    BY DayBounds
  <1>2. BusinessStart(t) = open
    BY DEF BusinessStart
  <1>3. /\ open \in Nat /\ Day(open) = d
        /\ BusinessStart(open) = open /\ BusinessEnd(open) = open + PerDay * TicksPerMinute
    BY <1>1, Opening
  <1>4. ASSUME NEW u \in Nat, t <= u, u < open  PROVE ~Business(c, u)
    <2>1. Day(u) \in Nat /\ d <= Day(u) /\ Day(u) <= Day(open)
      BY <1>3, <1>4, DaysInOrder, DayBounds
    <2>2. Day(u) = d
      BY <1>1, <1>3, <2>1
    <2>3. BusinessStart(u) = open
      BY <2>2 DEF BusinessStart
    <2> QED
      BY <1>3, <1>4, <2>3 DEF Business
  <1>5. Ticks(c, t, open) = 0
    BY <1>3, <1>4, TicksNone
  <1> QED
    BY <1>2, <1>3, <1>5

-----------------------------------------------------------------------------
(* Types, and the alignment.                                                  *)

LEMMA AvailableTyped ==
  ASSUME NEW t \in Nat
  PROVE  Available(t) \in Nat
  <1>1. BusinessEnd(t) \in Nat
    BY EdgesTyped
  <1> QED
    BY <1>1, UnitsTyped, Division DEF Available

LEMMA SpentIs ==
  ASSUME NEW a \in Nat, NEW b \in Nat
  PROVE  Min({a, b}) = IF a <= b THEN a ELSE b
  <1>1. Min({a, b}) \in {a, b} /\ Min({a, b}) <= a /\ Min({a, b}) <= b
    BY MinIsLeast
  <1> QED
    BY <1>1

\* Passes: enough of them for the minutes, and one more.
LEMMA PassesEnough ==
  ASSUME remaining \in Nat
  PROVE  Passes \in Nat /\ remaining <= (Passes - 1) * PerDay
  <1> DEFINE p == PerDay
             q == (remaining + p - 1) \div p
  <1>1. p \in Nat /\ p > 0
    BY PerDayTyped
  <1>2. Passes = Lookahead + q
    BY DEF Passes, PerDay
  <1> HIDE DEF p
  <1>3. remaining + p - 1 \in Nat
    BY <1>1
  <1>4. q \in Nat /\ (remaining + p - 1) < p * q + p
    BY <1>1, <1>3, Division
  <1> HIDE DEF q
  <1>5. remaining <= q * p
    BY <1>1, <1>4
  <1>6. q * p <= (Passes - 1) * p
    BY <1>1, <1>2, <1>4, UnitsTyped
  <1>7. Passes \in Nat
    BY <1>2, <1>4, UnitsTyped
  <1>8. remaining <= (Passes - 1) * p
    <2>1. q * p \in Nat /\ (Passes - 1) * p \in Int
      BY <1>1, <1>4, <1>7
    <2> QED
      BY <1>5, <1>6, <2>1
  <1> QED
    BY <1>7, <1>8 DEF p

LEMMA InitTyped == Init => TypeInv
  <1> SUFFICES ASSUME Init  PROVE TypeInv
    OBVIOUS
  <1>1. start \in Nat /\ duration \in Nat
    BY InputsAssumption DEF Init
  <1>2. TypeOK
    BY <1>1, UnitsTyped DEF Init, TypeOK
  <1>3. BusinessTicks(start, current) = 0
    BY <1>1, TicksMeasured, TicksNone DEF Init
  <1> QED
    BY <1>2, <1>3, UnitsTyped DEF TypeInv, AlignInv, Init

LEMMA StepTyped == TypeInv /\ [Next]_vars => TypeInv'
  <1> SUFFICES ASSUME TypeInv, [Next]_vars  PROVE TypeInv'
    OBVIOUS
  <1>1. /\ start \in Nat /\ duration \in Nat /\ current \in Nat /\ remaining \in Nat
        /\ attempts \in Nat /\ start <= current /\ TypeOK /\ AlignInv
    BY InputsAssumption DEF TypeInv, TypeOK
  <1>2. CASE Align
    <2> DEFINE next == NextWorkingDayStart(calendar, current)
    <2>1. CASE /\ attempts > 0
               /\ ~IsWorkingDay(calendar, Day(current)) \/ current >= BusinessEnd(current)
               /\ current' = next /\ attempts' = attempts - 1 /\ UNCHANGED pc
      <3>1. BusinessEnd(current) \in Nat
        BY <1>1, EdgesTyped
      <3>2. /\ next \in Nat /\ current < next /\ Ticks(calendar, current, next) = 0
            /\ BusinessStart(next) = next
        BY <1>1, <2>1, <3>1, NextOpening
      <3> HIDE DEF next
      <3>3. TypeOK'
        BY <1>1, <1>2, <2>1, <3>2 DEF Align, TypeOK
      <3>4. Ticks(calendar, start, next) = 0
        BY <1>1, <1>2, <3>2, TicksAdd, TicksMeasured DEF Align, AlignInv
      <3>5. BusinessTicks(start, current)' = 0
        BY <1>2, <2>1, <3>4 DEF Align, BusinessTicks, Ticks, InBusiness, Business
      <3>6. AlignInv'
        <4>1. BusinessStart(current)' = BusinessStart(current')
          BY DEF BusinessStart, Day
        <4>2. current' = BusinessStart(current)'
          BY <2>1, <3>2, <4>1
        <4>3. remaining' = duration' /\ attempts' <= Lookahead
          BY <1>1, <1>2, <2>1, UnitsTyped DEF Align, AlignInv
        <4> QED
          BY <3>5, <4>2, <4>3 DEF AlignInv
      <3> QED
        BY <3>3, <3>6 DEF TypeInv
    <2>2. CASE /\ pc' = "spend" /\ attempts' = Passes
               /\ current' = IF attempts = 0 \/ current < BusinessStart(current)
                             THEN BusinessStart(current) ELSE current
      <3>1. BusinessStart(current) \in Nat
        BY <1>1, EdgesTyped
      <3>2. attempts = 0 => current = BusinessStart(current)
        BY <1>1, <1>2, UnitsTyped DEF Align, AlignInv
      <3>3. current' \in Nat /\ current <= current'
        BY <1>1, <2>2, <3>1, <3>2
      <3>4. Passes \in Nat
        BY <1>1, PassesEnough
      <3>5. TypeOK'
        BY <1>1, <1>2, <2>2, <3>3, <3>4 DEF Align, TypeOK
      <3> QED
        BY <2>2, <3>5 DEF TypeInv, AlignInv
    <2> QED
      BY <1>2, <2>1, <2>2 DEF Align
  <1>3. CASE Spend
    <2> DEFINE spent == Min({remaining, Available(current)})
               after == current + spent * TicksPerMinute
    <2>1. spent \in Nat /\ spent <= remaining
      BY <1>1, AvailableTyped, SpentIs
    <2>2. /\ remaining' = remaining - spent
          /\ current' = IF spent < remaining
                        THEN NextWorkingDayStart(calendar, after) ELSE after
          /\ attempts > 0 /\ attempts' = attempts - 1 /\ pc' = "spend"
          /\ UNCHANGED <<calendar, start, duration>>
      BY <1>3 DEF Spend
    <2> HIDE DEF spent
    <2>3. after \in Nat /\ current <= after
      BY <1>1, <2>1, UnitsTyped
    <2> HIDE DEF after
    <2>4. current' \in Nat /\ current <= current'
      BY <1>1, <2>2, <2>3, NextIsLater
    <2>5. TypeOK'
      BY <1>1, <2>1, <2>2, <2>4 DEF TypeOK
    <2> QED
      BY <2>2, <2>5 DEF TypeInv, AlignInv
  <1>4. CASE Finish
    BY <1>1, <1>4 DEF Finish, TypeInv, TypeOK, AlignInv
  <1>5. CASE UNCHANGED vars
    BY <1>1, <1>5 DEF vars, TypeInv, TypeOK, AlignInv, BusinessStart, Day, BusinessTicks,
                      InBusiness, IsWorkingDay, BusinessEnd
  <1> QED
    BY <1>2, <1>3, <1>4, <1>5 DEF Next

\* Time never runs backwards: the due date of a docket is never before its
\* creation, and the minutes still to spend are never negative.
THEOREM DueTypeCorrect == Spec => []TypeOK
  <1>1. Spec => []TypeInv
    BY InitTyped, StepTyped, PTL DEF Spec
  <1> QED
    BY <1>1, PTL DEF TypeInv

-----------------------------------------------------------------------------
(* What passed and what was spent, for a calendar that has working days in    *)
(* reach.                                                                     *)

\* Business ticks from from to at that no minute of used accounts for.
Lost(c, from, at, used) == Ticks(c, from, at) - used * TicksPerMinute

\* The instant at reached with rem minutes of dur left.
OnTime(c, from, dur, at, rem) ==
  /\ IsWorkingDay(c, Day(at)) /\ BusinessStart(at) <= at /\ at <= BusinessEnd(at)
  /\ Lost(c, from, at, dur - rem) \in 0..TicksPerMinute - 1
  /\ rem = dur => at < BusinessEnd(at)
  /\ rem = 0 /\ dur > 0 => BusinessStart(at) < at

\* A rest of a minute is lost at most once, and the passes left suffice: the
\* first pass may find little of its day left, every later one has all of it.
OnTrack(c, from, dur, at, rem, tries) ==
  /\ \/ Lost(c, from, at, dur - rem) = 0
     \/ (BusinessEnd(at) - at) % TicksPerMinute = 0
  /\ rem > 0 => \/ rem <= (tries - 1) * PerDay
                \/ at = BusinessStart(at) /\ rem <= tries * PerDay

\* A search that has begun has found a working day.
FoundInv ==
  pc = "align" /\ attempts < Lookahead => IsWorkingDay(calendar, Day(current))

SpendInv ==
  pc = "spend" => /\ OnTime(calendar, start, duration, current, remaining)
                  /\ OnTrack(calendar, start, duration, current, remaining, attempts)

DoneInv ==
  pc = "done" => /\ OnTime(calendar, start, duration, current, remaining)
                 /\ remaining = 0

DueInv == FoundInv /\ SpendInv /\ DoneInv

LEMMA Multiple ==
  ASSUME NEW k \in Nat
  PROVE  (TicksPerMinute * k) % TicksPerMinute = 0
  <1>1. TicksPerMinute * k \in Nat /\ TicksPerMinute \in Nat /\ TicksPerMinute > 0
    BY UnitsTyped
  <1>2. TicksPerMinute * k < TicksPerMinute * (k + 1)
    BY UnitsTyped
  <1>3. (TicksPerMinute * k) \div TicksPerMinute = k
    BY <1>1, <1>2, Quotient
  <1>4. TicksPerMinute * k = TicksPerMinute * k + ((TicksPerMinute * k) % TicksPerMinute)
        /\ (TicksPerMinute * k) % TicksPerMinute \in Nat
    BY <1>1, <1>3, Division
  <1> QED
    BY <1>1, <1>4

\* The pass that spends the last minutes.
LEMMA LastPass ==
  ASSUME NEW c, NEW from \in Nat, NEW dur \in Nat, NEW at \in Nat, from <= at,
         NEW rem \in 1..dur, NEW tries \in Nat, rem <= Available(at),
         OnTime(c, from, dur, at, rem), OnTrack(c, from, dur, at, rem, tries)
  PROVE  LET after == at + rem * TicksPerMinute
         IN OnTime(c, from, dur, after, 0) /\ OnTrack(c, from, dur, after, 0, tries - 1)
  <1> DEFINE after == at + rem * TicksPerMinute
             left == BusinessEnd(at) - at
             avail == left \div TicksPerMinute
  <1>1. /\ left \in Nat /\ IsWorkingDay(c, Day(at)) /\ BusinessStart(at) <= at
        /\ BusinessStart(at) \in Nat /\ BusinessEnd(at) \in Nat
    BY EdgesTyped DEF OnTime
  <1>2. Available(at) = avail
    BY <1>1 DEF Available
  <1> HIDE DEF left
  <1>3. avail \in Nat /\ rem <= avail /\ left = TicksPerMinute * avail + (left % TicksPerMinute)
        /\ left % TicksPerMinute \in Nat
    BY <1>1, <1>2, UnitsTyped, Division
  <1> HIDE DEF avail
  <1>4. rem * TicksPerMinute <= TicksPerMinute * avail /\ rem * TicksPerMinute \in Nat
        /\ rem * TicksPerMinute > 0
    BY <1>3, UnitsTyped
  <1>5. after \in Nat /\ at < after /\ after <= BusinessEnd(at)
    BY <1>1, <1>3, <1>4, UnitsTyped DEF left
  <1>6. /\ Ticks(c, at, after) = after - at /\ Day(after) = Day(at)
        /\ BusinessStart(after) = BusinessStart(at) /\ BusinessEnd(after) = BusinessEnd(at)
    BY <1>1, <1>5, WindowTicks
  <1>7. Ticks(c, from, after) = Ticks(c, from, at) + (after - at)
    BY <1>5, <1>6, TicksAdd
  <1>8. Lost(c, from, after, dur - 0) = Lost(c, from, at, dur - rem)
    <2>1. (dur - rem) * TicksPerMinute + rem * TicksPerMinute = dur * TicksPerMinute
      BY UnitsTyped
    <2>2. (dur - rem) * TicksPerMinute \in Int /\ dur * TicksPerMinute \in Int
      BY UnitsTyped
    <2>3. Ticks(c, from, at) \in Nat
      BY TicksTyped
    <2> QED
      BY <1>4, <1>7, <2>1, <2>2, <2>3 DEF Lost
  <1>9. OnTime(c, from, dur, after, 0)
    BY <1>1, <1>5, <1>6, <1>8 DEF OnTime
  <1>10. left % TicksPerMinute = 0 => (BusinessEnd(after) - after) % TicksPerMinute = 0
    <2> SUFFICES ASSUME left % TicksPerMinute = 0
                 PROVE  (BusinessEnd(after) - after) % TicksPerMinute = 0
      OBVIOUS
    <2>1. BusinessEnd(after) - after = left - rem * TicksPerMinute
      BY <1>1, <1>4, <1>6 DEF left
    <2>2. left = TicksPerMinute * avail
      BY <1>3, UnitsTyped
    <2>3. TicksPerMinute * avail - rem * TicksPerMinute = TicksPerMinute * (avail - rem)
      BY <1>3, UnitsTyped
    <2>4. avail - rem \in Nat
      BY <1>3
    <2> QED
      BY <2>1, <2>2, <2>3, <2>4, Multiple
  <1>11. OnTrack(c, from, dur, after, 0, tries - 1)
    BY <1>8, <1>10 DEF OnTrack, left
  <1> QED
    BY <1>9, <1>11

\* A pass that spends what the day has left and goes to the next working day.
LEMMA WholeDayPass ==
  ASSUME NEW c \in Calendars, WorkInReach,
         NEW from \in Nat, NEW dur \in Nat, NEW at \in Nat, from <= at,
         NEW rem \in 1..dur, NEW tries \in Nat, Available(at) < rem,
         OnTime(c, from, dur, at, rem), OnTrack(c, from, dur, at, rem, tries)
  PROVE  LET next == NextWorkingDayStart(c, at + Available(at) * TicksPerMinute)
             rest == rem - Available(at)
         IN OnTime(c, from, dur, next, rest) /\ OnTrack(c, from, dur, next, rest, tries - 1)
  <1> DEFINE left == BusinessEnd(at) - at
             avail == left \div TicksPerMinute
             r == left % TicksPerMinute
             end == BusinessEnd(at)
             next == NextWorkingDayStart(c, end)
  <1>1. /\ left \in Nat /\ IsWorkingDay(c, Day(at)) /\ BusinessStart(at) <= at
        /\ BusinessStart(at) \in Nat /\ end \in Nat /\ at <= end
    BY EdgesTyped DEF OnTime
  <1>2. Available(at) = avail
    BY <1>1 DEF Available
  <1>3. /\ avail \in Nat /\ avail < rem /\ left = TicksPerMinute * avail + r
        /\ r \in 0..TicksPerMinute - 1
    <2> HIDE DEF left
    <2> QED
      BY <1>1, <1>2, UnitsTyped, Division
  <1>4. NextWorkingDayStart(c, at + avail * TicksPerMinute) = next
    <2> DEFINE after == at + avail * TicksPerMinute
    <2> HIDE DEF avail, r
    <2>1. avail * TicksPerMinute \in Nat /\ avail * TicksPerMinute <= left
      BY <1>1, <1>3, UnitsTyped
    <2>2. after \in Nat /\ at <= after /\ after <= end
      BY <1>1, <2>1
    <2>3. Day(after) = Day(at) /\ Day(end) = Day(at)
      BY <1>1, <2>2, WindowTicks
    <2> QED
      BY <2>3 DEF NextWorkingDayStart
  <1>5. Ticks(c, at, end) = left /\ BusinessEnd(end) = end
    BY <1>1, WindowTicks
  <1>6. /\ next \in Nat /\ end < next /\ Ticks(c, end, next) = 0
        /\ BusinessStart(next) = next /\ BusinessEnd(next) = next + PerDay * TicksPerMinute
        /\ IsWorkingDay(c, Day(next))
    BY <1>1, <1>5, NextOpening
  <1>7. Ticks(c, from, next) = Ticks(c, from, at) + left
    <2> HIDE DEF left, end, next
    <2>1. Ticks(c, from, next) = Ticks(c, from, end) + Ticks(c, end, next)
      BY <1>1, <1>6, TicksAdd
    <2>2. Ticks(c, from, end) = Ticks(c, from, at) + Ticks(c, at, end)
      BY <1>1, TicksAdd
    <2>3. Ticks(c, from, at) \in Nat
      BY TicksTyped
    <2> QED
      BY <1>1, <1>5, <1>6, <2>1, <2>2, <2>3
  <1> HIDE DEF left, avail, r, end, next
  <1>8. Lost(c, from, next, dur - (rem - avail)) = Lost(c, from, at, dur - rem) + r
    <2>1. (dur - (rem - avail)) * TicksPerMinute
            = (dur - rem) * TicksPerMinute + TicksPerMinute * avail
      BY <1>3, UnitsTyped
    <2>2. (dur - rem) * TicksPerMinute \in Int /\ TicksPerMinute * avail \in Int
      BY <1>3, UnitsTyped
    <2>3. Ticks(c, from, at) \in Nat
      BY TicksTyped
    <2> QED
      BY <1>3, <1>7, <2>1, <2>2, <2>3 DEF Lost
  <1>9. Lost(c, from, next, dur - (rem - avail)) \in 0..TicksPerMinute - 1
    BY <1>3, <1>8, UnitsTyped DEF OnTime, OnTrack, left, r
  <1>10. PerDay * TicksPerMinute \in Nat /\ PerDay * TicksPerMinute > 0
    BY PerDayTyped, UnitsTyped
  <1>11. OnTime(c, from, dur, next, rem - avail)
    BY <1>3, <1>6, <1>9, <1>10 DEF OnTime
  <1>12. (BusinessEnd(next) - next) % TicksPerMinute = 0
    <2>1. BusinessEnd(next) - next = TicksPerMinute * PerDay
      BY <1>6, <1>10, PerDayTyped, UnitsTyped
    <2> QED
      BY <2>1, PerDayTyped, Multiple
  <1>13. rem - avail <= (tries - 1) * PerDay
    <2>1. CASE rem <= (tries - 1) * PerDay
      <3>1. (tries - 1) * PerDay \in Int
        BY PerDayTyped
      <3> QED
        BY <1>3, <2>1, <3>1
    <2>2. CASE at = BusinessStart(at) /\ rem <= tries * PerDay
      <3>1. left = PerDay * TicksPerMinute
        BY <2>2, <1>1, PerDayTyped, UnitsTyped, DayBounds DEF left, BusinessStart, BusinessEnd
      <3>2. TicksPerMinute * PerDay <= left /\ left < TicksPerMinute * (PerDay + 1)
        BY <3>1, <1>1, PerDayTyped, UnitsTyped
      <3>3. avail = PerDay
        BY <1>1, <3>2, PerDayTyped, UnitsTyped, Quotient DEF avail
      <3>4. (tries - 1) * PerDay = tries * PerDay - PerDay /\ tries * PerDay \in Nat
        BY PerDayTyped
      <3> QED
        BY <2>2, <3>3, <3>4, PerDayTyped
    <2> QED
      BY <2>1, <2>2 DEF OnTrack
  <1>14. OnTrack(c, from, dur, next, rem - avail, tries - 1)
    BY <1>6, <1>12, <1>13 DEF OnTrack
  <1> QED
    BY <1>2, <1>4, <1>11, <1>14

\* The instant the alignment ends at: nothing has passed yet.
LEMMA AlignedOnTime ==
  ASSUME NEW c, NEW from \in Nat, NEW dur \in Nat, NEW at \in Nat, from <= at,
         Ticks(c, from, at) = 0, IsWorkingDay(c, Day(at)), at < BusinessEnd(at)
  PROVE  LET to == IF at < BusinessStart(at) THEN BusinessStart(at) ELSE at
         IN OnTime(c, from, dur, to, dur) /\ Lost(c, from, to, dur - dur) = 0
  <1> DEFINE to == IF at < BusinessStart(at) THEN BusinessStart(at) ELSE at
  <1>1. /\ to \in Nat /\ at <= to /\ Ticks(c, at, to) = 0 /\ Day(to) = Day(at)
        /\ BusinessStart(to) <= to /\ to < BusinessEnd(to) /\ BusinessEnd(to) \in Nat
    <2>1. CASE at < BusinessStart(at)
      <3>1. to = BusinessStart(at)
        BY <2>1
      <3> HIDE DEF to
      <3>2. /\ to \in Nat /\ Ticks(c, at, to) = 0 /\ Day(to) = Day(at)
            /\ BusinessStart(to) = to /\ BusinessEnd(to) = to + PerDay * TicksPerMinute
        <4>1. at <= BusinessStart(at)
          BY <2>1, EdgesTyped
        <4> QED
          BY <3>1, <4>1, EarlyTicks
      <3>3. PerDay * TicksPerMinute \in Nat /\ PerDay * TicksPerMinute > 0
        BY PerDayTyped, UnitsTyped
      <3> QED
        BY <2>1, <3>1, <3>2, <3>3
    <2>2. CASE ~(at < BusinessStart(at))
      <3>1. to = at
        BY <2>2
      <3> HIDE DEF to
      <3>2. BusinessStart(at) \in Nat /\ BusinessEnd(at) \in Nat
        BY EdgesTyped
      <3>3. Ticks(c, at, at) = 0
        BY TicksNone
      <3> QED
        BY <2>2, <3>1, <3>2, <3>3
    <2> QED
      BY <2>1, <2>2
  <1> HIDE DEF to
  <1>2. Ticks(c, from, to) = 0
    BY <1>1, TicksAdd
  <1>3. Lost(c, from, to, dur - dur) = 0
    BY <1>2, UnitsTyped DEF Lost
  <1>4. BusinessStart(to) \in Nat
    BY <1>1, EdgesTyped
  <1>5. OnTime(c, from, dur, to, dur)
    BY <1>1, <1>3, <1>4, UnitsTyped DEF OnTime
  <1> QED
    BY <1>3, <1>5 DEF to

LEMMA InitDue == Init => DueInv
  BY UnitsTyped DEF Init, DueInv, FoundInv, SpendInv, DoneInv

LEMMA StepDue ==
  ASSUME WorkInReach, TypeInv, DueInv, [Next]_vars
  PROVE  DueInv'
  <1>1. /\ calendar \in Calendars /\ start \in Nat /\ duration \in Nat /\ current \in Nat
        /\ remaining \in 0..duration /\ attempts \in Nat /\ start <= current
    BY InputsAssumption DEF TypeInv, TypeOK
  <1>2. CASE Align
    <2> DEFINE next == NextWorkingDayStart(calendar, current)
    <2>1. BusinessStart(current) \in Nat /\ BusinessEnd(current) \in Nat
      BY <1>1, EdgesTyped
    <2>2. CASE /\ ~IsWorkingDay(calendar, Day(current)) \/ current >= BusinessEnd(current)
               /\ current' = next /\ UNCHANGED pc
      <3>1. IsWorkingDay(calendar, Day(next))
        BY <1>1, <2>1, <2>2, NextOpening
      <3> HIDE DEF next
      <3>2. FoundInv'
        BY <1>2, <2>2, <3>1 DEF Align, FoundInv, IsWorkingDay, Day
      <3> QED
        BY <1>2, <2>2, <3>2 DEF Align, DueInv, SpendInv, DoneInv
    <2>3. CASE /\ \/ attempts = 0
                  \/ IsWorkingDay(calendar, Day(current)) /\ current < BusinessEnd(current)
               /\ current' = IF attempts = 0 \/ current < BusinessStart(current)
                             THEN BusinessStart(current) ELSE current
               /\ attempts' = Passes /\ pc' = "spend"
      <3>1. /\ remaining = duration /\ Ticks(calendar, start, current) = 0
            /\ attempts = 0 => current = BusinessStart(current)
                               /\ IsWorkingDay(calendar, Day(current))
        BY <1>1, <1>2, UnitsTyped, TicksMeasured
           DEF Align, TypeInv, AlignInv, DueInv, FoundInv
      <3>2. BusinessStart(current) < BusinessEnd(current)
        <4> DEFINE base == Day(current) * DayLength
        <4>1. base \in Nat
          <5> DEFINE d == Day(current)
          <5>1. d \in Nat
            BY <1>1, DayBounds
          <5> HIDE DEF d
          <5>2. d * DayLength \in Nat
            BY <5>1, UnitsTyped
          <5> QED
            BY <5>2 DEF d
        <4>2. BusinessStart(current) = base + Opens /\ BusinessEnd(current) = base + Closes
          BY DEF BusinessStart, BusinessEnd
        <4> HIDE DEF base
        <4> QED
          BY <4>1, <4>2, UnitsTyped
      <3>3. IsWorkingDay(calendar, Day(current)) /\ current < BusinessEnd(current)
        BY <2>3, <3>1, <3>2
      <3>4. current' = IF current < BusinessStart(current) THEN BusinessStart(current) ELSE current
        BY <2>3, <3>1
      <3>5. /\ OnTime(calendar, start, duration, current', duration)
            /\ Lost(calendar, start, current', duration - duration) = 0
        BY <1>1, <3>1, <3>3, <3>4, AlignedOnTime
      <3>6. remaining <= (Passes - 1) * PerDay
        BY <1>1, PassesEnough
      <3>7. OnTrack(calendar, start, duration, current', remaining, attempts')
        BY <2>3, <3>1, <3>5, <3>6 DEF OnTrack
      <3>8. UNCHANGED <<calendar, start, duration, remaining>>
        BY <1>2 DEF Align
      <3> QED
        BY <2>3, <3>1, <3>5, <3>7, <3>8 DEF DueInv, FoundInv, SpendInv, DoneInv
    <2> QED
      BY <1>1, <1>2, <2>1, <2>2, <2>3 DEF Align
  <1>3. CASE Spend
    <2> DEFINE avail == Available(current)
    <2>1. /\ OnTime(calendar, start, duration, current, remaining)
          /\ OnTrack(calendar, start, duration, current, remaining, attempts)
          /\ remaining \in 1..duration
      BY <1>1, <1>3 DEF Spend, DueInv, SpendInv
    <2>2. /\ pc' = "spend" /\ attempts' = attempts - 1
          /\ UNCHANGED <<calendar, start, duration>>
      BY <1>3 DEF Spend
    <2>3. Min({remaining, avail}) = IF remaining <= avail THEN remaining ELSE avail
      BY <1>1, AvailableTyped, SpentIs
    <2>4. avail \in Nat
      BY <1>1, AvailableTyped
    <2>5. CASE remaining <= avail
      <3>1. remaining' = 0 /\ current' = current + remaining * TicksPerMinute
        BY <1>1, <1>3, <2>3, <2>5 DEF Spend
      <3>2. /\ OnTime(calendar, start, duration, current', remaining')
            /\ OnTrack(calendar, start, duration, current', remaining', attempts')
        BY <1>1, <2>1, <2>2, <2>5, <3>1, LastPass
      <3> QED
        BY <2>2, <3>2 DEF DueInv, FoundInv, SpendInv, DoneInv
    <2>6. CASE avail < remaining
      <3>1. /\ remaining' = remaining - avail
            /\ current' = NextWorkingDayStart(calendar, current + avail * TicksPerMinute)
        BY <1>1, <1>3, <2>3, <2>4, <2>6 DEF Spend
      <3>2. /\ OnTime(calendar, start, duration, current', remaining')
            /\ OnTrack(calendar, start, duration, current', remaining', attempts')
        BY <1>1, <2>1, <2>2, <2>6, <3>1, WholeDayPass
      <3> QED
        BY <2>2, <3>2 DEF DueInv, FoundInv, SpendInv, DoneInv
    <2> QED
      BY <1>1, <2>4, <2>5, <2>6
  <1>4. CASE Finish
    <2>1. /\ OnTime(calendar, start, duration, current, remaining)
          /\ OnTrack(calendar, start, duration, current, remaining, attempts)
      BY <1>4 DEF Finish, DueInv, SpendInv
    <2>2. remaining = 0
      <3>1. CASE attempts = 0
        BY <1>1, <2>1, <3>1, PerDayTyped DEF OnTrack
      <3> QED
        BY <1>4, <3>1 DEF Finish
    <2> QED
      BY <1>4, <2>1, <2>2 DEF Finish, DueInv, FoundInv, SpendInv, DoneInv
  <1>5. CASE UNCHANGED vars
    BY <1>5 DEF vars, DueInv, FoundInv, SpendInv, DoneInv, IsWorkingDay, Day
  <1> QED
    BY <1>2, <1>3, <1>4, <1>5 DEF Next

LEMMA AlwaysDue == ASSUME WorkInReach PROVE Spec => [](TypeInv /\ DueInv)
  <1>1. Init => TypeInv /\ DueInv
    BY InitTyped, InitDue
  <1>2. TypeInv /\ DueInv /\ [Next]_vars => (TypeInv /\ DueInv)'
    BY StepTyped, StepDue
  <1> QED
    BY <1>1, <1>2, PTL DEF Spec

\* What the loops have spent is what has passed on the firm's clock: at no time
\* more than the rest of one minute of business goes uncounted.
THEOREM DueNothingLost ==
  ASSUME WorkInReach
  PROVE  Spec => []NothingLost
  <1>1. TypeInv /\ DueInv => NothingLost
    BY TicksMeasured
       DEF TypeInv, TypeOK, DueInv, SpendInv, DoneInv, OnTime, Lost, NothingLost
  <1> QED
    BY <1>1, AlwaysDue, PTL

\* A due date is reached with the whole duration spent, and ends a minute of
\* business: the passes of both loops are enough, however long the duration.
THEOREM DueDateInBusiness ==
  ASSUME WorkInReach
  PROVE  Spec => []DueInBusiness
  <1>1. ASSUME TypeInv, DueInv, pc = "done"
        PROVE  remaining = 0 /\ InBusiness(IF duration = 0 THEN current ELSE current - 1)
    <2>1. /\ current \in Nat /\ duration \in Nat /\ remaining = 0
          /\ OnTime(calendar, start, duration, current, remaining)
          /\ BusinessStart(current) \in Nat /\ BusinessEnd(current) \in Nat
      BY <1>1, InputsAssumption, EdgesTyped DEF TypeInv, TypeOK, DueInv, DoneInv
    <2>2. CASE duration = 0
      BY <2>1, <2>2 DEF OnTime, InBusiness
    <2>3. CASE duration > 0
      <3> DEFINE open == BusinessStart(current)
                 last == current - 1
      <3>1. open < current /\ current <= BusinessEnd(current)
        BY <2>1, <2>3 DEF OnTime
      <3>2. Day(last) = Day(current)
        <4>1. Day(last) <= Day(current) /\ Day(open) <= Day(last) /\ last \in Nat
          BY <2>1, <3>1, DaysInOrder
        <4>2. Day(open) = Day(current) /\ Day(current) \in Nat
          BY <2>1, DayBounds, Opening DEF BusinessStart
        <4>3. Day(last) \in Nat
          BY <4>1, DayBounds
        <4> QED
          BY <4>1, <4>2, <4>3
      <3> QED
        BY <2>1, <2>3, <3>1, <3>2 DEF OnTime, InBusiness, BusinessStart, BusinessEnd
    <2> QED
      BY <2>1, <2>2, <2>3
  <1>2. TypeInv /\ DueInv => DueInBusiness
    BY <1>1 DEF DueInBusiness
  <1> QED
    BY <1>2, AlwaysDue, PTL

-----------------------------------------------------------------------------
(* Which calendars have work in reach.                                        *)

FewHolidays ==
  \A c \in Calendars : /\ IsFiniteSet(c.holidays)
                       /\ (Cardinality(c.holidays) + 1) * Week <= Lookahead + 1

\* A firm that lists too few holidays to take every one of its weekdays away
\* within the lookahead: 52 of them, for 370 days and weeks of seven.
THEOREM FewHolidaysReach == FewHolidays => WorkInReach
  <1> SUFFICES ASSUME FewHolidays, NEW c \in Calendars, NEW d \in Nat,
                      \A e \in d + 1..d + 1 + Lookahead : ~IsWorkingDay(c, e)
               PROVE  FALSE
    BY DEF WorkInReach
  <1> DEFINE n == Cardinality(c.holidays)
  <1>1. /\ IsFiniteSet(c.holidays) /\ (n + 1) * Week <= Lookahead + 1 /\ n \in Nat
        /\ Week \in Nat /\ Week > 0
    BY FS_CardinalityType, UnitsAssumption DEF FewHolidays
  <1>2. PICK w \in 0..Week - 1 : w \in c.weekdays
    BY CalendarsAssumption
  <1>3. \E k \in Nat : d + 1 <= Week * k + w /\ Week * k + w <= d + Week
    <2> DEFINE q == (d + 1) \div Week
               m == (d + 1) % Week
    <2>1. q \in Nat /\ m \in 0..Week - 1 /\ d + 1 = Week * q + m
      BY <1>1, Division
    <2> HIDE DEF q, m
    <2>2. Week * q \in Nat /\ Week * (q + 1) = Week * q + Week
      BY <1>1, <2>1
    <2>3. CASE m <= w
      <3>1. d + 1 <= Week * q + w /\ Week * q + w <= d + Week
        BY <1>1, <1>2, <2>1, <2>2, <2>3
      <3> QED
        BY <2>1, <3>1
    <2>4. CASE w < m
      <3>1. d + 1 <= Week * (q + 1) + w /\ Week * (q + 1) + w <= d + Week
        BY <1>1, <1>2, <2>1, <2>2, <2>4
      <3>2. q + 1 \in Nat
        BY <2>1
      <3> QED
        BY <3>1, <3>2
    <2> QED
      BY <1>2, <2>1, <2>3, <2>4
  <1>4. PICK k \in Nat : d + 1 <= Week * k + w /\ Week * k + w <= d + Week
    BY <1>3
  <1> HIDE DEF n
  <1>5. ASSUME NEW i \in 0..n  PROVE Week * (k + i) + w \in c.holidays
    <2> DEFINE e == Week * (k + i) + w
    <2>1. Week * (k + i) = Week * k + Week * i /\ Week * i \in Nat /\ Week * k \in Nat
      BY <1>1
    <2>2. Week * i + Week <= (n + 1) * Week
      <3>1. i + 1 \in Nat /\ i + 1 <= n + 1
        BY <1>1
      <3>2. (i + 1) * Week <= (n + 1) * Week
        BY <1>1, <3>1
      <3> QED
        BY <1>1, <3>2
    <2>3. (n + 1) * Week \in Nat
      BY <1>1
    <2>4. e \in d + 1..d + 1 + Lookahead
      BY <1>1, <1>2, <1>4, <2>1, <2>2, <2>3, UnitsTyped
    <2>5. e % Week = w
      <3> DEFINE j == k + i
      <3>1. j \in Nat
        OBVIOUS
      <3> HIDE DEF j
      <3>2. Week * j + w \in Nat /\ Week * j <= Week * j + w /\ Week * j + w < Week * (j + 1)
        BY <1>1, <1>2, <3>1
      <3>3. (Week * j + w) \div Week = j
        BY <1>1, <3>1, <3>2, Quotient
      <3>4. Week * j + w = Week * j + ((Week * j + w) % Week) /\ (Week * j + w) % Week \in Nat
        <4> DEFINE a == Week * j + w
        <4>1. a \in Nat /\ a \div Week = j
          BY <3>2, <3>3
        <4> HIDE DEF a
        <4>2. a = Week * j + (a % Week) /\ a % Week \in Nat
          BY <1>1, <4>1, Division
        <4> QED
          BY <4>2 DEF a
      <3>5. Week * j \in Nat
        BY <1>1, <3>1
      <3>6. (Week * j + w) % Week = w
        BY <1>2, <3>4, <3>5
      <3> QED
        BY <3>6 DEF j
    <2> HIDE DEF e
    <2>6. e \in c.holidays
      BY <1>2, <2>4, <2>5 DEF IsWorkingDay
    <2> QED
      BY <2>6 DEF e
  <1> DEFINE f == [i \in 0..n |-> Week * (k + i) + w]
  <1>6. f \in [0..n -> c.holidays]
    BY <1>5
  <1>7. IsFiniteSet(0..n) /\ Cardinality(0..n) = IF 0 > n THEN 0 ELSE n - 0 + 1
    BY <1>1, FS_Interval
  <1>8. Cardinality(c.holidays) < Cardinality(0..n)
    BY <1>1, <1>7 DEF n
  <1> HIDE DEF f
  <1>9. PICK i \in 0..n, j \in 0..n : i # j /\ f[i] = f[j]
    BY <1>1, <1>6, <1>7, <1>8, FS_PigeonHole
  <1>10. Week * (k + i) + w = Week * (k + j) + w
    BY <1>9 DEF f
  <1>11. Week * (k + i) = Week * (k + j)
    BY <1>1, <1>2, <1>10
  <1>12. k + i = k + j
    <2> DEFINE a == k + i
               b == k + j
    <2>1. a \in Nat /\ b \in Nat /\ Week * a = Week * b
      BY <1>11
    <2> HIDE DEF a, b
    <2>2. a = b
      <3>1. ASSUME a < b  PROVE FALSE
        <4>1. Week * (a + 1) <= Week * b
          BY <1>1, <2>1, <3>1
        <4> QED
          BY <1>1, <2>1, <4>1
      <3>2. ASSUME b < a  PROVE FALSE
        <4>1. Week * (b + 1) <= Week * a
          BY <1>1, <2>1, <3>2
        <4> QED
          BY <1>1, <2>1, <4>1
      <3> QED
        BY <2>1, <3>1, <3>2
    <2> QED
      BY <2>2 DEF a, b
  <1> QED
    BY <1>9, <1>12
==============================================================================
