-------------------------- MODULE EmployeesProofs --------------------------
(***************************************************************************)
(* Theorems about the modules of the employees app, for all values of their *)
(* constants: the dates of a recurring rule and its expansion (Recurring), *)
(* the time clock and its pay stubs (TimeClock, Payroll), and shifts, swaps *)
(* and time off (Shifts).                                                  *)
(***************************************************************************)
EXTENDS Shifts, TimeClock, Recurring, Sums, FiniteSetTheorems, TLAPS

(***************************************************************************)
(* The dates of a recurring rule.                                          *)
(***************************************************************************)

\* A number is a multiple and a rest in one way only.
LEMMA Division ==
    ASSUME NEW l \in Nat \ {0}, NEW x \in Int
    PROVE  x = l * (x \div l) + (x % l) /\ x % l \in 0 .. l - 1 /\ x \div l \in Int
OBVIOUS

\* A multiple and a rest less than the divisor are found back by dividing.
LEMMA DivisionUnique ==
    ASSUME NEW l \in Nat \ {0}, NEW q \in Int, NEW r \in 0 .. l - 1
    PROVE  (l * q + r) \div l = q /\ (l * q + r) % l = r
<1> DEFINE x == l * q + r
           p == x \div l
           s == x % l
<1>1. x \in Int
  OBVIOUS
<1>2. x = l * p + s /\ s \in 0 .. l - 1 /\ p \in Int
  BY <1>1, Division
<1> HIDE DEF p, s
<1>3. l * (q - p) = s - r
  BY <1>2
<1>4. ASSUME q - p >= 1 PROVE FALSE
  <2>1. l * (q - p) >= l
    BY <1>2, <1>4
  <2>2. QED
    BY <1>2, <1>3, <2>1
<1>5. ASSUME q - p <= -1 PROVE FALSE
  <2>1. l * (q - p) <= -l
    BY <1>2, <1>5
  <2>2. QED
    BY <1>2, <1>3, <2>1
<1>6. q = p
  BY <1>2, <1>4, <1>5
<1>7. QED
  BY <1>2, <1>6 DEF p, s

\* d is a whole number of steps after the anchor.
StepsAfter(d, anchor, step) == \E n \in Nat : d = anchor + step * n

\* The dates stepped to from a rule's anchor are those a whole number of steps
\* after it, whatever day the stepping starts from.
LEMMA SteppedFrom ==
    ASSUME NEW step \in Nat \ {0}, NEW anchor \in Nat, NEW from \in Nat, NEW to \in Nat,
           NEW d \in Int
    PROVE  d \in SteppedDates(First(anchor, from, step), step, to)
             <=> from <= d /\ d <= to /\ StepsAfter(d, anchor, step)
<1> USE DEF StepsAfter
<1> DEFINE first == First(anchor, from, step)
<1>1. PICK m \in Nat : /\ first = anchor + step * m /\ from <= first
                       /\ \A n \in Nat : anchor + step * n >= from => n >= m
  <2>1. CASE from <= anchor
    <3>1. first = anchor + step * 0
      BY <2>1 DEF First
    <3>2. QED
      BY <2>1, <3>1
  <2>2. CASE ~(from <= anchor)
    <3> DEFINE q == (from - anchor) \div step
               r == (from - anchor) % step
    <3>1. from - anchor = step * q + r /\ r \in 0 .. step - 1 /\ q \in Int
      BY Division
    <3>2. first = IF r = 0 THEN from ELSE from + step - r
      BY <2>2 DEF First
    <3> HIDE DEF q, r, first
    <3>3. q >= 0
      <4>1. ASSUME q <= -1 PROVE FALSE
        <5>1. step * q <= -step
          BY <3>1, <4>1
        <5>2. QED
          BY <2>2, <3>1, <5>1
      <4>2. QED
        BY <3>1, <4>1
    <3>4. CASE r = 0
      <4>1. first = anchor + step * q /\ from <= first
        BY <3>1, <3>2, <3>4
      <4>2. ASSUME NEW n \in Nat, anchor + step * n >= from
            PROVE  n >= q
        <5>1. step * n >= step * q
          BY <3>1, <3>4, <4>2
        <5>2. QED
          BY <3>1, <5>1
      <4>3. QED
        BY <3>1, <3>3, <4>1, <4>2
    <3>5. CASE r # 0
      <4>1. step * (q + 1) = step * q + step
        BY <3>1
      <4>2. first = anchor + step * (q + 1) /\ from <= first
        BY <3>1, <3>2, <3>5, <4>1
      <4>3. ASSUME NEW n \in Nat, anchor + step * n >= from
            PROVE  n >= q + 1
        <5>1. step * n > step * q
          BY <3>1, <3>5, <4>3
        <5>2. QED
          BY <3>1, <5>1
      <4>4. q + 1 \in Nat
        BY <3>1, <3>3
      <4>5. QED
        BY <4>2, <4>3, <4>4
    <3>6. QED
      BY <3>4, <3>5
  <2>3. QED
    BY <2>1, <2>2
<1> HIDE DEF first
<1>2. first \in Nat
  BY <1>1
<1> DEFINE c == (to - first) \div step
<1>3. \A n \in Nat : n <= c <=> first + n * step <= to
  <2> DEFINE r == (to - first) % step
  <2>1. to - first = step * c + r /\ r \in 0 .. step - 1 /\ c \in Int
    BY <1>2, Division
  <2> HIDE DEF c, r
  <2> SUFFICES ASSUME NEW n \in Nat
               PROVE  n <= c <=> first + n * step <= to
    OBVIOUS
  <2>2. n * step = step * n
    OBVIOUS
  <2>3. n <= c => step * n <= step * c
    BY <2>1
  <2>4. ASSUME n >= c + 1
        PROVE  step * n >= step * c + step
    <3>1. step * n >= step * (c + 1)
      BY <2>1, <2>4
    <3>2. QED
      BY <2>1, <3>1
  <2>5. QED
    BY <1>2, <2>1, <2>2, <2>3, <2>4
<1>4. c \in Int
  BY <1>2
<1> HIDE DEF c
<1>5. SteppedDates(first, step, to) = {first + n * step : n \in 0 .. c}
  BY DEF SteppedDates, c
<1>6. ASSUME d \in SteppedDates(first, step, to)
      PROVE  from <= d /\ d <= to /\ \E n \in Nat : d = anchor + step * n
  <2>1. PICK n \in 0 .. c : d = first + n * step
    BY <1>5, <1>6
  <2>2. n \in Nat /\ first + n * step <= to /\ n * step >= 0
    BY <1>3, <1>4, <2>1
  <2>3. m + n \in Nat /\ d = anchor + step * (m + n)
    BY <1>1, <2>1, <2>2
  <2>4. QED
    BY <1>1, <1>2, <2>1, <2>2, <2>3
<1>7. ASSUME from <= d, d <= to, NEW n \in Nat, d = anchor + step * n
      PROVE  d \in SteppedDates(first, step, to)
  <2>1. n - m \in Nat
    BY <1>1, <1>7
  <2>2. d = first + (n - m) * step
    BY <1>1, <1>7, <2>1
  <2> DEFINE k == n - m
  <2> HIDE DEF k
  <2>3. k \in Nat /\ first + k * step <= to
    BY <1>7, <2>1, <2>2 DEF k
  <2>4. k \in 0 .. c
    BY <1>3, <1>4, <2>3
  <2>5. QED
    BY <1>5, <2>2, <2>4 DEF k
<1>8. QED
  BY <1>6, <1>7 DEF first

\* The first day with a rule's weekday is less than a week after its start.
LEMMA Anchored ==
    ASSUME NEW start \in Nat, NEW weekday \in 0 .. WeekLength - 1
    PROVE  LET anchor == NextWeekdayOnOrAfter(start, weekday)
           IN /\ anchor \in Nat /\ anchor - start \in 0 .. WeekLength - 1
              /\ \E q \in Int : anchor = WeekLength * q + weekday
<1> DEFINE l == WeekLength
           e == (weekday - Weekday(start)) % l
           p == (weekday - Weekday(start)) \div l
           q == start \div l
           r == start % l
<1>1. l \in Nat \ {0}
  BY DatesAssumption
<1>2. start = l * q + r /\ r \in 0 .. l - 1 /\ q \in Int /\ r = Weekday(start)
  BY <1>1, Division DEF Weekday
<1>3. weekday - r = l * p + e /\ e \in 0 .. l - 1 /\ p \in Int
  <2> DEFINE x == weekday - Weekday(start)
  <2>1. x \in Int /\ x = weekday - r
    BY <1>1, <1>2
  <2>2. x = l * (x \div l) + (x % l) /\ x % l \in 0 .. l - 1 /\ x \div l \in Int
    <3> HIDE DEF x
    <3>1. QED
      BY <1>1, <2>1, Division
  <2>3. QED
    BY <2>1, <2>2
<1>4. NextWeekdayOnOrAfter(start, weekday) = start + e
  BY DEF NextWeekdayOnOrAfter
<1> HIDE DEF l, e, p, q, r
<1>5. l * (q - p) = l * q - l * p
  BY <1>1, <1>2, <1>3
<1>6. start + e = l * (q - p) + weekday /\ q - p \in Int
  <2> DEFINE a == l * q
             b == l * p
  <2>1. a \in Int /\ b \in Int
    BY <1>1, <1>2, <1>3
  <2>2. /\ start = a + r /\ weekday - r = b + e /\ l * (q - p) = a - b
        /\ r \in Int /\ e \in Int /\ weekday \in Int
    BY <1>1, <1>2, <1>3, <1>5
  <2> HIDE DEF a, b
  <2>3. start + e = (a - b) + weekday
    BY <2>1, <2>2
  <2>4. QED
    BY <1>2, <1>3, <2>2, <2>3
<1>7. start + e \in Nat /\ (start + e) - start \in 0 .. l - 1
  BY <1>1, <1>3
<1>8. QED
  BY <1>4, <1>6, <1>7 DEF l

\* Weekly and biweekly rules are due a whole number of steps after the anchor.
LEMMA DueInSteps ==
    ASSUME NEW rule \in Rule, rule.recurrence # "monthly", NEW d \in Nat, rule.start <= d
    PROVE  LET step == IF rule.recurrence = "weekly" THEN WeekLength ELSE 2 * WeekLength
               anchor == NextWeekdayOnOrAfter(rule.start, rule.weekday)
           IN StepsAfter(d, anchor, step)
                <=> /\ Weekday(d) = rule.weekday
                    /\ rule.recurrence = "biweekly" =>
                         ((d - rule.start) \div WeekLength) % 2 = 0
<1> USE DEF StepsAfter
<1> DEFINE l == WeekLength
           anchor == NextWeekdayOnOrAfter(rule.start, rule.weekday)
           e == anchor - rule.start
           step == IF rule.recurrence = "weekly" THEN l ELSE 2 * l
<1>1. /\ l \in Nat \ {0} /\ rule.start \in Nat /\ rule.weekday \in 0 .. l - 1
      /\ rule.recurrence \in {"weekly", "biweekly"}
  BY DatesAssumption DEF Rule
<1>2. anchor \in Nat /\ e \in 0 .. l - 1 /\ \E q \in Int : anchor = l * q + rule.weekday
  BY <1>1, Anchored
<1>3. PICK q \in Int : anchor = l * q + rule.weekday
  BY <1>2
<1>4. anchor = rule.start + e
  BY <1>1, <1>2
<1> HIDE DEF l, anchor, e
<1>5. ASSUME NEW j \in Int, d = anchor + l * j
      PROVE  /\ j \in Nat /\ Weekday(d) = rule.weekday
             /\ (d - rule.start) \div l = j
  <2>1. d = l * (q + j) + rule.weekday /\ q + j \in Int
    BY <1>1, <1>3, <1>5
  <2>2. Weekday(d) = rule.weekday
    BY <1>1, <2>1, DivisionUnique DEF Weekday, l
  <2>3. d - rule.start = l * j + e
    BY <1>1, <1>2, <1>4, <1>5
  <2>4. (d - rule.start) \div l = j
    BY <1>1, <1>2, <2>3, DivisionUnique
  <2>5. ASSUME j <= -1 PROVE FALSE
    <3>1. l * j <= -l
      BY <1>1, <2>5
    <3>2. QED
      BY <1>1, <1>2, <2>3, <3>1
  <2>6. QED
    BY <2>2, <2>4, <2>5
<1>6. ASSUME Weekday(d) = rule.weekday
      PROVE  \E j \in Int : d = anchor + l * j
  <2>1. d = l * (d \div l) + rule.weekday /\ d \div l \in Int
    BY <1>1, <1>6, Division DEF Weekday, l
  <2> DEFINE p == d \div l
  <2> HIDE DEF p
  <2>2. d = l * p + rule.weekday /\ p \in Int
    BY <2>1 DEF p
  <2>3. d = anchor + l * (p - q) /\ p - q \in Int
    BY <1>1, <1>3, <2>2
  <2>4. QED
    BY <2>3
<1>7. CASE rule.recurrence = "weekly"
  <2>1. step = l
    BY <1>7
  <2>2. (\E n \in Nat : d = anchor + l * n) <=> Weekday(d) = rule.weekday
    BY <1>5, <1>6
  <2>3. QED
    BY <1>7, <2>1, <2>2 DEF anchor, l
<1>8. CASE rule.recurrence = "biweekly"
  <2>1. step = 2 * l
    BY <1>8
  <2>2. ASSUME NEW n \in Nat, d = anchor + step * n
        PROVE  Weekday(d) = rule.weekday /\ ((d - rule.start) \div l) % 2 = 0
    <3>1. d = anchor + l * (2 * n) /\ 2 * n \in Int
      BY <1>1, <1>2, <2>1, <2>2
    <3>2. Weekday(d) = rule.weekday /\ (d - rule.start) \div l = 2 * n
      BY <1>5, <3>1
    <3>3. (2 * n) % 2 = 0
      OBVIOUS
    <3>4. QED
      BY <3>2, <3>3
  <2>3. ASSUME Weekday(d) = rule.weekday, ((d - rule.start) \div l) % 2 = 0
        PROVE  \E n \in Nat : d = anchor + step * n
    <3>1. PICK j \in Int : d = anchor + l * j
      BY <1>6, <2>3
    <3>2. j \in Nat /\ j % 2 = 0
      BY <1>5, <2>3, <3>1
    <3>3. PICK n \in Nat : j = 2 * n
      <4>1. j \div 2 \in Nat /\ j = 2 * (j \div 2)
        BY <3>2
      <4>2. QED
        BY <4>1
    <3>4. d = anchor + step * n
      BY <1>1, <1>2, <2>1, <3>1, <3>3
    <3>5. QED
      BY <3>4
  <2>4. QED
    BY <1>8, <2>2, <2>3 DEF anchor, l
<1>9. QED
  BY <1>1, <1>7, <1>8

\* Months start one after the other, and every day of the calendar is in one.
LEMMA MonthsInOrder ==
    \A j, k \in 1 .. Len(MonthStarts) :
      /\ MonthStarts[j] \in Nat
      /\ j <= k => MonthStarts[j] <= MonthStarts[k]
<1> DEFINE Last == Len(MonthStarts)
           T == {n \in Nat : \A j \in 1 .. Last :
                               j + n <= Last => MonthStarts[j] <= MonthStarts[j + n]}
<1>1. Last \in Nat /\ \A j \in 1 .. Last : MonthStarts[j] \in Nat
  BY DatesAssumption
<1>2. \A j \in 1 .. Last - 1 : MonthStarts[j] < MonthStarts[j + 1]
  BY DatesAssumption
<1> HIDE DEF Last
<1>3. 0 \in T
  BY <1>1
<1>4. ASSUME NEW n \in Nat, n \in T
      PROVE  n + 1 \in T
  <2> SUFFICES ASSUME NEW j \in 1 .. Last, j + (n + 1) <= Last
               PROVE  MonthStarts[j] <= MonthStarts[j + (n + 1)]
    OBVIOUS
  <2>1. MonthStarts[j] <= MonthStarts[j + n]
    BY <1>1, <1>4
  <2>2. j + n \in 1 .. Last - 1 /\ (j + n) + 1 = j + (n + 1)
    BY <1>1
  <2>3. MonthStarts[j + n] < MonthStarts[j + (n + 1)]
    BY <1>2, <2>2
  <2>4. /\ MonthStarts[j] \in Nat /\ MonthStarts[j + n] \in Nat
        /\ MonthStarts[j + (n + 1)] \in Nat
    BY <1>1, <2>2
  <2>5. QED
    BY <2>1, <2>3, <2>4
<1>5. ASSUME NEW j \in 1 .. Last, NEW k \in 1 .. Last, j <= k
      PROVE  MonthStarts[j] <= MonthStarts[k]
  <2>1. k - j \in Nat /\ j + (k - j) = k
    BY <1>1, <1>5
  <2>2. k - j \in T
    <3> HIDE DEF T
    <3>1. QED
      BY <1>3, <1>4, <2>1, AllNumbers
  <2>3. QED
    BY <1>1, <2>1, <2>2
<1>6. QED
  BY <1>1, <1>5 DEF Last

\* Every day of the calendar lies in some month.
LEMMA InOneMonth ==
    ASSUME NEW d \in Nat, d < MonthStarts[Len(MonthStarts)]
    PROVE  \E k \in Months : MonthStarts[k] <= d /\ d < MonthStarts[k + 1]
<1> DEFINE Last == Len(MonthStarts)
           T == {n \in Nat : n + 1 <= Last /\ d < MonthStarts[n + 1] =>
                               \E k \in 1 .. n : MonthStarts[k] <= d /\ d < MonthStarts[k + 1]}
<1>1. Last \in Nat /\ Last > 1 /\ MonthStarts[1] = 0
      /\ \A j \in 1 .. Last : MonthStarts[j] \in Nat
  BY DatesAssumption
<1> HIDE DEF Last
<1>2. 0 \in T
  BY <1>1
<1>3. ASSUME NEW n \in Nat, n \in T
      PROVE  n + 1 \in T
  <2> SUFFICES ASSUME (n + 1) + 1 <= Last, d < MonthStarts[(n + 1) + 1]
               PROVE  \E k \in 1 .. n + 1 : MonthStarts[k] <= d /\ d < MonthStarts[k + 1]
    OBVIOUS
  <2>1. n + 1 <= Last /\ MonthStarts[n + 1] \in Nat
    BY <1>1
  <2>2. CASE d < MonthStarts[n + 1]
    <3>1. PICK k \in 1 .. n : MonthStarts[k] <= d /\ d < MonthStarts[k + 1]
      BY <1>3, <2>1, <2>2
    <3>2. k \in 1 .. n + 1
      OBVIOUS
    <3>3. QED
      BY <3>1, <3>2
  <2>3. CASE ~(d < MonthStarts[n + 1])
    <3>1. n + 1 \in 1 .. n + 1 /\ MonthStarts[n + 1] <= d
      BY <2>1, <2>3
    <3>2. QED
      BY <3>1
  <2>4. QED
    BY <2>2, <2>3
<1>4. Last - 1 \in T /\ Last - 1 \in Nat
  <2> HIDE DEF T
  <2>1. Last - 1 \in Nat
    BY <1>1
  <2>2. QED
    BY <1>2, <1>3, <2>1, AllNumbers
<1>5. (Last - 1) + 1 = Last
  BY <1>1
<1>6. \E k \in 1 .. Last - 1 : MonthStarts[k] <= d /\ d < MonthStarts[k + 1]
  BY <1>1, <1>4, <1>5 DEF Last
<1>7. QED
  BY <1>6 DEF Months, Last

\* The month of a day, and only it, holds the day; later days are not in
\* earlier months.
LEMMA TheMonth ==
    ASSUME NEW d \in Nat, d < MonthStarts[Len(MonthStarts)]
    PROVE  /\ MonthOf(d) \in Months
           /\ MonthStarts[MonthOf(d)] <= d /\ d < MonthStarts[MonthOf(d) + 1]
BY InOneMonth DEF MonthOf

\* A later day is in no earlier month.
LEMMA MonthsOfDays ==
    ASSUME NEW d \in Nat, NEW e \in Nat, d <= e,
           NEW j \in Months, MonthStarts[j] <= d, d < MonthStarts[j + 1],
           NEW k \in Months, MonthStarts[k] <= e, e < MonthStarts[k + 1]
    PROVE  j <= k
<1>1. Len(MonthStarts) \in Nat
  BY DatesAssumption
<1>2. j \in 1 .. Len(MonthStarts) /\ k + 1 \in 1 .. Len(MonthStarts) /\ j \in Int /\ k \in Int
  BY <1>1 DEF Months
<1>3. ASSUME k + 1 <= j PROVE FALSE
  <2>1. /\ MonthStarts[k + 1] <= MonthStarts[j]
        /\ MonthStarts[k + 1] \in Nat /\ MonthStarts[j] \in Nat
    BY <1>2, <1>3, MonthsInOrder
  <2>2. QED
    BY <2>1
<1>4. QED
  BY <1>2, <1>3

\* The dates of a monthly rule are the days with its day of the month.
LEMMA MonthlyIsDue ==
    ASSUME NEW start \in Nat, NEW from \in Nat, NEW to \in Nat, start <= from,
           to < MonthStarts[Len(MonthStarts)], NEW d \in from .. to
    PROVE  d \in MonthlyDates(DayOfMonth(start), from, to)
             <=> DayOfMonth(d) = DayOfMonth(start)
<1> DEFINE day == DayOfMonth(start)
           k0 == MonthOf(d)
           j0 == MonthOf(from)
           l0 == MonthOf(to)
<1>0. /\ Len(MonthStarts) \in Nat /\ Len(MonthStarts) > 1
      /\ MonthStarts[Len(MonthStarts)] \in Nat
  BY DatesAssumption
<1>1. /\ d \in Nat /\ start < MonthStarts[Len(MonthStarts)]
      /\ d < MonthStarts[Len(MonthStarts)] /\ from < MonthStarts[Len(MonthStarts)]
      /\ from <= d /\ d <= to
  BY <1>0
<1>2. /\ k0 \in Months /\ MonthStarts[k0] <= d /\ d < MonthStarts[k0 + 1]
      /\ j0 \in Months /\ MonthStarts[j0] <= from /\ from < MonthStarts[j0 + 1]
      /\ l0 \in Months /\ MonthStarts[l0] <= to /\ to < MonthStarts[l0 + 1]
  BY <1>1, TheMonth
<1>3. j0 <= k0 /\ k0 <= l0 /\ j0 \in Int /\ k0 \in Int /\ l0 \in Int
  <2> HIDE DEF k0, j0, l0
  <2>1. j0 <= k0 /\ k0 <= l0
    BY <1>1, <1>2, MonthsOfDays
  <2>2. QED
    BY <1>2, <2>1 DEF Months
<1>4. \A k \in Months : MonthStarts[k] \in Nat /\ MonthStarts[k + 1] \in Nat
  BY <1>0, DatesAssumption DEF Months
<1>5. day \in Nat /\ day >= 1
  <2>1. /\ MonthOf(start) \in Months /\ MonthStarts[MonthOf(start)] <= start
    BY <1>1, TheMonth
  <2>2. QED
    BY <1>4, <2>1 DEF DayOfMonth
<1>6. DayOfMonth(d) = d - MonthStarts[k0] + 1
  BY DEF DayOfMonth
<1>7. d \in MonthlyDates(day, from, to)
        <=> \E k \in j0 .. l0 : HasDay(k, day) /\ d = MonthStarts[k] + day - 1
  BY DEF MonthlyDates
<1>8. \A k \in j0 .. l0 : k \in Months
  <2> HIDE DEF j0, l0
  <2>1. QED
    BY <1>0, <1>2, <1>3 DEF Months
<1> HIDE DEF day, k0, j0, l0
<1>9. ASSUME NEW k \in j0 .. l0, HasDay(k, day), d = MonthStarts[k] + day - 1
      PROVE  DayOfMonth(d) = day
  <2>1. k \in Months /\ MonthStarts[k] \in Nat /\ MonthStarts[k + 1] \in Nat
    BY <1>4, <1>8
  <2>2. MonthStarts[k] <= d /\ d < MonthStarts[k + 1]
    BY <1>5, <1>9, <2>1 DEF HasDay
  <2>3. k = k0
    <3>1. d <= d
      BY <1>1
    <3>2. k <= k0
      BY <1>1, <1>2, <2>1, <2>2, <3>1, MonthsOfDays
    <3>3. k0 <= k
      BY <1>1, <1>2, <2>1, <2>2, <3>1, MonthsOfDays
    <3>4. k \in Int
      BY <1>3
    <3>5. QED
      BY <1>3, <3>2, <3>3, <3>4
  <2>4. QED
    BY <1>1, <1>5, <1>6, <1>9, <2>1, <2>3
<1>10. ASSUME DayOfMonth(d) = day
       PROVE  \E k \in j0 .. l0 : HasDay(k, day) /\ d = MonthStarts[k] + day - 1
  <2>1. HasDay(k0, day) /\ d = MonthStarts[k0] + day - 1
    <3>1. /\ MonthStarts[k0] \in Nat /\ MonthStarts[k0 + 1] \in Nat
          /\ MonthStarts[k0] <= d /\ d < MonthStarts[k0 + 1] /\ day = d - MonthStarts[k0] + 1
      BY <1>2, <1>4, <1>6, <1>10
    <3>2. QED
      BY <1>1, <1>5, <3>1 DEF HasDay
  <2>2. k0 \in j0 .. l0
    BY <1>3
  <2>3. QED
    BY <2>1, <2>2
<1>11. QED
  BY <1>7, <1>9, <1>10 DEF day

\* An expansion takes exactly the days of its window on which the rule is due.
THEOREM ExpandsTheDue ==
    ASSUME NEW rule \in Rule, NEW windowStart \in Nat, NEW windowEnd \in Nat,
           windowEnd < MonthStarts[Len(MonthStarts)], NEW d \in Int
    PROVE  d \in OccurrenceDates(rule, windowStart, windowEnd)
             <=> windowStart <= d /\ d <= windowEnd /\ Due(rule, d)
<1> DEFINE from == Later(rule.start, windowStart)
           to == IF rule.end = Ongoing THEN windowEnd ELSE Sooner(rule.end, windowEnd)
           step == IF rule.recurrence = "weekly" THEN WeekLength ELSE 2 * WeekLength
           anchor == NextWeekdayOnOrAfter(rule.start, rule.weekday)
<1>1. /\ rule.start \in Nat /\ rule.end \in Nat \cup {Ongoing} /\ WeekLength \in Nat \ {0}
      /\ rule.weekday \in 0 .. WeekLength - 1 /\ Ongoing \notin Nat
      /\ rule.recurrence \in {"weekly", "biweekly", "monthly"}
      /\ MonthStarts[Len(MonthStarts)] \in Nat
  BY DatesAssumption DEF Rule
<1>2. from \in Nat /\ to \in Nat /\ rule.start <= from /\ to <= windowEnd
  BY <1>1 DEF Later, Sooner
<1>3. from <= d /\ d <= to
        <=> /\ windowStart <= d /\ d <= windowEnd
            /\ rule.start <= d /\ (rule.end = Ongoing \/ d <= rule.end)
  <2>1. from <= d <=> windowStart <= d /\ rule.start <= d
    BY <1>1 DEF Later
  <2>2. d <= to <=> d <= windowEnd /\ (rule.end = Ongoing \/ d <= rule.end)
    BY <1>1 DEF Sooner
  <2>3. QED
    BY <2>1, <2>2
<1>4. to < MonthStarts[Len(MonthStarts)]
  BY <1>1, <1>2
<1>5. OccurrenceDates(rule, windowStart, windowEnd) =
        IF from > to THEN {}
        ELSE IF rule.recurrence = "monthly" THEN MonthlyDates(DayOfMonth(rule.start), from, to)
        ELSE SteppedDates(First(anchor, from, step), step, to)
  BY DEF OccurrenceDates
<1>6. CASE rule.recurrence = "monthly"
  <2>1. Due(rule, d) <=> /\ rule.start <= d /\ (rule.end = Ongoing \/ d <= rule.end)
                         /\ DayOfMonth(d) = DayOfMonth(rule.start)
    BY <1>6 DEF Due
  <2> HIDE DEF from, to
  <2>2. d \in OccurrenceDates(rule, windowStart, windowEnd)
          <=> from <= to /\ d \in MonthlyDates(DayOfMonth(rule.start), from, to)
    BY <1>2, <1>5, <1>6
  <2>3. d \in MonthlyDates(DayOfMonth(rule.start), from, to) => d \in from .. to
    BY DEF MonthlyDates
  <2>4. d \in from .. to => (d \in MonthlyDates(DayOfMonth(rule.start), from, to)
                               <=> DayOfMonth(d) = DayOfMonth(rule.start))
    BY <1>1, <1>2, <1>4, MonthlyIsDue
  <2>5. d \in from .. to <=> from <= d /\ d <= to
    BY <1>2
  <2>6. d \in from .. to => from <= to
    BY <1>2
  <2>7. QED
    BY <1>3, <2>1, <2>2, <2>3, <2>4, <2>5, <2>6
<1>7. CASE rule.recurrence # "monthly"
  <2>1. Due(rule, d) <=> /\ rule.start <= d /\ (rule.end = Ongoing \/ d <= rule.end)
                         /\ Weekday(d) = rule.weekday
                         /\ rule.recurrence = "biweekly" =>
                              ((d - rule.start) \div WeekLength) % 2 = 0
    BY <1>1, <1>7 DEF Due
  <2>2. anchor \in Nat /\ step \in Nat \ {0}
    <3>1. anchor \in Nat
      BY <1>1, Anchored
    <3>2. WeekLength \in Nat \ {0} /\ 2 * WeekLength \in Nat \ {0}
      BY <1>1
    <3>3. QED
      BY <3>1, <3>2
  <2>3. d \in SteppedDates(First(anchor, from, step), step, to)
          <=> from <= d /\ d <= to /\ StepsAfter(d, anchor, step)
    <3> HIDE DEF from, to, anchor, step
    <3>1. QED
      BY <1>2, <2>2, SteppedFrom
  <2>4. from <= d => d \in Nat /\ rule.start <= d
    <3> HIDE DEF from
    <3>1. QED
      BY <1>1, <1>2
  <2>5. from <= d => (StepsAfter(d, anchor, step)
                        <=> /\ Weekday(d) = rule.weekday
                            /\ rule.recurrence = "biweekly" =>
                                 ((d - rule.start) \div WeekLength) % 2 = 0)
    BY <1>7, <2>4, DueInSteps
  <2>6. from <= d /\ d <= to => ~(from > to)
    <3> HIDE DEF from, to
    <3>1. QED
      BY <1>2
  <2>7. d \in OccurrenceDates(rule, windowStart, windowEnd)
          <=> ~(from > to) /\ d \in SteppedDates(First(anchor, from, step), step, to)
    BY <1>5, <1>7
  <2> HIDE DEF from, to, anchor, step
  <2>8. QED
    BY <1>3, <2>1, <2>3, <2>5, <2>6, <2>7
<1>8. QED
  BY <1>6, <1>7

\* Every date of an expansion is a day.
LEMMA DatesAreDays ==
    ASSUME NEW rule \in Rule, NEW windowStart \in Nat, NEW windowEnd \in Nat,
           windowEnd < MonthStarts[Len(MonthStarts)]
    PROVE  OccurrenceDates(rule, windowStart, windowEnd) \subseteq Nat
<1> SUFFICES ASSUME NEW d \in OccurrenceDates(rule, windowStart, windowEnd)
             PROVE  d \in Nat
  OBVIOUS
<1> DEFINE from == Later(rule.start, windowStart)
           to == IF rule.end = Ongoing THEN windowEnd ELSE Sooner(rule.end, windowEnd)
           step == IF rule.recurrence = "weekly" THEN WeekLength ELSE 2 * WeekLength
           anchor == NextWeekdayOnOrAfter(rule.start, rule.weekday)
           first == First(anchor, from, step)
<1>1. /\ rule.start \in Nat /\ rule.end \in Nat \cup {Ongoing} /\ WeekLength \in Nat \ {0}
      /\ rule.weekday \in 0 .. WeekLength - 1
  BY DatesAssumption DEF Rule
<1>2. from \in Nat /\ to \in Nat /\ step \in Nat \ {0}
  BY <1>1 DEF Later, Sooner
<1>3. d \in MonthlyDates(DayOfMonth(rule.start), from, to) \cup SteppedDates(first, step, to)
  <2> HIDE DEF from, to, step, first
  <2>1. QED
    BY DEF OccurrenceDates, from, to, step, anchor, first
<1>4. anchor \in Nat
  BY <1>1, Anchored
<1> HIDE DEF from, to, step, anchor
<1>5. first \in Nat
  <2>1. from <= anchor => first = anchor
    BY DEF First
  <2>2. CASE ~(from <= anchor)
    <3> DEFINE r == (from - anchor) % step
    <3>1. r \in 0 .. step - 1
      BY <1>2, <1>4
    <3>2. first = IF r = 0 THEN from ELSE from + step - r
      BY <2>2 DEF First
    <3> HIDE DEF r, first
    <3>3. QED
      BY <1>2, <3>1, <3>2
  <2>3. QED
    BY <1>4, <2>1, <2>2
<1> HIDE DEF first
<1>6. SteppedDates(first, step, to) \subseteq Nat
  <2> SUFFICES ASSUME NEW n \in 0 .. (to - first) \div step
               PROVE  first + n * step \in Nat
    BY DEF SteppedDates
  <2>1. n \in Nat
    BY <1>2, <1>5
  <2>2. n * step \in Nat
    BY <1>2, <2>1
  <2>3. QED
    BY <1>5, <2>2
<1>7. MonthlyDates(DayOfMonth(rule.start), from, to) \subseteq Nat
  BY <1>2 DEF MonthlyDates
<1>8. QED
  BY <1>1, <1>2, <1>3, <1>6, <1>7

(***************************************************************************)
(* The expansion of recurring rules.                                       *)
(***************************************************************************)

\* A transaction starts its rows at time 0.
DocumentTime(kind, time) == kind # "shift" => time = 0

\* Rows say when they were made for, and only a shift is moved.
RowsAsMade ==
    \A row \in rows :
      /\ ~row.moved => row.start = <<row.occurrence, row.time>>
      /\ row.kind # "shift" => ~row.moved
      /\ DocumentTime(row.kind, row.time)

\* The unique constraints: a rule's rows of a kind start apart.
StartsApart ==
    \A a, b \in rows : a.rule = b.rule /\ a.kind = b.kind /\ a.start = b.start => a = b

\* What a transaction repeats has time 0.
RulesInOrder ==
    \A r \in Rules : RuleExists(r) => DocumentTime(rules[r].kind, rules[r].time)

\* What a run has read was a rule once.
WasRead(s) == rules[s.id].kind # "none" /\ DocumentTime(s.rule.kind, s.rule.time)

\* A run has read its rules and dates before it works on them, and one that is
\* not busy holds nothing.
RunsInOrder ==
    \A w \in CeleryWorkers :
      /\ runs[w].from <= LastDay
      /\ ~runs[w].busy => runs[w] = NotRunning
      /\ runs[w].current = NoRule => runs[w].missing = NoDate /\ runs[w].dates = {}
      /\ runs[w].current # NoRule => WasRead(runs[w].current)
      /\ \A s \in runs[w].todo \cup runs[w].seen : WasRead(s)

\* The row of a day is there, or it was removed or moved away.
Accounted(s, d) ==
    \/ Found(s.id, s.rule.kind, <<d, s.rule.time>>)
    \/ [rule |-> s.id, kind |-> s.rule.kind, start |-> <<d, s.rule.time>>] \in undone

\* A day on which the rule that w has read is due, in its window.
DueIn(w, s, d) ==
    d \in runs[w].from .. runs[w].from + Window /\ Due(s.rule, d) /\ RuleExists(s.id)

\* Of the rule that w works on, what is not yet there is still to be looked at;
\* of those it is done with, everything is there.
Covered(w) ==
    /\ runs[w].current # NoRule =>
         \A d : DueIn(w, runs[w].current, d) =>
           \/ d \in runs[w].dates \/ d = runs[w].missing
           \/ Accounted(runs[w].current, d)
    /\ \A s \in runs[w].seen : \A d : DueIn(w, s, d) => Accounted(s, d)

\* The inductive invariant of the expansion.
RecurringInv ==
    /\ RecurringTypeOK
    /\ RowsAsMade /\ StartsApart /\ RulesInOrder /\ RunsInOrder
    /\ \A w \in CeleryWorkers : Covered(w)

\* A rule that is there is one of the rules.
LEMMA RuleFacts ==
    ASSUME RecurringInv, NEW r \in Rules
    PROVE  /\ RuleExists(r) => rules[r] \in Rule /\ DocumentTime(rules[r].kind, rules[r].time)
           /\ rules[r].kind # "none" <=> RuleExists(r) \/ rules[r].kind = "deleted"
BY DEF RecurringInv, RecurringTypeOK, RulesInOrder, RuleExists, NotThere, Absent

\* What a run holds.
LEMMA RunFacts ==
    ASSUME RecurringInv, NEW w \in CeleryWorkers
    PROVE  /\ runs[w] \in Run /\ runs[w].from \in Nat /\ runs[w].from <= LastDay
           /\ runs[w].from + Window \in Nat
           /\ runs[w].from + Window < MonthStarts[Len(MonthStarts)]
           /\ ~runs[w].busy => runs[w] = NotRunning
           /\ runs[w].current = NoRule => runs[w].missing = NoDate /\ runs[w].dates = {}
           /\ runs[w].current # NoRule =>
                runs[w].current \in Snapshot /\ WasRead(runs[w].current) /\ runs[w].busy
           /\ \A s \in runs[w].todo \cup runs[w].seen :
                s \in Snapshot /\ WasRead(s) /\ runs[w].busy
<1>1. /\ runs[w] \in Run /\ runs[w].from <= LastDay
      /\ ~runs[w].busy => runs[w] = NotRunning
      /\ runs[w].current = NoRule => runs[w].missing = NoDate /\ runs[w].dates = {}
      /\ runs[w].current # NoRule => WasRead(runs[w].current)
      /\ \A s \in runs[w].todo \cup runs[w].seen : WasRead(s)
  BY DEF RecurringInv, RecurringTypeOK, RunsInOrder
<1>2. /\ runs[w].from \in Nat /\ runs[w].current \in Snapshot \cup {NoRule}
      /\ runs[w].todo \in SUBSET Snapshot /\ runs[w].seen \in SUBSET Snapshot
      /\ runs[w].busy \in BOOLEAN
  BY <1>1 DEF Run
<1>3. NotRunning.current = NoRule /\ NotRunning.todo = {} /\ NotRunning.seen = {}
  BY DEF NotRunning
<1>4. /\ runs[w].from + Window \in Nat
      /\ runs[w].from + Window < MonthStarts[Len(MonthStarts)]
  BY <1>1, <1>2, WindowAssumption, DatesAssumption
<1>5. QED
  BY <1>1, <1>2, <1>3, <1>4

\* What was accounted for stays so, for every rule that is still there.
StillAccounted ==
    \A s \in Snapshot : WasRead(s) /\ RuleExists(s.id)' =>
      RuleExists(s.id) /\ \A d : Accounted(s, d) => Accounted(s, d)'

\* A run that does not move stays covered.
LEMMA CoveredStays ==
    ASSUME RecurringInv, NEW w \in CeleryWorkers, runs'[w] = runs[w],
           StillAccounted \/ ~runs[w].busy
    PROVE  Covered(w)'
<1> DEFINE s == runs[w].current
<1>1. Covered(w)
  BY DEF RecurringInv
<1>2. CASE ~runs[w].busy
  <2>1. runs'[w].current = NoRule /\ runs'[w].seen = {}
    BY <1>2, RunFacts DEF NotRunning
  <2>2. QED
    BY <2>1 DEF Covered
<1>3. CASE StillAccounted
  <2>1. ASSUME NEW t \in Snapshot, WasRead(t), NEW d, DueIn(w, t, d)'
        PROVE  DueIn(w, t, d) /\ (Accounted(t, d) => Accounted(t, d)')
    BY <1>3, <2>1 DEF DueIn, StillAccounted
  <2>2. s # NoRule => s \in Snapshot /\ WasRead(s)
    BY RunFacts
  <2>3. \A t \in runs[w].seen : t \in Snapshot /\ WasRead(t)
    BY RunFacts
  <2>4. ASSUME s # NoRule, NEW d, DueIn(w, s, d)'
        PROVE  d \in runs[w].dates \/ d = runs[w].missing \/ Accounted(s, d)'
    BY <1>1, <2>1, <2>2, <2>4 DEF Covered
  <2>5. ASSUME NEW t \in runs[w].seen, NEW d, DueIn(w, t, d)'
        PROVE  Accounted(t, d)'
    BY <1>1, <2>1, <2>3, <2>5 DEF Covered
  <2>6. QED
    BY <2>4, <2>5 DEF Covered
<1>4. QED
  BY <1>2, <1>3

\* A step that moves no run.
LEMMA ManagerStep ==
    ASSUME RecurringInv, runs' = runs, RecurringTypeOK', RowsAsMade', StartsApart',
           RulesInOrder', \A r \in Rules : rules[r].kind # "none" => rules'[r].kind # "none",
           StillAccounted \/ \A w \in CeleryWorkers : ~runs[w].busy
    PROVE  RecurringInv'
<1>1. \A s \in Snapshot : WasRead(s) => WasRead(s)'
  BY DEF WasRead, Snapshot
<1>2. RunsInOrder'
  <2> SUFFICES ASSUME NEW w \in CeleryWorkers
               PROVE  /\ runs[w].from <= LastDay
                      /\ ~runs[w].busy => runs[w] = NotRunning
                      /\ runs[w].current = NoRule => runs[w].missing = NoDate /\ runs[w].dates = {}
                      /\ runs[w].current # NoRule => WasRead(runs[w].current)'
                      /\ \A s \in runs[w].todo \cup runs[w].seen : WasRead(s)'
    BY DEF RunsInOrder, WasRead
  <2>1. QED
    BY <1>1, RunFacts
<1>3. ASSUME NEW w \in CeleryWorkers
      PROVE  Covered(w)'
  <2>1. runs'[w] = runs[w]
    OBVIOUS
  <2>2. QED
    BY <2>1, CoveredStays
<1>4. QED
  BY <1>2, <1>3 DEF RecurringInv

\* A step that moves one run.
LEMMA RunStep ==
    ASSUME RecurringInv, NEW w \in CeleryWorkers, NEW new \in Run,
           runs' = [runs EXCEPT ![w] = new], UNCHANGED <<today, rules>>,
           rows' \subseteq Row, RowsAsMade', StartsApart',
           undone' \subseteq [rule : Rules, kind : Kinds, start : Nat \X Nat],
           \A v \in CeleryWorkers \ {w} : StillAccounted \/ ~runs[v].busy,
           new.from <= LastDay, ~new.busy => new = NotRunning,
           new.current = NoRule => new.missing = NoDate /\ new.dates = {},
           new.current # NoRule => WasRead(new.current),
           \A s \in new.todo \cup new.seen : WasRead(s),
           Covered(w)'
    PROVE  RecurringInv'
<1>1. \A v \in CeleryWorkers : runs'[v] = IF v = w THEN new ELSE runs[v]
  BY DEF RecurringInv, RecurringTypeOK
<1>2. RecurringTypeOK'
  BY DEF RecurringInv, RecurringTypeOK
<1>3. RulesInOrder'
  BY DEF RecurringInv, RulesInOrder, RuleExists
<1>4. RunsInOrder'
  <2>1. \A s : WasRead(s)' <=> WasRead(s)
    BY DEF WasRead
  <2> SUFFICES ASSUME NEW v \in CeleryWorkers
               PROVE  /\ runs'[v].from <= LastDay
                      /\ ~runs'[v].busy => runs'[v] = NotRunning
                      /\ runs'[v].current = NoRule => runs'[v].missing = NoDate /\ runs'[v].dates = {}
                      /\ runs'[v].current # NoRule => WasRead(runs'[v].current)
                      /\ \A s \in runs'[v].todo \cup runs'[v].seen : WasRead(s)
    BY <2>1 DEF RunsInOrder, WasRead
  <2>2. CASE v = w
    BY <1>1, <2>2
  <2>3. CASE v # w
    BY <1>1, <2>3, RunFacts
  <2>4. QED
    BY <2>2, <2>3
<1>5. ASSUME NEW v \in CeleryWorkers
      PROVE  Covered(v)'
  <2>1. CASE v = w
    BY <2>1
  <2>2. CASE v # w
    <3>1. runs'[v] = runs[v] /\ (StillAccounted \/ ~runs[v].busy)
      BY <1>1, <2>2
    <3>2. QED
      BY <3>1, CoveredStays
  <2>3. QED
    BY <2>1, <2>2
<1>6. QED
  BY <1>2, <1>3, <1>4, <1>5 DEF RecurringInv

\* Nothing is lost when no row goes and no rule comes.
LEMMA NothingLost ==
    ASSUME rows \subseteq rows', undone \subseteq undone', UNCHANGED rules
    PROVE  StillAccounted
BY DEF StillAccounted, RuleExists, Accounted, Found

\* Fewer rows are still as they were made, and still start apart.
LEMMA FewerRows ==
    ASSUME RecurringInv, rows' \subseteq rows
    PROVE  rows' \subseteq Row /\ RowsAsMade' /\ StartsApart'
BY DEF RecurringInv, RecurringTypeOK, RowsAsMade, StartsApart

\* Nothing is made yet, and nobody runs.
LEMMA RecurringInitHolds == RecurringInit => RecurringInv
<1> SUFFICES ASSUME RecurringInit PROVE RecurringInv
  OBVIOUS
<1> USE DEF RecurringInit
<1>1. NotRunning \in Run
  BY DEF NotRunning, Run
<1>2. NotRunning.from = 0 /\ NotRunning.current = NoRule /\ NotRunning.todo = {}
      /\ NotRunning.seen = {} /\ NotRunning.missing = NoDate /\ ~NotRunning.busy
      /\ NotRunning.dates = {}
  BY DEF NotRunning
<1>3. RecurringTypeOK
  BY <1>1, WindowAssumption DEF RecurringTypeOK, Absent
<1>4. RowsAsMade /\ StartsApart
  BY DEF RowsAsMade, StartsApart
<1>5. RulesInOrder
  BY DEF RulesInOrder, RuleExists, NotThere, Absent
<1>6. RunsInOrder
  <2>1. 0 <= LastDay
    BY WindowAssumption
  <2>2. \A w \in CeleryWorkers : runs[w] = NotRunning
    OBVIOUS
  <2> HIDE DEF RecurringInit
  <2>3. QED
    BY <1>2, <2>1, <2>2 DEF RunsInOrder
<1>7. \A w \in CeleryWorkers : Covered(w)
  <2>1. \A w \in CeleryWorkers : runs[w] = NotRunning
    OBVIOUS
  <2>2. QED
    BY <1>2, <2>1 DEF Covered
<1>8. QED
  BY <1>3, <1>4, <1>5, <1>6, <1>7 DEF RecurringInv

\* The calendar moves on.
LEMMA DayPassesKeeps == ASSUME RecurringInv, DayPasses PROVE RecurringInv'
<1>1. UNCHANGED <<rules, rows, runs, undone>>
  BY DEF DayPasses
<1>2. RecurringTypeOK'
  <2>1. today' \in 0 .. LastDay
    BY WindowAssumption DEF DayPasses, RecurringInv, RecurringTypeOK
  <2>2. QED
    BY <1>1, <2>1 DEF RecurringInv, RecurringTypeOK
<1>3. RowsAsMade' /\ StartsApart'
  BY <1>1, FewerRows
<1>4. RulesInOrder' /\ StillAccounted
  BY <1>1, NothingLost DEF RecurringInv, RulesInOrder, RuleExists
<1>5. QED
  BY <1>1, <1>2, <1>3, <1>4, ManagerStep

\* A manager writes a rule: one that is there, or a new one.
LEMMA RuleWritten ==
    ASSUME RecurringInv, NEW r \in Rules, NEW rule \in Rule, DocumentTime(rule.kind, rule.time),
           rules' = [rules EXCEPT ![r] = rule], UNCHANGED <<today, rows, runs, undone>>,
           RuleExists(r) \/ rules[r].kind = "none"
    PROVE  RecurringInv'
<1>1. \A q \in Rules : rules'[q] = IF q = r THEN rule ELSE rules[q]
  BY DEF RecurringInv, RecurringTypeOK
<1>2. rule.kind \in Kinds /\ rule.kind # "none" /\ rule.kind # "deleted"
  BY DEF Rule, Kinds
<1>3. RecurringTypeOK'
  BY DEF RecurringInv, RecurringTypeOK
<1>4. RowsAsMade' /\ StartsApart'
  BY FewerRows
<1>5. RulesInOrder'
  BY <1>1 DEF RecurringInv, RulesInOrder, RuleExists
<1>6. \A q \in Rules : rules[q].kind # "none" => rules'[q].kind # "none"
  BY <1>1, <1>2
<1>7. StillAccounted
  <2> SUFFICES ASSUME NEW s \in Snapshot, WasRead(s), RuleExists(s.id)'
               PROVE  RuleExists(s.id) /\ \A d : Accounted(s, d) => Accounted(s, d)'
    BY DEF StillAccounted
  <2>1. RuleExists(s.id)
    <3>1. s.id \in Rules
      BY DEF Snapshot
    <3>2. CASE s.id = r
      BY <3>2 DEF WasRead
    <3>3. CASE s.id # r
      BY <1>1, <3>1, <3>3 DEF RuleExists
    <3>4. QED
      BY <3>2, <3>3
  <2>2. QED
    BY <2>1 DEF Accounted, Found
<1>8. QED
  BY <1>3, <1>4, <1>5, <1>6, <1>7, ManagerStep

\* A rule is created or edited.
LEMMA WriteRuleKeeps ==
    ASSUME RecurringInv, NEW r \in Rules, NEW choice \in RuleChoices,
           CreateRule(r, choice) \/ EditRule(r, choice)
    PROVE  RecurringInv'
<1>1. choice \in Rule /\ DocumentTime(choice.kind, choice.time)
  BY InputAssumption DEF DocumentTime
<1>2. QED
  BY <1>1, RuleWritten DEF CreateRule, EditRule

\* A rule is paused or resumed.
LEMMA PauseRuleKeeps ==
    ASSUME RecurringInv, NEW r \in Rules, PauseRule(r)
    PROVE  RecurringInv'
<1> DEFINE rule == [rules[r] EXCEPT !.active = ~@]
<1>1. RuleExists(r) /\ rules[r] \in Rule /\ DocumentTime(rules[r].kind, rules[r].time)
  BY RuleFacts DEF PauseRule
<1>2. rule \in Rule /\ rule.kind = rules[r].kind /\ rule.time = rules[r].time
  BY <1>1 DEF Rule
<1>3. rules' = [rules EXCEPT ![r] = rule] /\ UNCHANGED <<today, rows, runs, undone>>
  BY DEF PauseRule, RecurringInv, RecurringTypeOK
<1> HIDE DEF rule
<1>4. QED
  BY <1>1, <1>2, <1>3, RuleWritten

\* A rule goes and leaves its rows without one.
LEMMA DestroyRuleKeeps ==
    ASSUME RecurringInv, NEW r \in Rules, DestroyRule(r)
    PROVE  RecurringInv'
<1> USE DEF DestroyRule
<1>1. \A q \in Rules : rules'[q] = IF q = r THEN NotThere("deleted") ELSE rules[q]
  BY DEF RecurringInv, RecurringTypeOK
<1>2. NotThere("deleted").kind = "deleted"
  BY DEF NotThere
<1>3. rows' \subseteq Row /\ RowsAsMade' /\ StartsApart'
  BY FewerRows
<1>4. RecurringTypeOK'
  <2>1. rules' \in [Rules -> Rule \cup {NotThere(kind) : kind \in Absent}]
    <3>1. NotThere("deleted") \in {NotThere(kind) : kind \in Absent}
      BY DEF Absent
    <3>2. QED
      BY <3>1 DEF RecurringInv, RecurringTypeOK
  <2>2. QED
    BY <1>3, <2>1 DEF RecurringInv, RecurringTypeOK
<1>5. RulesInOrder'
  BY <1>1, <1>2 DEF RecurringInv, RulesInOrder, RuleExists, Absent
<1>6. \A q \in Rules : rules[q].kind # "none" => rules'[q].kind # "none"
  BY <1>1, <1>2
<1>7. StillAccounted
  <2> SUFFICES ASSUME NEW s \in Snapshot, WasRead(s), RuleExists(s.id)'
               PROVE  RuleExists(s.id) /\ \A d : Accounted(s, d) => Accounted(s, d)'
    BY DEF StillAccounted
  <2>1. s.id \in Rules /\ s.id # r
    BY <1>1, <1>2 DEF Snapshot, RuleExists, Absent
  <2>2. QED
    BY <1>1, <2>1 DEF RuleExists, Accounted, Found
<1>8. QED
  BY <1>3, <1>4, <1>5, <1>6, <1>7, ManagerStep

\* A row that goes is noted as undone while a run is on.
LEMMA RowGone ==
    ASSUME RecurringInv, NEW row \in rows, rows \ {row} \subseteq rows', Undo(row),
           UNCHANGED <<rules, runs>>
    PROVE  /\ undone' \subseteq [rule : Rules, kind : Kinds, start : Nat \X Nat]
           /\ StillAccounted \/ \A w \in CeleryWorkers : ~runs[w].busy
<1> DEFINE note == [rule |-> row.rule, kind |-> row.kind, start |-> row.start]
<1>1. note \in [rule : Rules, kind : Kinds, start : Nat \X Nat]
  <2>1. row \in Row
    BY DEF RecurringInv, RecurringTypeOK
  <2>2. row.rule \in Rules /\ row.kind \in Kinds /\ row.start \in Nat \X Nat
    BY <2>1 DEF Row
  <2>3. QED
    BY <2>2
<1>2. undone' \subseteq [rule : Rules, kind : Kinds, start : Nat \X Nat]
  BY <1>1 DEF Undo, RecurringInv, RecurringTypeOK
<1>3. CASE \E w \in CeleryWorkers : runs[w].busy
  <2>1. undone' = undone \cup {note}
    BY <1>3 DEF Undo
  <2>2. ASSUME NEW s \in Snapshot, NEW d, Accounted(s, d)
        PROVE  Accounted(s, d)'
    <3> DEFINE start == <<d, s.rule.time>>
               key == [rule |-> s.id, kind |-> s.rule.kind, start |-> start]
    <3>1. CASE key \in undone
      BY <2>1, <3>1 DEF Accounted
    <3>2. CASE Found(s.id, s.rule.kind, start)
      <4>1. PICK q \in rows : q.rule = s.id /\ q.kind = s.rule.kind /\ q.start = start
        BY <3>2 DEF Found
      <4>2. CASE q = row
        <5>1. note = key
          BY <4>1, <4>2
        <5>2. QED
          BY <2>1, <5>1 DEF Accounted
      <4>3. CASE q # row
        <5>1. Found(s.id, s.rule.kind, start)'
          BY <4>1, <4>3 DEF Found
        <5>2. QED
          BY <5>1 DEF Accounted
      <4>4. QED
        BY <4>2, <4>3
    <3>3. QED
      BY <2>2, <3>1, <3>2 DEF Accounted
  <2>3. QED
    BY <1>2, <2>2 DEF StillAccounted, RuleExists
<1>4. CASE ~\E w \in CeleryWorkers : runs[w].busy
  BY <1>2, <1>4
<1>5. QED
  BY <1>3, <1>4

\* A manager deletes a row.
LEMMA DestroyRowKeeps ==
    ASSUME RecurringInv, NEW row \in rows, DestroyRow(row)
    PROVE  RecurringInv'
<1> USE DEF DestroyRow
<1>1. rows' \subseteq Row /\ RowsAsMade' /\ StartsApart'
  BY FewerRows
<1>2. /\ undone' \subseteq [rule : Rules, kind : Kinds, start : Nat \X Nat]
      /\ StillAccounted \/ \A w \in CeleryWorkers : ~runs[w].busy
  BY RowGone
<1>3. RecurringTypeOK' /\ RulesInOrder'
  BY <1>1, <1>2 DEF RecurringInv, RecurringTypeOK, RulesInOrder, RuleExists
<1>4. QED
  BY <1>1, <1>2, <1>3, ManagerStep

\* A manager moves a shift to a start that the rule's shifts leave free.
LEMMA MoveShiftKeeps ==
    ASSUME RecurringInv, NEW row \in rows, NEW start \in Slots, MoveShift(row, start)
    PROVE  RecurringInv'
<1> DEFINE new == [row EXCEPT !.start = start, !.moved = TRUE]
<1>1. row \in Row /\ start \in Nat \X Nat
  BY InputAssumption DEF RecurringInv, RecurringTypeOK
<1>2. /\ new \in Row /\ new.rule = row.rule /\ new.kind = row.kind /\ new.time = row.time
      /\ new.start = start /\ new.moved
  BY <1>1 DEF Row
<1>3. /\ rows' = (rows \ {row}) \cup {new} /\ row.kind = "shift"
      /\ ~Found(row.rule, "shift", start) /\ Undo(row) /\ UNCHANGED <<today, rules, runs>>
  BY DEF MoveShift
<1> HIDE DEF new
<1>4. /\ undone' \subseteq [rule : Rules, kind : Kinds, start : Nat \X Nat]
      /\ StillAccounted \/ \A w \in CeleryWorkers : ~runs[w].busy
  BY <1>3, RowGone
<1>5. RecurringTypeOK' /\ RulesInOrder'
  BY <1>2, <1>3, <1>4 DEF RecurringInv, RecurringTypeOK, RulesInOrder, RuleExists
<1>6. RowsAsMade'
  <2> SUFFICES ASSUME NEW q \in rows'
               PROVE  /\ ~q.moved => q.start = <<q.occurrence, q.time>>
                      /\ q.kind # "shift" => ~q.moved
                      /\ DocumentTime(q.kind, q.time)
    BY DEF RowsAsMade
  <2>1. CASE q \in rows
    BY <2>1 DEF RecurringInv, RowsAsMade
  <2>2. CASE q = new
    BY <1>2, <1>3, <2>2 DEF DocumentTime
  <2>3. QED
    BY <1>3, <2>1, <2>2
<1>7. StartsApart'
  <2>1. \A q \in rows : q.rule = new.rule /\ q.kind = new.kind => q.start # new.start
    BY <1>2, <1>3 DEF Found
  <2>2. \A a, b \in rows : a.rule = b.rule /\ a.kind = b.kind /\ a.start = b.start => a = b
    BY DEF RecurringInv, StartsApart
  <2>3. rows' \subseteq rows \cup {new}
    BY <1>3
  <2>4. QED
    BY <2>1, <2>2, <2>3 DEF StartsApart
<1>8. QED
  BY <1>3, <1>4, <1>5, <1>6, <1>7, ManagerStep

\* Moving a run on, without touching rows, loses nothing of the others.
LEMMA RunMovesOn ==
    ASSUME RecurringInv, NEW w \in CeleryWorkers, NEW new \in Run,
           runs' = [runs EXCEPT ![w] = new], UNCHANGED <<today, rules, rows, undone>>,
           new.from <= LastDay, ~new.busy => new = NotRunning,
           new.current = NoRule => new.missing = NoDate /\ new.dates = {},
           new.current # NoRule => WasRead(new.current),
           \A s \in new.todo \cup new.seen : WasRead(s),
           Covered(w)'
    PROVE  RecurringInv'
<1>1. rows' \subseteq Row /\ RowsAsMade' /\ StartsApart'
  BY FewerRows
<1>2. undone' \subseteq [rule : Rules, kind : Kinds, start : Nat \X Nat]
  BY DEF RecurringInv, RecurringTypeOK
<1>3. StillAccounted
  BY NothingLost
<1>4. QED
  BY <1>1, <1>2, <1>3, RunStep

\* The run that a step leaves behind is the one it writes.
LEMMA RunWritten ==
    ASSUME RecurringInv, NEW w \in CeleryWorkers, NEW new, runs' = [runs EXCEPT ![w] = new]
    PROVE  runs'[w] = new
BY DEF RecurringInv, RecurringTypeOK

\* A run reads the rules that are active and in its window.
LEMMA BeginRunKeeps ==
    ASSUME RecurringInv, NEW w \in CeleryWorkers, NEW kinds, BeginRun(w, kinds)
    PROVE  RecurringInv'
<1> DEFINE todo == {[id |-> r, rule |-> rules[r]] :
                      r \in {q \in Rules : Expandable(q) /\ rules[q].kind \in kinds}}
           new == [NotRunning EXCEPT !.busy = TRUE, !.from = today, !.todo = todo]
<1>1. runs' = [runs EXCEPT ![w] = new] /\ UNCHANGED <<today, rules, rows, undone>>
  BY DEF BeginRun
<1>2. \A s \in todo : s \in Snapshot /\ WasRead(s)
  <2> SUFFICES ASSUME NEW r \in Rules, RuleExists(r)
               PROVE  /\ [id |-> r, rule |-> rules[r]] \in Snapshot
                      /\ WasRead([id |-> r, rule |-> rules[r]])
    BY DEF Expandable
  <2>1. rules[r] \in Rule /\ DocumentTime(rules[r].kind, rules[r].time)
        /\ rules[r].kind # "none"
    BY RuleFacts
  <2>2. QED
    BY <2>1 DEF Snapshot, WasRead
<1>3. today \in Nat /\ today <= LastDay
  BY WindowAssumption DEF RecurringInv, RecurringTypeOK
<1>4. NotRunning \in Run
  BY DEF NotRunning, Run
<1> HIDE DEF todo
<1>5. todo \in SUBSET Snapshot
  BY <1>2
<1>6. new \in Run
  BY <1>3, <1>4, <1>5 DEF Run
<1>7. /\ new.busy /\ new.from = today /\ new.todo = todo /\ new.current = NoRule
      /\ new.missing = NoDate /\ new.seen = {} /\ new.dates = {}
  BY DEF NotRunning
<1> HIDE DEF new
<1>8. Covered(w)'
  <2>1. runs'[w] = new
    BY <1>1, RunWritten
  <2>2. QED
    BY <1>7, <2>1 DEF Covered
<1>9. QED
  BY <1>1, <1>2, <1>3, <1>6, <1>7, <1>8, RunMovesOn

\* A run turns to a rule: every day on which it is due is among its dates.
LEMMA NextRuleKeeps ==
    ASSUME RecurringInv, NEW w \in CeleryWorkers, NEW s \in runs[w].todo, NextRule(w, s)
    PROVE  RecurringInv'
<1> DEFINE run == runs[w]
           dates == OccurrenceDates(s.rule, run.from, run.from + Window)
           new == [run EXCEPT !.todo = run.todo \ {s}, !.current = s, !.dates = dates]
<1>0. run.current = NoRule /\ UNCHANGED <<today, rules, rows, undone>>
  BY DEF NextRule
<1>1. runs' = [runs EXCEPT ![w] = new]
  BY DEF NextRule
<1>2. /\ run \in Run /\ run.from \in Nat /\ run.from <= LastDay /\ run.busy
      /\ run.from + Window \in Nat /\ run.from + Window < MonthStarts[Len(MonthStarts)]
      /\ run.missing = NoDate /\ s \in Snapshot /\ WasRead(s)
      /\ \A q \in run.todo \cup run.seen : WasRead(q)
  BY <1>0, RunFacts
<1>3. s.rule \in Rule /\ s # NoRule
  BY <1>2, InputAssumption DEF Snapshot
<1>4. dates \subseteq Nat
  BY <1>2, <1>3, DatesAreDays
<1>5. \A d : DueIn(w, s, d) => d \in dates
  <2> SUFFICES ASSUME NEW d, DueIn(w, s, d)
               PROVE  d \in dates
    OBVIOUS
  <2>1. d \in Int /\ run.from <= d /\ d <= run.from + Window /\ Due(s.rule, d)
    BY <1>2 DEF DueIn
  <2> HIDE DEF run
  <2>2. QED
    BY <1>2, <1>3, <2>1, ExpandsTheDue
<1> HIDE DEF dates
<1>6. run.todo \ {s} \in SUBSET Snapshot
  BY <1>2 DEF Run
<1> HIDE DEF run
<1>7. new \in Run
  BY <1>2, <1>4, <1>6 DEF Run
<1>8. /\ new.busy = run.busy /\ new.from = run.from /\ new.todo = run.todo \ {s}
      /\ new.current = s /\ new.dates = dates /\ new.missing = run.missing
      /\ new.seen = run.seen
  BY <1>2 DEF Run
<1> HIDE DEF new
<1>9. Covered(w)'
  <2>1. runs'[w] = new
    BY <1>1, RunWritten
  <2>2. \A q, d : DueIn(w, q, d)' <=> DueIn(w, q, d)
    BY <1>0, <1>8, <2>1 DEF DueIn, RuleExists, run
  <2>3. \A q, d : Accounted(q, d)' <=> Accounted(q, d)
    BY <1>0 DEF Accounted, Found
  <2>4. \A q \in run.seen : \A d : DueIn(w, q, d) => Accounted(q, d)
    BY DEF RecurringInv, Covered, run
  <2>5. QED
    BY <1>5, <1>8, <2>1, <2>2, <2>3, <2>4 DEF Covered
<1>10. QED
  BY <1>0, <1>1, <1>2, <1>3, <1>7, <1>8, <1>9, RunMovesOn

\* Looking up the next date: the row is there, or the date is missing.
LEMMA LookUpKeeps ==
    ASSUME RecurringInv, NEW w \in CeleryWorkers, NEW d \in runs[w].dates, LookUp(w, d)
    PROVE  RecurringInv'
<1> PICK run : run = runs[w]
  OBVIOUS
<1> DEFINE s == run.current
<1> PICK missing : missing = IF Found(s.id, s.rule.kind, <<d, s.rule.time>>) THEN NoDate ELSE d
  OBVIOUS
<1> DEFINE new == [run EXCEPT !.dates = run.dates \ {d}, !.missing = missing]
<1>0. run.missing = NoDate /\ UNCHANGED <<today, rules, rows, undone>>
  BY DEF LookUp
<1>1. runs' = [runs EXCEPT ![w] = new]
  BY DEF LookUp
<1>2. run.current # NoRule
  BY RunFacts
<1>3. /\ run \in Run /\ run.from <= LastDay /\ run.busy /\ WasRead(s)
      /\ \A q \in run.todo \cup run.seen : WasRead(q)
  BY <1>2, RunFacts
<1>4. missing = NoDate => Accounted(s, d)
  BY InputAssumption, <1>3 DEF Accounted, Run
<1>5. missing \in Nat \cup {NoDate} /\ (missing # NoDate => missing = d)
  BY <1>3 DEF Run
<1>6. Covered(w)
  BY DEF RecurringInv
<1>7. run.dates \ {d} \in SUBSET Nat
  BY <1>3 DEF Run
<1>8. new \in Run
  BY <1>3, <1>5, <1>7 DEF Run
<1>9. /\ new.busy = run.busy /\ new.from = run.from /\ new.todo = run.todo
      /\ new.current = run.current /\ new.dates = run.dates \ {d} /\ new.missing = missing
      /\ new.seen = run.seen
  BY <1>3 DEF Run
<1> HIDE DEF new
<1>10. Covered(w)'
  <2>1. runs'[w] = new
    BY <1>1, RunWritten
  <2>2. \A q, e : DueIn(w, q, e)' <=> DueIn(w, q, e)
    BY <1>0, <1>9, <2>1 DEF DueIn, RuleExists
  <2>3. \A q, e : Accounted(q, e)' <=> Accounted(q, e)
    BY <1>0 DEF Accounted, Found
  <2>4. \A q \in run.seen : \A e : DueIn(w, q, e) => Accounted(q, e)
    BY <1>6 DEF Covered
  <2>5. \A e : DueIn(w, s, e) => e \in run.dates \/ e = NoDate \/ Accounted(s, e)
    BY <1>0, <1>2, <1>6 DEF Covered
  <2>6. \A e : ~DueIn(w, s, NoDate)
    <3>1. run.from \in Nat /\ run.from + Window \in Nat
      BY RunFacts
    <3>2. NoDate \notin run.from .. run.from + Window
      BY <3>1, InputAssumption
    <3>3. QED
      BY <3>2 DEF DueIn
  <2>7. \A e : DueIn(w, s, e) => e \in run.dates \ {d} \/ e = missing \/ Accounted(s, e)
    BY <1>4, <1>5, <2>5, <2>6
  <2> HIDE DEF s
  <2>8. \A e : DueIn(w, new.current, e)' =>
          e \in new.dates \/ e = new.missing \/ Accounted(new.current, e)'
    BY <1>9, <2>2, <2>3, <2>7 DEF s
  <2>9. \A q \in new.seen : \A e : DueIn(w, q, e)' => Accounted(q, e)'
    BY <1>9, <2>2, <2>3, <2>4
  <2>10. QED
    BY <2>1, <2>8, <2>9 DEF Covered
<1>11. QED
  BY <1>0, <1>1, <1>2, <1>3, <1>8, <1>9, <1>10, RunMovesOn

\* A rule is done: its dates are looked up, and none is missing.
LEMMA RuleDoneKeeps ==
    ASSUME RecurringInv, NEW w \in CeleryWorkers, RuleDone(w)
    PROVE  RecurringInv'
<1> PICK run : run = runs[w]
  OBVIOUS
<1> DEFINE s == run.current
           new == [run EXCEPT !.current = NoRule, !.seen = run.seen \cup {s}]
<1>0. /\ s # NoRule /\ run.dates = {} /\ run.missing = NoDate
      /\ UNCHANGED <<today, rules, rows, undone>>
  BY DEF RuleDone
<1>1. runs' = [runs EXCEPT ![w] = new]
  BY DEF RuleDone
<1>2. /\ run \in Run /\ run.from <= LastDay /\ run.busy /\ WasRead(s) /\ s \in Snapshot
      /\ \A q \in run.todo \cup run.seen : WasRead(q)
      /\ run.from \in Nat /\ run.from + Window \in Nat
  BY <1>0, RunFacts
<1>3. \A q \in run.seen \cup {s} : \A e : DueIn(w, q, e) => Accounted(q, e)
  <2>1. \A e : DueIn(w, s, e) => e = NoDate \/ Accounted(s, e)
    BY <1>0 DEF RecurringInv, Covered
  <2>2. ~DueIn(w, s, NoDate)
    BY <1>2, InputAssumption DEF DueIn
  <2>3. \A q \in run.seen : \A e : DueIn(w, q, e) => Accounted(q, e)
    BY DEF RecurringInv, Covered
  <2>4. QED
    BY <2>1, <2>2, <2>3
<1> HIDE DEF s
<1>4. run.seen \cup {s} \in SUBSET Snapshot
  BY <1>2 DEF Run
<1>5. new \in Run
  BY <1>2, <1>4 DEF Run
<1>6. /\ new.busy = run.busy /\ new.from = run.from /\ new.todo = run.todo
      /\ new.current = NoRule /\ new.dates = run.dates /\ new.missing = run.missing
      /\ new.seen = run.seen \cup {s}
  BY <1>2 DEF Run
<1> HIDE DEF new
<1>7. Covered(w)'
  <2>1. runs'[w] = new
    BY <1>1, RunWritten
  <2>2. \A q, e : DueIn(w, q, e)' <=> DueIn(w, q, e)
    BY <1>0, <1>6, <2>1 DEF DueIn, RuleExists
  <2>3. \A q, e : Accounted(q, e)' <=> Accounted(q, e)
    BY <1>0 DEF Accounted, Found
  <2>4. QED
    BY <1>3, <1>6, <2>1, <2>2, <2>3 DEF Covered
<1>8. QED
  BY <1>0, <1>1, <1>2, <1>5, <1>6, <1>7, RunMovesOn

\* A run that stops forgets what it did; what was undone is forgotten with the
\* last of them.
LEMMA StopKeeps ==
    ASSUME RecurringInv, NEW w \in CeleryWorkers, Stop(w)
    PROVE  RecurringInv'
<1>0. runs' = [runs EXCEPT ![w] = NotRunning] /\ UNCHANGED <<today, rules, rows>>
  BY DEF Stop
<1>1. NotRunning \in Run
  BY DEF NotRunning, Run
<1>2. /\ NotRunning.from = 0 /\ NotRunning.current = NoRule /\ NotRunning.todo = {}
      /\ NotRunning.seen = {} /\ NotRunning.missing = NoDate /\ NotRunning.dates = {}
      /\ ~NotRunning.busy
  BY DEF NotRunning
<1>3. rows' \subseteq Row /\ RowsAsMade' /\ StartsApart'
  BY <1>0, FewerRows
<1>4. undone' \subseteq [rule : Rules, kind : Kinds, start : Nat \X Nat]
  BY DEF Stop, RecurringInv, RecurringTypeOK
<1>5. \A v \in CeleryWorkers \ {w} : StillAccounted \/ ~runs[v].busy
  <2>1. CASE \E v \in CeleryWorkers \ {w} : runs[v].busy
    <3>1. undone' = undone
      BY <2>1 DEF Stop
    <3>2. QED
      BY <1>0, <3>1, NothingLost
  <2>2. QED
    BY <2>1
<1>6. Covered(w)'
  <2>1. runs'[w] = NotRunning
    BY <1>0, RunWritten
  <2>2. QED
    BY <1>2, <2>1 DEF Covered
<1>7. 0 <= LastDay
  BY WindowAssumption
<1>8. QED
  BY <1>0, <1>1, <1>2, <1>3, <1>4, <1>5, <1>6, <1>7, RunStep

\* The insert: the unique constraint lets in only what is not yet there.
LEMMA CreateKeeps ==
    ASSUME RecurringInv, NEW w \in CeleryWorkers, Create(w)
    PROVE  RecurringInv'
<1> PICK run : run = runs[w]
  OBVIOUS
<1> DEFINE s == run.current
           d == run.missing
           new == [run EXCEPT !.missing = NoDate]
           row == NewRow(s, d)
           made == Unique(s, d) /\ RuleExists(s.id)
<1>0. d # NoDate /\ UNCHANGED <<today, rules, undone>>
  BY DEF Create
<1>1. runs' = [runs EXCEPT ![w] = new]
  BY DEF Create, RecurringInv, RecurringTypeOK
<1>2. rows' = IF made THEN rows \cup {row} ELSE rows
  BY DEF Create
<1>3. s # NoRule
  BY <1>0, RunFacts
<1>4. /\ run \in Run /\ run.from <= LastDay /\ run.busy /\ WasRead(s) /\ s \in Snapshot
      /\ \A q \in run.todo \cup run.seen : WasRead(q)
  BY <1>3, RunFacts
<1>5. d \in Nat
  BY <1>0, <1>4 DEF Run
<1>6. Covered(w)
  BY DEF RecurringInv
<1> HIDE DEF d, s
<1>7. /\ s.id \in Rules /\ s.rule.kind \in Kinds /\ s.rule.time \in Nat
      /\ DocumentTime(s.rule.kind, s.rule.time)
  BY <1>4 DEF Snapshot, Rule, WasRead
<1>8. /\ row.rule = s.id /\ row.kind = s.rule.kind /\ row.start = <<d, s.rule.time>>
      /\ row.occurrence = d /\ row.time = s.rule.time /\ row.moved = FALSE
  BY DEF NewRow
<1>9. made => row \in Row
  <2> DEFINE alike == {q \in rows : q.rule = s.id /\ q.kind = s.rule.kind
                                      /\ q.start = <<d, s.rule.time>>}
  <2>1. made => alike = {}
    BY DEF Unique, Found
  <2> HIDE DEF alike
  <2>2. made => Cardinality(alike) \in Nat
    BY <2>1, FS_EmptySet
  <2>3. row = [rule |-> s.id, kind |-> s.rule.kind, start |-> <<d, s.rule.time>>,
               occurrence |-> d, time |-> s.rule.time, moved |-> FALSE,
               copy |-> Cardinality(alike)]
    BY DEF NewRow, alike
  <2>4. QED
    BY <1>5, <1>7, <2>2, <2>3 DEF Row
<1> HIDE DEF row
<1>10. rows' \subseteq Row
  BY <1>2, <1>9 DEF RecurringInv, RecurringTypeOK
<1>11. RowsAsMade'
  <2> SUFFICES ASSUME NEW q \in rows'
               PROVE  /\ ~q.moved => q.start = <<q.occurrence, q.time>>
                      /\ q.kind # "shift" => ~q.moved
                      /\ DocumentTime(q.kind, q.time)
    BY DEF RowsAsMade
  <2>1. CASE q \in rows
    BY <2>1 DEF RecurringInv, RowsAsMade
  <2>2. CASE q = row
    BY <1>7, <1>8, <2>2
  <2>3. QED
    BY <1>2, <2>1, <2>2
<1>12. StartsApart'
  <2>1. \A a, b \in rows : a.rule = b.rule /\ a.kind = b.kind /\ a.start = b.start => a = b
    BY DEF RecurringInv, StartsApart
  <2>2. made => \A q \in rows :
                  ~(q.rule = row.rule /\ q.kind = row.kind /\ q.start = row.start)
    BY <1>8 DEF Unique, Found
  <2> HIDE DEF made
  <2>3. QED
    BY <1>2, <2>1, <2>2 DEF StartsApart
<1>13. StillAccounted
  BY <1>0, <1>2, NothingLost
<1>14. undone' \subseteq [rule : Rules, kind : Kinds, start : Nat \X Nat]
  BY <1>0 DEF RecurringInv, RecurringTypeOK
<1>15. RuleExists(s.id) => Accounted(s, d)'
  <2>1. ASSUME RuleExists(s.id)
        PROVE  Found(s.id, s.rule.kind, <<d, s.rule.time>>)'
    <3>1. CASE made
      <4>1. row \in rows'
        BY <1>2, <3>1
      <4>2. QED
        BY <1>8, <4>1 DEF Found
    <3>2. CASE ~made
      <4>1. rows' = rows /\ Found(s.id, s.rule.kind, <<d, s.rule.time>>)
        BY <1>2, <2>1, <3>2 DEF Unique
      <4>2. QED
        BY <4>1 DEF Found
    <3>3. QED
      BY <3>1, <3>2
  <2>2. QED
    BY <2>1 DEF Accounted
<1> HIDE DEF made
<1>16. new \in Run
  BY <1>4 DEF Run
<1>17. /\ new.busy = run.busy /\ new.from = run.from /\ new.todo = run.todo
       /\ new.current = s /\ new.dates = run.dates /\ new.missing = NoDate
       /\ new.seen = run.seen
  BY <1>4 DEF Run, s
<1> HIDE DEF new
<1>18. Covered(w)'
  <2>1. runs'[w] = new
    BY <1>1, RunWritten
  <2>2. \A q, e : DueIn(w, q, e)' <=> DueIn(w, q, e)
    BY <1>0, <1>17, <2>1 DEF DueIn, RuleExists
  <2>3. \A e : Accounted(s, e) /\ RuleExists(s.id) => Accounted(s, e)'
    BY <1>0, <1>4, <1>13 DEF StillAccounted, RuleExists
  <2>4. \A q \in run.seen : q \in Snapshot /\ WasRead(q)
    BY RunFacts
  <2>5. \A q \in run.seen : \A e : Accounted(q, e) /\ RuleExists(q.id) => Accounted(q, e)'
    BY <1>0, <1>13, <2>4 DEF StillAccounted, RuleExists
  <2>6. \A q \in run.seen : \A e : DueIn(w, q, e) => Accounted(q, e)'
    BY <1>6, <2>5 DEF Covered, DueIn
  <2>7. \A e : DueIn(w, s, e) => e \in run.dates \/ e = d \/ Accounted(s, e)
    BY <1>3, <1>6 DEF Covered, s, d
  <2>8. \A e : DueIn(w, s, e) => e \in run.dates \/ Accounted(s, e)'
    BY <1>15, <2>3, <2>7 DEF DueIn
  <2>9. QED
    BY <1>17, <2>1, <2>2, <2>6, <2>8 DEF Covered
<1>19. QED
  BY <1>0, <1>1, <1>3, <1>4, <1>10, <1>11, <1>12, <1>13, <1>14, <1>16, <1>17, <1>18, RunStep

\* Every step keeps the invariant.
LEMMA RecurringStep == ASSUME RecurringInv, [RecurringNext]_recurringVars PROVE RecurringInv'
<1>1. CASE DayPasses
  BY <1>1, DayPassesKeeps
<1>2. CASE Manage
  <2>1. ASSUME NEW r \in Rules, PauseRule(r) \/ DestroyRule(r)
        PROVE  RecurringInv'
    BY <2>1, PauseRuleKeeps, DestroyRuleKeeps
  <2>2. ASSUME NEW r \in Rules, NEW choice \in RuleChoices,
               CreateRule(r, choice) \/ EditRule(r, choice)
        PROVE  RecurringInv'
    BY <2>2, WriteRuleKeeps
  <2>3. ASSUME NEW row \in rows, DestroyRow(row)
        PROVE  RecurringInv'
    BY <2>3, DestroyRowKeeps
  <2>4. ASSUME NEW row \in rows, NEW start \in Slots, MoveShift(row, start)
        PROVE  RecurringInv'
    BY <2>4, MoveShiftKeeps
  <2>5. QED
    BY <1>2, <2>1, <2>2, <2>3, <2>4 DEF Manage
<1>3. ASSUME NEW w \in CeleryWorkers, Expand(w)
      PROVE  RecurringInv'
  <2>1. CASE BeginRun(w, {"shift"}) \/ BeginRun(w, {"invoice", "bill"})
    BY <2>1, BeginRunKeeps
  <2>2. ASSUME NEW s \in runs[w].todo, NextRule(w, s)
        PROVE  RecurringInv'
    BY <2>2, NextRuleKeeps
  <2>3. ASSUME NEW d \in runs[w].dates, LookUp(w, d)
        PROVE  RecurringInv'
    BY <2>3, LookUpKeeps
  <2>4. CASE Create(w)
    BY <2>4, CreateKeeps
  <2>5. CASE Abort(w) \/ EndRun(w)
    BY <2>5, StopKeeps DEF Abort, EndRun
  <2>6. CASE RuleDone(w)
    BY <2>6, RuleDoneKeeps
  <2>7. QED
    BY <1>3, <2>1, <2>2, <2>3, <2>4, <2>5, <2>6 DEF Expand
<1>4. ASSUME NEW w \in CeleryWorkers, Crash(w)
      PROVE  RecurringInv'
  BY <1>4, StopKeeps DEF Crash
<1>5. CASE UNCHANGED recurringVars
  <2>1. UNCHANGED <<today, rules, rows, runs, undone>>
    BY <1>5 DEF recurringVars
  <2>2. RecurringTypeOK' /\ RulesInOrder' /\ StillAccounted
    BY <2>1, NothingLost DEF RecurringInv, RecurringTypeOK, RulesInOrder, RuleExists
  <2>3. RowsAsMade' /\ StartsApart'
    BY <2>1, FewerRows
  <2>4. QED
    BY <2>1, <2>2, <2>3, ManagerStep
<1>6. QED
  BY <1>1, <1>2, <1>3, <1>4, <1>5 DEF RecurringNext

\* The invariant of the expansion holds always.
LEMMA RecurringInvariant == RecurringSpec => []RecurringInv
<1>1. QED
  BY RecurringInitHolds, RecurringStep, PTL DEF RecurringSpec

\* Rules, rows and runs are what the code says they are.
THEOREM RecurringTypeCorrect == RecurringSpec => []RecurringTypeOK
<1>1. RecurringInv => RecurringTypeOK
  BY DEF RecurringInv
<1>2. QED
  BY <1>1, RecurringInvariant, PTL

\* However many runs and managers interleave, the unique constraints leave an
\* occurrence of a rule one document of a kind, and one shift unless a manager
\* moved one or the template's time changed (get_or_create and the pre-check).
THEOREM OneRowPerOccurrence == RecurringSpec => []OccurrenceOnce
<1>1. RecurringInv => OccurrenceOnce
  <2> SUFFICES ASSUME RecurringInv, NEW a \in rows, NEW b \in rows, a # b, a.rule = b.rule,
                      a.kind = b.kind, a.occurrence = b.occurrence,
                      ~(a.kind = "shift" /\ (a.moved \/ b.moved \/ a.time # b.time))
               PROVE  FALSE
    BY DEF OccurrenceOnce
  <2>1. /\ ~a.moved => a.start = <<a.occurrence, a.time>>
        /\ ~b.moved => b.start = <<b.occurrence, b.time>>
        /\ a.kind # "shift" => ~a.moved /\ a.time = 0
        /\ b.kind # "shift" => ~b.moved /\ b.time = 0
    BY DEF RecurringInv, RowsAsMade, DocumentTime
  <2>2. ~(a.start = b.start)
    BY DEF RecurringInv, StartsApart
  <2>3. QED
    BY <2>1, <2>2
<1>2. QED
  BY <1>1, RecurringInvariant, PTL

\* What a run has gone past is there, although it looks and inserts apart and
\* the manager may edit in between.
THEOREM WindowsAreCovered == RecurringSpec => []RunCoversWindow
<1>1. RecurringInv => RunCoversWindow
  <2> SUFFICES ASSUME RecurringInv, NEW w \in CeleryWorkers, NEW s \in runs[w].seen,
                      NEW d \in runs[w].from .. runs[w].from + Window,
                      Due(s.rule, d), RuleExists(s.id)
               PROVE  Accounted(s, d)
    BY DEF RunCoversWindow, Accounted
  <2>1. DueIn(w, s, d)
    BY DEF DueIn
  <2>2. QED
    BY <2>1 DEF RecurringInv, Covered
<1>2. QED
  BY <1>1, RecurringInvariant, PTL

(***************************************************************************)
(* The sums of a pay stub.                                                 *)
(***************************************************************************)

\* The ticks worked in a week, and what a week's hours give in regular time
\* and in overtime.
Ticks(cards) == [i \in DOMAIN cards |-> Worked(cards[i])]
InWeek(cards, counted, week) == {i \in counted : WeekOf(cards[i].in) = week}
WeekTicks(cards, counted, week) == SumOver(Ticks(cards), InWeek(cards, counted, week))
Upto(h, threshold) == IF h > threshold THEN threshold ELSE h
Beyond(h, threshold) == IF h > threshold THEN h - threshold ELSE 0
Regulars(cards, counted, threshold) ==
    [k \in Int |-> Upto(WeekHours(cards, counted, k), threshold)]
Overtimes(cards, counted, threshold) ==
    [k \in Int |-> Beyond(WeekHours(cards, counted, k), threshold)]

\* The hours of a week are its ticks, rounded.
LEMMA WeekIsSum ==
    ASSUME NEW cards, NEW counted \in SUBSET DOMAIN cards, IsFiniteSet(counted), NEW week
    PROVE  WeekHours(cards, counted, week) =
             Quantize(WeekTicks(cards, counted, week), TicksPerHundredth)
<1> DEFINE S == InWeek(cards, counted, week)
           f == Ticks(cards)
           iter == CHOOSE g : g = [s \in SUBSET S |->
                     IF s = {} THEN 0
                     ELSE Worked(cards[Picked(s)]) + g[s \ {Picked(s)}]]
<1>1. IsFiniteSet(S) /\ S \subseteq DOMAIN cards
  BY FS_Subset DEF InWeek
<1>2. MapThenSumSet(LAMBDA i : Worked(cards[i]), S) = iter[S]
  BY DEF MapThenSumSet, MapThenFoldSet, Picked
<1>3. ASSUME NEW g
      PROVE  [s \in SUBSET S |-> IF s = {} THEN 0
                                 ELSE Worked(cards[Picked(s)]) + g[s \ {Picked(s)}]]
             = [s \in SUBSET S |-> IF s = {} THEN 0 ELSE f[Picked(s)] + g[s \ {Picked(s)}]]
  <2>1. ASSUME NEW s \in SUBSET S, s # {}
        PROVE  f[Picked(s)] = Worked(cards[Picked(s)])
    <3>1. Picked(s) \in DOMAIN cards
      BY <1>1, <2>1, PickedIsIn
    <3>2. QED
      BY <3>1 DEF Ticks
  <2> HIDE DEF f, S
  <2>2. QED
    BY <2>1
<1>4. PICK g : Adds(g, f, S)
  <2> HIDE DEF f, S
  <2>1. QED
    BY <1>1, AddsExists
<1>5. g = [s \in SUBSET S |-> IF s = {} THEN 0
                              ELSE Worked(cards[Picked(s)]) + g[s \ {Picked(s)}]]
  BY <1>3, <1>4 DEF Adds
<1>6. iter = [s \in SUBSET S |-> IF s = {} THEN 0
                                 ELSE Worked(cards[Picked(s)]) + iter[s \ {Picked(s)}]]
  <2> HIDE DEF S
  <2>1. QED
    BY <1>5
<1> HIDE DEF iter
<1>7. Adds(iter, f, S)
  BY <1>3, <1>6 DEF Adds
<1> HIDE DEF f, S
<1>8. iter[S] = SumOver(f, S)
  BY <1>1, <1>7, SumIsUnique
<1>9. QED
  BY <1>2, <1>8 DEF WeekHours, WeekTicks, f, S, InWeek

\* Regular hours are the sum of the regular hours of the weeks.
LEMMA RegularIsSum ==
    ASSUME NEW cards, NEW counted, IsFiniteSet(Weeks(cards, counted)),
           Weeks(cards, counted) \subseteq Int, NEW threshold
    PROVE  RegularHours(cards, counted, threshold) =
             SumOver(Regulars(cards, counted, threshold), Weeks(cards, counted))
<1> DEFINE S == Weeks(cards, counted)
           f == Regulars(cards, counted, threshold)
           e(k) == Upto(WeekHours(cards, counted, k), threshold)
           iter == CHOOSE g : g = [s \in SUBSET S |->
                     IF s = {} THEN 0 ELSE e(Picked(s)) + g[s \ {Picked(s)}]]
<1>1. IsFiniteSet(S) /\ S \subseteq Int
  OBVIOUS
<1>2. RegularHours(cards, counted, threshold) = iter[S]
  BY DEF RegularHours, Upto, MapThenSumSet, MapThenFoldSet, Picked
<1>3. ASSUME NEW g
      PROVE  [s \in SUBSET S |-> IF s = {} THEN 0 ELSE e(Picked(s)) + g[s \ {Picked(s)}]]
             = [s \in SUBSET S |-> IF s = {} THEN 0 ELSE f[Picked(s)] + g[s \ {Picked(s)}]]
  <2>1. ASSUME NEW s \in SUBSET S, s # {}
        PROVE  f[Picked(s)] = e(Picked(s))
    <3>1. Picked(s) \in Int
      BY <1>1, <2>1, PickedIsIn
    <3>2. QED
      BY <3>1 DEF Regulars
  <2> HIDE DEF f, S, e
  <2>2. QED
    BY <2>1
<1>4. PICK g : Adds(g, f, S)
  <2> HIDE DEF f, S
  <2>1. QED
    BY <1>1, AddsExists
<1> HIDE DEF e
<1>5. g = [s \in SUBSET S |-> IF s = {} THEN 0 ELSE e(Picked(s)) + g[s \ {Picked(s)}]]
  BY <1>3, <1>4 DEF Adds
<1>6. iter = [s \in SUBSET S |-> IF s = {} THEN 0
                                 ELSE e(Picked(s)) + iter[s \ {Picked(s)}]]
  <2> HIDE DEF S
  <2>1. QED
    BY <1>5
<1> HIDE DEF iter
<1>7. Adds(iter, f, S)
  BY <1>3, <1>6 DEF Adds
<1> HIDE DEF f, S
<1>8. iter[S] = SumOver(f, S)
  BY <1>1, <1>7, SumIsUnique
<1>9. QED
  BY <1>2, <1>8 DEF f, S

\* Overtime is the sum of the overtime of the weeks.
LEMMA OvertimeIsSum ==
    ASSUME NEW cards, NEW counted, IsFiniteSet(Weeks(cards, counted)),
           Weeks(cards, counted) \subseteq Int, NEW threshold
    PROVE  OvertimeHours(cards, counted, threshold) =
             SumOver(Overtimes(cards, counted, threshold), Weeks(cards, counted))
<1> DEFINE S == Weeks(cards, counted)
           f == Overtimes(cards, counted, threshold)
           e(k) == Beyond(WeekHours(cards, counted, k), threshold)
           iter == CHOOSE g : g = [s \in SUBSET S |->
                     IF s = {} THEN 0 ELSE e(Picked(s)) + g[s \ {Picked(s)}]]
<1>1. IsFiniteSet(S) /\ S \subseteq Int
  OBVIOUS
<1>2. OvertimeHours(cards, counted, threshold) = iter[S]
  BY DEF OvertimeHours, Beyond, MapThenSumSet, MapThenFoldSet, Picked
<1>3. ASSUME NEW g
      PROVE  [s \in SUBSET S |-> IF s = {} THEN 0 ELSE e(Picked(s)) + g[s \ {Picked(s)}]]
             = [s \in SUBSET S |-> IF s = {} THEN 0 ELSE f[Picked(s)] + g[s \ {Picked(s)}]]
  <2>1. ASSUME NEW s \in SUBSET S, s # {}
        PROVE  f[Picked(s)] = e(Picked(s))
    <3>1. Picked(s) \in Int
      BY <1>1, <2>1, PickedIsIn
    <3>2. QED
      BY <3>1 DEF Overtimes
  <2> HIDE DEF f, S, e
  <2>2. QED
    BY <2>1
<1>4. PICK g : Adds(g, f, S)
  <2> HIDE DEF f, S
  <2>1. QED
    BY <1>1, AddsExists
<1> HIDE DEF e
<1>5. g = [s \in SUBSET S |-> IF s = {} THEN 0 ELSE e(Picked(s)) + g[s \ {Picked(s)}]]
  BY <1>3, <1>4 DEF Adds
<1>6. iter = [s \in SUBSET S |-> IF s = {} THEN 0
                                 ELSE e(Picked(s)) + iter[s \ {Picked(s)}]]
  <2> HIDE DEF S
  <2>1. QED
    BY <1>5
<1> HIDE DEF iter
<1>7. Adds(iter, f, S)
  BY <1>3, <1>6 DEF Adds
<1> HIDE DEF f, S
<1>8. iter[S] = SumOver(f, S)
  BY <1>1, <1>7, SumIsUnique
<1>9. QED
  BY <1>2, <1>8 DEF f, S

\* What two parts have more than the whole.
Excess(part1, part2, whole) == part1 + part2 - whole

\* f sums up over D and E what f1 does over D and f2 over E, but for the one
\* element the two sets may share.
Splits(f, f1, f2, D, E, k0) ==
    /\ IsFiniteSet(D) /\ IsFiniteSet(E) /\ D \cap E \subseteq {k0}
    /\ \A k \in D \cup E \cup {k0} : f[k] \in Int /\ f1[k] \in Int /\ f2[k] \in Int
    /\ \A k \in D \ {k0} : f[k] = f1[k]
    /\ \A k \in E \ {k0} : f[k] = f2[k]
    /\ k0 \notin D => f1[k0] = 0
    /\ k0 \notin E => f2[k0] = 0
    /\ k0 \notin D \cup E => f[k0] = 0

\* Two sums whose sets share at most the element k0 differ from the sum over
\* both sets only by what they make of k0.
LEMMA SumSplit ==
    ASSUME NEW f, NEW f1, NEW f2, NEW D, NEW E, NEW k0, Splits(f, f1, f2, D, E, k0)
    PROVE  /\ SumOver(f, D \cup E) \in Int /\ SumOver(f1, D) \in Int /\ SumOver(f2, E) \in Int
           /\ Excess(SumOver(f1, D), SumOver(f2, E), SumOver(f, D \cup E))
                = Excess(f1[k0], f2[k0], f[k0])
<1> USE DEF Splits, Excess
<1> DEFINE D0 == D \ {k0}
           E0 == E \ {k0}
<1>1. IsFiniteSet(D0) /\ IsFiniteSet(E0) /\ IsFiniteSet(D \cup E) /\ D0 \cap E0 = {}
  BY FS_RemoveElement, FS_Union
<1>2. ASSUME NEW h, NEW s, IsFiniteSet(s), \A k \in s \cup {k0} : h[k] \in Int,
             k0 \notin s => h[k0] = 0
      PROVE  SumOver(h, s) = h[k0] + SumOver(h, s \ {k0}) /\ SumOver(h, s \ {k0}) \in Int
  <2>1. IsFiniteSet(s \ {k0}) /\ \A k \in s \ {k0} : h[k] \in Int
    BY <1>2, FS_RemoveElement
  <2>2. SumOver(h, s \ {k0}) \in Int
    BY <2>1, SumType
  <2>3. CASE k0 \in s
    BY <1>2, <2>2, <2>3, SumRemove
  <2>4. CASE k0 \notin s
    <3>1. s \ {k0} = s
      BY <2>4
    <3>2. h[k0] = 0 /\ SumOver(h, s) \in Int
      BY <1>2, <2>2, <2>4, <3>1
    <3>3. SumOver(h, s) = 0 + SumOver(h, s)
      BY <3>2
    <3>4. QED
      BY <3>1, <3>2, <3>3
  <2>5. QED
    BY <2>3, <2>4
<1>3. SumOver(f1, D) = f1[k0] + SumOver(f1, D0) /\ SumOver(f1, D0) \in Int
  BY <1>2
<1>4. SumOver(f2, E) = f2[k0] + SumOver(f2, E0) /\ SumOver(f2, E0) \in Int
  BY <1>2
<1>5. (D \cup E) \ {k0} = D0 \cup E0
  OBVIOUS
<1>6. SumOver(f, D \cup E) = f[k0] + SumOver(f, D0 \cup E0)
  <2>1. SumOver(f, D \cup E) = f[k0] + SumOver(f, (D \cup E) \ {k0})
    BY <1>1, <1>2
  <2>2. QED
    BY <1>5, <2>1
<1>7. SumOver(f, D0 \cup E0) = SumOver(f, D0) + SumOver(f, E0)
  <2>1. \A k \in D0 \cup E0 : f[k] \in Int
    OBVIOUS
  <2> HIDE DEF D0, E0
  <2>2. QED
    BY <1>1, <2>1, SumParts
<1>8. SumOver(f, D0) = SumOver(f1, D0) /\ SumOver(f, E0) = SumOver(f2, E0)
  <2>1. (\A k \in D0 : f[k] = f1[k]) /\ \A k \in E0 : f[k] = f2[k]
    OBVIOUS
  <2> HIDE DEF D0, E0
  <2>2. QED
    BY <1>1, <2>1, SumSame
<1> DEFINE a == SumOver(f1, D0)
           b == SumOver(f2, E0)
<1>9. /\ SumOver(f1, D) = f1[k0] + a /\ SumOver(f2, E) = f2[k0] + b
      /\ SumOver(f, D \cup E) = f[k0] + (a + b) /\ a \in Int /\ b \in Int
  BY <1>3, <1>4, <1>6, <1>7, <1>8
<1>10. f[k0] \in Int /\ f1[k0] \in Int /\ f2[k0] \in Int
  OBVIOUS
<1> HIDE DEF a, b, D0, E0
<1>11. QED
  BY <1>9, <1>10

\* Quantize is off by at most a half, keeps the sign and the order, and what
\* it makes of a sum is within one of the sum of what it makes of the parts.
LEMMA Quantized ==
    ASSUME NEW d \in Nat \ {0}, NEW n \in Nat
    PROVE  /\ Quantize(n, d) \in Nat
           /\ 2 * n - d <= 2 * (d * Quantize(n, d))
           /\ 2 * (d * Quantize(n, d)) <= 2 * n + d
<1> DEFINE q == n \div d
           r == n % d
<1>1. q \in Nat /\ r \in 0 .. d - 1 /\ n = d * q + r
  OBVIOUS
<1> DEFINE e == d * q
           e1 == d * (q + 1)
<1> HIDE DEF q, r
<1>2. e \in Nat /\ e1 = e + d
  BY <1>1
<1>3. CASE Quantize(n, d) = q
  <2>1. 2 * r <= d
    BY <1>1, <1>3 DEF Quantize, q, r
  <2>2. d * Quantize(n, d) = e
    BY <1>3
  <2>3. n = e + r
    BY <1>1
  <2> HIDE DEF e
  <2>4. QED
    BY <1>1, <1>2, <1>3, <2>1, <2>2, <2>3
<1>4. CASE Quantize(n, d) = q + 1 /\ Quantize(n, d) # q
  <2>1. 2 * r >= d
    BY <1>1, <1>4 DEF Quantize, q, r
  <2>2. d * Quantize(n, d) = e1
    BY <1>4
  <2>3. n = e + r
    BY <1>1
  <2> HIDE DEF e, e1
  <2>4. QED
    BY <1>1, <1>2, <1>4, <2>1, <2>2, <2>3
<1>5. QED
  BY <1>3, <1>4 DEF Quantize, q

\* Nothing is rounded to nothing.
LEMMA QuantizedNothing ==
    ASSUME NEW d \in Nat \ {0}
    PROVE  Quantize(0, d) = 0
<1>1. 0 \div d = 0 /\ 0 % d = 0
  OBVIOUS
<1>2. QED
  BY <1>1 DEF Quantize

\* More is not rounded to less.
LEMMA QuantizedInOrder ==
    ASSUME NEW d \in Nat \ {0}, NEW n \in Nat, NEW m \in Nat, n <= m
    PROVE  Quantize(n, d) <= Quantize(m, d)
<1> DEFINE x == Quantize(n, d)
           y == Quantize(m, d)
<1>1. /\ x \in Nat /\ 2 * (d * x) <= 2 * n + d
      /\ y \in Nat /\ 2 * m - d <= 2 * (d * y)
  BY Quantized
<1>2. CASE n = m
  BY <1>1, <1>2
<1>3. CASE n < m
  <2> HIDE DEF x, y
  <2>1. ASSUME x > y PROVE FALSE
    <3>1. PICK z \in Nat : x = y + 1 + z
      <4>1. x - y - 1 \in Nat /\ x = y + 1 + (x - y - 1)
        BY <1>1, <2>1
      <4>2. QED
        BY <4>1
    <3>2. d * x = d * y + d + d * z /\ d * z \in Nat /\ d * y \in Nat
      BY <1>1, <3>1
    <3> DEFINE a == d * x
               b == d * y
               c == d * z
    <3>3. a = b + d + c /\ c \in Nat /\ b \in Nat
      BY <3>2
    <3>4. 2 * a <= 2 * n + d /\ 2 * m - d <= 2 * b
      BY <1>1
    <3> HIDE DEF a, b, c
    <3>5. QED
      BY <1>3, <3>3, <3>4
  <2>2. QED
    BY <1>1, <2>1 DEF x, y
<1>4. QED
  BY <1>2, <1>3

\* Two parts rounded differ from the whole rounded by at most one.
LEMMA QuantizedSum ==
    ASSUME NEW d \in Nat \ {0}, NEW n \in Nat, NEW m \in Nat
    PROVE  Quantize(n, d) + Quantize(m, d) - Quantize(n + m, d) \in -1 .. 1
<1> DEFINE x == Quantize(n, d)
           y == Quantize(m, d)
           z == Quantize(n + m, d)
           w == x + y - z
<1>1. /\ x \in Nat /\ 2 * n - d <= 2 * (d * x) /\ 2 * (d * x) <= 2 * n + d
      /\ y \in Nat /\ 2 * m - d <= 2 * (d * y) /\ 2 * (d * y) <= 2 * m + d
  BY Quantized
<1>2. z \in Nat /\ 2 * (n + m) - d <= 2 * (d * z) /\ 2 * (d * z) <= 2 * (n + m) + d
  <2>1. n + m \in Nat
    OBVIOUS
  <2> HIDE DEF x, y, w
  <2>2. QED
    BY <2>1, Quantized
<1> HIDE DEF x, y, z
<1>3. d * w = d * x + d * y - d * z /\ d * x \in Int /\ d * y \in Int /\ d * z \in Int
  BY <1>1, <1>2
<1> DEFINE a == d * x
           b == d * y
           c == d * z
           v == d * w
<1>4. /\ v = a + b - c /\ a \in Int /\ b \in Int /\ c \in Int
      /\ 2 * n - d <= 2 * a /\ 2 * a <= 2 * n + d
      /\ 2 * m - d <= 2 * b /\ 2 * b <= 2 * m + d
      /\ 2 * (n + m) - d <= 2 * c /\ 2 * c <= 2 * (n + m) + d
  BY <1>1, <1>2, <1>3
<1>5. 2 * v <= 3 * d /\ 2 * v >= -(3 * d)
  <2> HIDE DEF a, b, c, v
  <2>1. QED
    BY <1>4
<1>6. w \in Int
  BY <1>1, <1>2
<1> HIDE DEF w
<1>7. ASSUME w >= 2 PROVE FALSE
  <2>1. d * w >= 2 * d
    BY <1>6, <1>7
  <2>2. v >= 2 * d /\ v \in Int
    BY <1>4, <2>1
  <2> HIDE DEF v
  <2>3. QED
    BY <1>5, <2>2
<1>8. ASSUME w <= -2 PROVE FALSE
  <2>1. d * w <= -(2 * d)
    BY <1>6, <1>8
  <2>2. v <= -(2 * d) /\ v \in Int
    BY <1>4, <2>1
  <2> HIDE DEF v
  <2>3. QED
    BY <1>5, <2>2
<1>9. w \in -1 .. 1
  BY <1>6, <1>7, <1>8
<1>10. QED
  BY <1>9 DEF w, x, y, z

(***************************************************************************)
(* The time clock.                                                         *)
(***************************************************************************)

\* A row's times are in the order things happened, and none is after t.
RowInOrder(card, t) ==
    /\ card.status = "clocked_in" =>
         /\ card.in + card.pause <= t
         /\ card.break # NoBreak => card.in + card.pause <= card.break /\ card.break <= t
    /\ card.status = "clocked_out" => card.in + card.pause <= card.out /\ card.out <= t

\* All rows are in order, and no stub is from the future.
RowsInOrder == \A i \in Entries : RowInOrder(entries[i], now)
StubsInOrder == \A s \in stubs : s.at \in Nat /\ s.at <= now

\* The inductive invariant of the time clock.
ClockInv == ClockTypeOK /\ RowsInOrder /\ StubsInOrder /\ InactiveNotWorking /\ PaidAsWorked

\* What a step may do to the rows: open one, or change or close one that is
\* open, and nothing that is closed is touched again.
RowsKept ==
    \A i \in Entries :
      \/ entries'[i] = entries[i]
      \/ /\ entries[i].status # "clocked_out"
         /\ entries'[i].status = "clocked_out" => entries'[i].out = now

\* Numbers of weeks are whole.
LEMMA WeeksAreWhole ==
    ASSUME ClockTypeOK, NEW counted \in SUBSET Entries
    PROVE  /\ IsFiniteSet(counted) /\ counted \subseteq DOMAIN entries
           /\ IsFiniteSet(Weeks(entries, counted))
           /\ Weeks(entries, counted) \subseteq Int
<1>1. IsFiniteSet(counted)
  BY FS_Subset, EntryAssumption
<1>2. counted \subseteq DOMAIN entries
  BY DEF ClockTypeOK
<1>3. \A i \in counted : WeekOf(entries[i].in) \in Int
  <2> SUFFICES ASSUME NEW i \in counted
               PROVE  WeekOf(entries[i].in) \in Int
    OBVIOUS
  <2>1. entries[i].in \in Nat
    BY DEF ClockTypeOK, Entry
  <2>2. QED
    BY <2>1, CalendarAssumption DEF WeekOf, Day
<1>4. IsFiniteSet(Weeks(entries, counted))
  <2> DEFINE f == [i \in counted |-> WeekOf(entries[i].in)]
  <2>1. f \in Surjection(counted, Weeks(entries, counted))
    BY DEF Surjection, Weeks
  <2> HIDE DEF f
  <2>2. QED
    BY <1>1, <2>1, FS_Surjection
<1>5. QED
  BY <1>1, <1>2, <1>3, <1>4 DEF Weeks

\* Hours come out the same as long as the times of the rows counted do.
LEMMA SameHours ==
    ASSUME NEW cards, NEW later, NEW counted, counted \subseteq DOMAIN cards,
           counted \subseteq DOMAIN later, IsFiniteSet(counted),
           Weeks(cards, counted) \subseteq Int, IsFiniteSet(Weeks(cards, counted)),
           \A i \in counted : later[i] = cards[i], NEW threshold
    PROVE  /\ RegularHours(later, counted, threshold) = RegularHours(cards, counted, threshold)
           /\ OvertimeHours(later, counted, threshold) = OvertimeHours(cards, counted, threshold)
<1>1. Weeks(later, counted) = Weeks(cards, counted)
  BY DEF Weeks
<1>2. ASSUME NEW k
      PROVE  WeekHours(later, counted, k) = WeekHours(cards, counted, k)
  <2> DEFINE s == InWeek(cards, counted, k)
  <2>1. InWeek(later, counted, k) = s
    BY DEF InWeek
  <2>2. IsFiniteSet(s) /\ \A i \in s : Ticks(later)[i] = Ticks(cards)[i]
    BY FS_Subset DEF InWeek, Ticks
  <2> HIDE DEF s
  <2>3. SumOver(Ticks(later), s) = SumOver(Ticks(cards), s)
    BY <2>2, SumSame
  <2>4. QED
    BY <2>1, <2>3, WeekIsSum DEF WeekTicks, s
<1>3. /\ Regulars(later, counted, threshold) = Regulars(cards, counted, threshold)
      /\ Overtimes(later, counted, threshold) = Overtimes(cards, counted, threshold)
  BY <1>2 DEF Regulars, Overtimes
<1>4. QED
  BY <1>1, <1>3, RegularIsSum, OvertimeIsSum

\* A stub keeps saying what its entries say when no closed row is touched and
\* no stub is written.
LEMMA StubsStand ==
    ASSUME ClockInv, ClockTypeOK', RowsKept, UNCHANGED stubs
    PROVE  PaidAsWorked'
<1> SUFFICES ASSUME NEW s \in stubs
             PROVE  /\ s.regular = RegularHours(entries', s.counted, s.threshold)
                    /\ s.overtime = OvertimeHours(entries', s.counted, s.threshold)
                    /\ \A i \in s.counted : /\ entries'[i].status = "clocked_out"
                                            /\ entries'[i].out <= s.at
                    /\ \A i \in CountedIn(s.member, s.period)' \ s.counted :
                         entries'[i].out >= s.at
  BY DEF PaidAsWorked
<1>1. /\ s.regular = RegularHours(entries, s.counted, s.threshold)
      /\ s.overtime = OvertimeHours(entries, s.counted, s.threshold)
      /\ \A i \in s.counted : entries[i].status = "clocked_out" /\ entries[i].out <= s.at
      /\ \A i \in CountedIn(s.member, s.period) \ s.counted : entries[i].out >= s.at
      /\ s.at \in Nat /\ s.at <= now /\ s.counted \subseteq Entries /\ now \in Nat
  BY DEF ClockInv, PaidAsWorked, StubsInOrder, ClockTypeOK
<1>2. \A i \in s.counted : entries'[i] = entries[i]
  BY <1>1 DEF RowsKept
<1>3. /\ IsFiniteSet(s.counted) /\ s.counted \subseteq DOMAIN entries
      /\ s.counted \subseteq DOMAIN entries'
      /\ IsFiniteSet(Weeks(entries, s.counted)) /\ Weeks(entries, s.counted) \subseteq Int
  <2>1. s.counted \subseteq DOMAIN entries'
    BY <1>1 DEF ClockTypeOK
  <2>2. QED
    BY <1>1, <2>1, WeeksAreWhole DEF ClockInv
<1>4. /\ RegularHours(entries', s.counted, s.threshold)
           = RegularHours(entries, s.counted, s.threshold)
      /\ OvertimeHours(entries', s.counted, s.threshold)
           = OvertimeHours(entries, s.counted, s.threshold)
  BY <1>2, <1>3, SameHours
<1>5. ASSUME NEW i \in CountedIn(s.member, s.period)' \ s.counted
      PROVE  entries'[i].out >= s.at
  <2>1. i \in Entries /\ entries'[i].status = "clocked_out"
    BY DEF CountedIn
  <2>2. CASE entries'[i] = entries[i]
    <3>1. i \in CountedIn(s.member, s.period) \ s.counted
      BY <2>1, <2>2 DEF CountedIn
    <3>2. QED
      BY <1>1, <2>2, <3>1
  <2>3. CASE entries'[i] # entries[i]
    BY <1>1, <2>1, <2>3 DEF RowsKept
  <2>4. QED
    BY <2>2, <2>3
<1>6. QED
  BY <1>1, <1>2, <1>4, <1>5
\* One row is replaced by another that is in order, and it was not closed.
LEMMA RowReplaced ==
    ASSUME ClockInv, NEW i \in Entries, NEW row \in Entry,
           entries' = [entries EXCEPT ![i] = row], now' = now,
           RowInOrder(row, now), entries[i].status # "clocked_out",
           row.status = "clocked_out" => row.out = now
    PROVE  /\ entries' \in [Entries -> Entry] /\ entries'[i] = row
           /\ RowsInOrder' /\ RowsKept
<1>1. entries \in [Entries -> Entry] /\ RowsInOrder
  BY DEF ClockInv, ClockTypeOK
<1>2. \A j \in Entries : entries'[j] = IF j = i THEN row ELSE entries[j]
  BY <1>1
<1>3. entries' \in [Entries -> Entry]
  BY <1>1
<1>4. RowsInOrder'
  BY <1>1, <1>2 DEF RowsInOrder, RowInOrder
<1>5. RowsKept
  BY <1>2 DEF RowsKept
<1>6. QED
  BY <1>2, <1>3, <1>4, <1>5

\* Nobody comes back on the clock by a step that opens no row and leaves the
\* memberships alone.
LEMMA NobodyOpened ==
    ASSUME InactiveNotWorking, UNCHANGED <<memberVars, lateEntries>>,
           \A i \in Entries, m \in Members : IsOpenFor(i, m)' => IsOpenFor(i, m)
    PROVE  InactiveNotWorking'
BY DEF InactiveNotWorking, Settled, memberVars

\* What a log row, a stub row and a row of the clock are made of.
LEMMA InitHolds == ClockInit => ClockInv
<1> SUFFICES ASSUME ClockInit PROVE ClockInv
  OBVIOUS
<1> USE MemberAssumption DEF ClockInit, MembershipInit
<1>1. Unused \in Entry /\ Unused.status = "none"
  BY DEF Unused, Entry, NoBreak
<1>2. ClockTypeOK
  BY <1>1 DEF ClockTypeOK, MembershipTypeOK
<1>3. RowsInOrder /\ StubsInOrder /\ PaidAsWorked
  BY <1>1 DEF RowsInOrder, RowInOrder, StubsInOrder, PaidAsWorked
<1>4. InactiveNotWorking
  BY <1>1 DEF InactiveNotWorking, IsOpenFor
<1>5. QED
  BY <1>2, <1>3, <1>4 DEF ClockInv

\* Time passes.
LEMMA TimePassesKeeps == ASSUME ClockInv, TimePasses PROVE ClockInv'
<1> USE DEF ClockInv, TimePasses
<1>1. now \in Nat /\ now' = now + 1 /\ UNCHANGED <<entries, stubs>>
  BY DEF ClockTypeOK
<1>2. ClockTypeOK'
  BY <1>1 DEF ClockTypeOK, MembershipTypeOK, memberVars
<1>3. RowsInOrder'
  <2> SUFFICES ASSUME NEW i \in Entries
               PROVE  RowInOrder(entries[i], now')
    BY <1>1 DEF RowsInOrder
  <2>1. entries[i] \in Entry /\ RowInOrder(entries[i], now)
    BY DEF RowsInOrder, ClockTypeOK
  <2>2. QED
    BY <1>1, <2>1 DEF RowInOrder, Entry, NoBreak
<1>4. StubsInOrder'
  BY <1>1 DEF StubsInOrder
<1>5. RowsKept
  BY <1>1 DEF RowsKept
<1>6. PaidAsWorked'
  BY <1>1, <1>2, <1>5, StubsStand
<1>7. InactiveNotWorking'
  BY NobodyOpened DEF IsOpenFor
<1>8. QED
  BY <1>2, <1>3, <1>4, <1>6, <1>7

\* Steps that leave the rows, the stubs and the time alone.
LEMMA RowsAloneKeeps ==
    ASSUME ClockInv, UNCHANGED <<now, entries, stubs, lateEntries>>,
           MembershipTypeOK', logs' = logs, admitted' \in [ClockWorkers -> Members \cup {Nobody}],
           \A m \in Members : Settled(m)' => Settled(m)
    PROVE  ClockInv'
<1> USE DEF ClockInv
<1>1. ClockTypeOK'
  BY DEF ClockTypeOK
<1>2. RowsInOrder' /\ StubsInOrder'
  BY DEF RowsInOrder, StubsInOrder
<1>3. PaidAsWorked'
  <2>1. RowsKept
    BY DEF RowsKept
  <2>2. QED
    BY <1>1, <2>1, StubsStand
<1>4. InactiveNotWorking'
  BY DEF InactiveNotWorking, IsOpenFor
<1>5. QED
  BY <1>1, <1>2, <1>3, <1>4

\* A request is let in or turned away.
LEMMA RequestsKeep ==
    ASSUME ClockInv, NEW w \in ClockWorkers, NEW m \in Members, TurnAway(w) \/ Admit(w, m)
    PROVE  ClockInv'
<1>1. /\ UNCHANGED <<now, entries, logs, stubs, lateEntries, memberVars>>
      /\ admitted' \in [ClockWorkers -> Members \cup {Nobody}]
  BY DEF ClockInv, ClockTypeOK, TurnAway, Admit, Done
<1>2. MembershipTypeOK' /\ \A n \in Members : Settled(n)' => Settled(n)
  BY <1>1 DEF ClockInv, ClockTypeOK, MembershipTypeOK, memberVars, Settled
<1>3. QED
  BY <1>1, <1>2, RowsAloneKeeps

\* A membership is deactivated, its handler crashes, or it is reactivated.
LEMMA MembershipKeeps ==
    ASSUME ClockInv, NEW m \in Members,
           DeactivateMember(m) \/ ReactivateMember(m) \/ HandlerCrash(m)
    PROVE  ClockInv'
<1> USE DEF ClockInv, ClockTypeOK, MembershipTypeOK, Settled
<1>1. UNCHANGED <<now, entries, logs, stubs, admitted, lateEntries>>
  BY DEF DeactivateMember, ReactivateMember, HandlerCrash
<1>2. MembershipTypeOK' /\ \A n \in Members : Settled(n)' => Settled(n)
  <2>1. CASE DeactivateMember(m)
    BY <2>1 DEF DeactivateMember, SaveInactive
  <2>2. CASE ReactivateMember(m)
    BY <2>2 DEF ReactivateMember, SaveActive
  <2>3. CASE HandlerCrash(m)
    BY <2>3 DEF HandlerCrash, HandlerLost
  <2>4. QED
    BY <2>1, <2>2, <2>3
<1>3. QED
  BY <1>1, <1>2, RowsAloneKeeps

\* A request that changes one open row of its member.
LEMMA OpenRowKeeps ==
    ASSUME ClockInv, NEW i \in Entries, NEW m \in Members, IsOpenFor(i, m), NEW row \in Entry,
           entries' = [entries EXCEPT ![i] = row],
           row.member = m, RowInOrder(row, now), row.status = "clocked_out" => row.out = now,
           UNCHANGED <<now, stubs, lateEntries, memberVars>>,
           NEW w \in ClockWorkers, Done(w),
           logs' = logs \/ \E b \in BOOLEAN, t \in {"clock_in", "clock_out"} :
                              logs' = logs \cup {LogOf(m, i, t, b)}
    PROVE  ClockInv'
<1> USE DEF ClockInv
<1>1. /\ entries' \in [Entries -> Entry] /\ entries'[i] = row
      /\ RowsInOrder' /\ RowsKept
  <2>1. entries[i].status # "clocked_out"
    BY DEF IsOpenFor
  <2>2. QED
    BY <2>1, RowReplaced
<1>2. ClockTypeOK'
  <2>1. admitted' \in [ClockWorkers -> Members \cup {Nobody}]
    BY DEF ClockTypeOK, Done
  <2>2. \A log \in logs' : log.member \in Members /\ log.entry \in Entries \cup {NoEntry}
    BY DEF ClockTypeOK, LogOf
  <2>3. MembershipTypeOK'
    BY DEF ClockTypeOK, MembershipTypeOK, memberVars
  <2>4. QED
    BY <1>1, <2>1, <2>2, <2>3 DEF ClockTypeOK
<1>3. StubsInOrder'
  BY DEF StubsInOrder
<1>4. PaidAsWorked'
  BY <1>1, <1>2, StubsStand
<1>5. InactiveNotWorking'
  <2>1. \A j \in Entries, n \in Members : IsOpenFor(j, n)' => IsOpenFor(j, n)
    <3> SUFFICES ASSUME NEW j \in Entries, NEW n \in Members, IsOpenFor(j, n)'
                 PROVE  IsOpenFor(j, n)
      OBVIOUS
    <3>1. entries'[j] = IF j = i THEN row ELSE entries[j]
      BY DEF ClockTypeOK
    <3>2. QED
      BY <3>1 DEF IsOpenFor
  <2>2. QED
    BY <2>1, NobodyOpened
<1>6. QED
  BY <1>1, <1>2, <1>3, <1>4, <1>5

\* Every row is a row, and in order.
LEMMA RowFacts ==
    ASSUME ClockInv, NEW i \in Entries
    PROVE  entries[i] \in Entry /\ RowInOrder(entries[i], now) /\ now \in Nat
BY DEF ClockInv, ClockTypeOK, RowsInOrder

\* A break that ends now, and a row closed now, are in order.
LEMMA BreakEndedInOrder ==
    ASSUME NEW card \in Entry, NEW t \in Nat, t = now, card.status = "clocked_in",
           RowInOrder(card, t)
    PROVE  /\ BreakEnded(card) \in Entry /\ RowInOrder(BreakEnded(card), t)
           /\ BreakEnded(card).member = card.member /\ BreakEnded(card).status = "clocked_in"
<1>1. CASE card.break = NoBreak
  BY <1>1 DEF BreakEnded
<1>2. CASE card.break # NoBreak
  <2>1. card.break \in Nat /\ card.break <= t /\ card.in + card.pause <= card.break
        /\ card.in \in Nat /\ card.pause \in Nat
    BY <1>2 DEF RowInOrder, Entry
  <2>2. BreakEnded(card) = [card EXCEPT !.pause = card.pause + (t - card.break),
                                        !.break = NoBreak]
    BY <1>2 DEF BreakEnded
  <2> DEFINE sum == card.pause + (t - card.break)
  <2>3. sum \in Nat /\ card.in + sum <= t
    BY <2>1
  <2> HIDE DEF sum
  <2>4. BreakEnded(card) = [card EXCEPT !.pause = sum, !.break = NoBreak]
    BY <2>2 DEF sum
  <2>5. QED
    BY <2>3, <2>4 DEF RowInOrder, Entry, NoBreak
<1>3. QED
  BY <1>1, <1>2

\* A row that is closed now is in order.
LEMMA ClosedInOrder ==
    ASSUME NEW card \in Entry, NEW t \in Nat, t = now, card.status = "clocked_in",
           RowInOrder(card, t)
    PROVE  /\ Closed(card) \in Entry /\ RowInOrder(Closed(card), t)
           /\ Closed(card).member = card.member /\ Closed(card).status = "clocked_out"
           /\ Closed(card).out = t
<1> DEFINE row == [card EXCEPT !.out = t, !.status = "clocked_out"]
<1>1. Closed(card) = row
  BY DEF Closed
<1>2. /\ row \in Entry /\ row.member = card.member /\ row.status = "clocked_out"
      /\ row.out = t /\ row.in = card.in /\ row.pause = card.pause
  BY DEF Entry
<1>3. card.in + card.pause <= t
  BY DEF RowInOrder
<1> HIDE DEF row
<1>4. RowInOrder(row, t)
  BY <1>2, <1>3 DEF RowInOrder
<1>5. QED
  BY <1>1, <1>2, <1>4

\* A member clocks out.
LEMMA ClockOutKeeps ==
    ASSUME ClockInv, NEW w \in ClockWorkers, NEW m \in Members, NEW i \in Entries,
           NEW fences, NEW place, ClockOut(w, m, i, fences, place)
    PROVE  ClockInv'
<1> USE DEF ClockOut
<1>1. entries[i] \in Entry /\ RowInOrder(entries[i], now) /\ now \in Nat
  BY RowFacts
<1>2. IsOpenFor(i, m) /\ entries[i].member = m /\ entries[i].status = "clocked_in"
  BY DEF IsOpenFor
<1> DEFINE row == IF Passed(m, fences, place) THEN Closed(entries[i]) ELSE entries[i]
<1>3. /\ row \in Entry /\ RowInOrder(row, now) /\ row.member = m
      /\ row.status = "clocked_out" => row.out = now
  BY <1>1, <1>2, ClosedInOrder
<1>4. entries' = [entries EXCEPT ![i] = row]
  BY DEF ClockInv, ClockTypeOK
<1>5. Passed(m, fences, place) \in BOOLEAN
  BY DEF Passed
<1> HIDE DEF row
<1>6. QED
  BY <1>2, <1>3, <1>4, <1>5, OpenRowKeeps

\* A break starts.
LEMMA StartBreakKeeps ==
    ASSUME ClockInv, NEW w \in ClockWorkers, NEW m \in Members, NEW i \in Entries,
           StartBreak(w, m, i)
    PROVE  ClockInv'
<1> USE DEF StartBreak
<1>1. entries[i] \in Entry /\ RowInOrder(entries[i], now) /\ now \in Nat
  BY RowFacts
<1>2. IsOpenFor(i, m) /\ entries[i].member = m /\ entries[i].status = "clocked_in"
  BY DEF IsOpenFor
<1> DEFINE row == [entries[i] EXCEPT !.break = now]
<1>3. row \in Entry /\ RowInOrder(row, now) /\ row.member = m /\ row.status = "clocked_in"
  BY <1>1, <1>2 DEF RowInOrder, Entry
<1>4. entries' = [entries EXCEPT ![i] = row]
  BY DEF ClockInv, ClockTypeOK
<1> HIDE DEF row
<1>5. QED
  BY <1>2, <1>3, <1>4, OpenRowKeeps

\* A break ends.
LEMMA EndBreakKeeps ==
    ASSUME ClockInv, NEW w \in ClockWorkers, NEW m \in Members, NEW i \in Entries,
           EndBreak(w, m, i)
    PROVE  ClockInv'
<1> USE DEF EndBreak, MayEndBreak
<1>1. entries[i] \in Entry /\ RowInOrder(entries[i], now) /\ now \in Nat
  BY RowFacts
<1>2. IsOpenFor(i, m) /\ entries[i].member = m /\ entries[i].status = "clocked_in"
  BY DEF IsOpenFor
<1> DEFINE row == BreakEnded(entries[i])
<1>3. row \in Entry /\ RowInOrder(row, now) /\ row.member = m /\ row.status = "clocked_in"
  BY <1>1, <1>2, BreakEndedInOrder
<1>4. entries' = [entries EXCEPT ![i] = row]
  BY DEF ClockInv, ClockTypeOK
<1> HIDE DEF row
<1>5. QED
  BY <1>2, <1>3, <1>4, OpenRowKeeps

\* A member with no open row clocks in; only the log tells of a place out of reach.
LEMMA ClockInKeeps ==
    ASSUME ClockInv, NEW w \in ClockWorkers, NEW m \in Members, NEW i \in Entries,
           NEW fences, NEW place, ClockIn(w, m, i, fences, place)
    PROVE  ClockInv'
<1> USE DEF ClockInv, ClockIn
<1>1. now \in Nat /\ entries \in [Entries -> Entry]
  BY DEF ClockTypeOK
<1>2. admitted' \in [ClockWorkers -> Members \cup {Nobody}] /\ MembershipTypeOK'
  BY DEF ClockTypeOK, Done, MembershipTypeOK, memberVars
<1>3. StubsInOrder'
  BY DEF StubsInOrder
<1>4. CASE ~Passed(m, fences, place)
  <2>1. ClockTypeOK'
    BY <1>2, <1>4 DEF ClockTypeOK, LogOf
  <2>2. RowsInOrder' /\ RowsKept
    BY <1>4 DEF RowsInOrder, RowsKept
  <2>3. PaidAsWorked'
    BY <1>4, <2>1, <2>2, StubsStand
  <2>4. InactiveNotWorking'
    BY <1>4, NobodyOpened DEF IsOpenFor
  <2>5. QED
    BY <1>3, <2>1, <2>2, <2>3, <2>4
<1>5. CASE Passed(m, fences, place)
  <2> DEFINE row == Opened(m)
  <2>1. /\ row \in Entry /\ row.status = "clocked_in" /\ row.member = m
        /\ RowInOrder(row, now)
    <3>1. Unused \in Entry /\ Unused.pause = 0 /\ Unused.break = NoBreak
      BY DEF Unused, Entry, NoBreak
    <3>2. /\ row \in Entry /\ row.status = "clocked_in" /\ row.member = m
          /\ row.in = now /\ row.pause = 0 /\ row.break = NoBreak
      BY <1>1, <3>1 DEF Opened, Entry
    <3>3. row.in + row.pause <= now
      BY <1>1, <3>2
    <3>4. QED
      BY <3>2, <3>3 DEF RowInOrder
  <2>2. entries[i].status = "none" /\ entries' = [entries EXCEPT ![i] = row]
    BY <1>5
  <2> HIDE DEF row
  <2>3. /\ entries' \in [Entries -> Entry] /\ entries'[i] = row
        /\ RowsInOrder' /\ RowsKept
    BY <2>1, <2>2, RowReplaced
  <2>4. ClockTypeOK'
    <3>1. lateEntries' \subseteq Entries
      BY <1>5 DEF ClockTypeOK
    <3>2. \A log \in logs' : log.member \in Members /\ log.entry \in Entries \cup {NoEntry}
      BY <1>5 DEF ClockTypeOK, LogOf
    <3>3. QED
      BY <1>2, <2>3, <3>1, <3>2 DEF ClockTypeOK
  <2>5. PaidAsWorked'
    BY <2>3, <2>4, StubsStand
  <2>6. InactiveNotWorking'
    <3> SUFFICES ASSUME NEW n \in Members, NEW j \in Entries, Settled(n)', IsOpenFor(j, n)'
                 PROVE  j \in lateEntries'
      BY DEF InactiveNotWorking
    <3>1. Settled(n) /\ lateEntries \subseteq lateEntries'
      BY <1>5 DEF Settled, memberVars
    <3>2. entries'[j] = IF j = i THEN row ELSE entries[j]
      BY <1>1, <2>2
    <3>3. CASE j = i
      <4>1. n = m
        BY <2>1, <3>2, <3>3 DEF IsOpenFor
      <4>2. QED
        BY <1>5, <3>1, <3>3, <4>1 DEF Settled
    <3>4. CASE j # i
      BY <3>1, <3>2, <3>4 DEF IsOpenFor, InactiveNotWorking
    <3>5. QED
      BY <3>3, <3>4
  <2>7. QED
    BY <1>3, <2>3, <2>4, <2>5, <2>6
<1>6. QED
  BY <1>4, <1>5

\* The handler closes what its member has open, so nobody settled is working.
LEMMA CloseOpenEntriesKeeps ==
    ASSUME ClockInv, NEW m \in Members, CloseOpenEntries(m)
    PROVE  ClockInv'
<1> USE DEF ClockInv, CloseOpenEntries
<1>1. UNCHANGED <<now, logs, stubs, admitted, lateEntries, active, abandoned>>
  BY DEF HandlerRuns
<1>2. ASSUME NEW i \in Entries, IsOpenFor(i, m)
      PROVE  /\ entries'[i] \in Entry /\ RowInOrder(entries'[i], now)
             /\ entries'[i].status = "clocked_out" /\ entries'[i].out = now
  <2>1. entries[i] \in Entry /\ RowInOrder(entries[i], now) /\ now \in Nat
        /\ entries[i].status = "clocked_in"
    BY <1>2, RowFacts DEF IsOpenFor
  <2> DEFINE rested == BreakEnded(entries[i])
             row == Closed(rested)
  <2>2. rested \in Entry /\ RowInOrder(rested, now) /\ rested.status = "clocked_in"
    BY <2>1, BreakEndedInOrder
  <2>3. entries'[i] = [row EXCEPT !.auto = TRUE]
    BY <1>2 DEF Closable
  <2> HIDE DEF rested
  <2>4. row \in Entry /\ RowInOrder(row, now) /\ row.status = "clocked_out" /\ row.out = now
    BY <2>1, <2>2, ClosedInOrder
  <2> HIDE DEF row
  <2>5. QED
    BY <2>3, <2>4 DEF Entry, RowInOrder
<1>3. \A i \in Entries : ~IsOpenFor(i, m) => entries'[i] = entries[i]
  BY DEF Closable
<1>4. RowsKept
  BY <1>2, <1>3 DEF RowsKept, IsOpenFor
<1>5. entries' \in [Entries -> Entry] /\ RowsInOrder'
  <2>1. \A i \in Entries : entries'[i] \in Entry /\ RowInOrder(entries'[i], now')
    BY <1>1, <1>2, <1>3, RowFacts
  <2>2. DOMAIN entries' = Entries /\ entries' = [i \in DOMAIN entries' |-> entries'[i]]
    OBVIOUS
  <2>3. QED
    BY <2>1, <2>2 DEF RowsInOrder
<1>6. MembershipTypeOK' /\ cascading \subseteq cascading' \cup {m}
  BY DEF ClockTypeOK, MembershipTypeOK, HandlerRuns
<1>7. ClockTypeOK'
  BY <1>1, <1>5, <1>6 DEF ClockTypeOK
<1>8. PaidAsWorked' /\ StubsInOrder'
  BY <1>1, <1>4, <1>7, StubsStand DEF StubsInOrder
<1>9. InactiveNotWorking'
  <2> SUFFICES ASSUME NEW n \in Members, NEW i \in Entries, Settled(n)', IsOpenFor(i, n)'
               PROVE  i \in lateEntries
    BY <1>1 DEF InactiveNotWorking
  <2>1. ~IsOpenFor(i, m) /\ IsOpenFor(i, n)
    BY <1>2, <1>3 DEF IsOpenFor
  <2>2. n # m
    BY <2>1
  <2>3. Settled(n)
    BY <1>1, <1>6, <2>2 DEF Settled
  <2>4. QED
    BY <2>1, <2>3 DEF InactiveNotWorking
<1>10. QED
  BY <1>5, <1>7, <1>8, <1>9

\* A stub is made of the rows that are closed.
LEMMA GeneratePayStubKeeps ==
    ASSUME ClockInv, NEW m \in Members, NEW period, NEW threshold, NEW rate,
           GeneratePayStub(m, period, threshold, rate)
    PROVE  ClockInv'
<1> DEFINE counted == CountedIn(m, period)
           regular == RegularHours(entries, counted, threshold)
           overtime == OvertimeHours(entries, counted, threshold)
           gross == GrossPay(regular, overtime, rate)
           stub == [member |-> m, period |-> period, threshold |-> threshold, rate |-> rate,
                    regular |-> regular, overtime |-> overtime,
                    gross |-> gross, net |-> NetPay(gross), counted |-> counted, at |-> now]
<1>1. stubs' = stubs \cup {stub}
      /\ UNCHANGED <<now, entries, logs, lateEntries, memberVars, admitted>>
  BY DEF GeneratePayStub
<1>2. counted \subseteq Entries
  BY DEF CountedIn
<1>3. \A i \in counted : entries[i].status = "clocked_out" /\ entries[i].out <= now
  BY RowFacts DEF CountedIn, RowInOrder
<1>4. stub.member = m /\ stub.period = period /\ stub.threshold = threshold
      /\ stub.regular = regular /\ stub.overtime = overtime
      /\ stub.counted = counted /\ stub.at = now
  OBVIOUS
<1>5. CountedIn(stub.member, stub.period) \ stub.counted = {}
  BY <1>4
<1> HIDE DEF stub
<1>6. /\ stub.regular = RegularHours(entries, stub.counted, stub.threshold)
      /\ stub.overtime = OvertimeHours(entries, stub.counted, stub.threshold)
  BY <1>4
<1> HIDE DEF counted, regular, overtime, gross
<1> USE DEF ClockInv
<1>7. ClockTypeOK'
  <2>1. MembershipTypeOK'
    BY <1>1 DEF ClockTypeOK, MembershipTypeOK, memberVars
  <2>2. \A s \in stubs' : s.member \in Members /\ s.counted \subseteq Entries
    BY <1>1, <1>2, <1>4 DEF ClockTypeOK
  <2>3. QED
    BY <1>1, <2>1, <2>2 DEF ClockTypeOK
<1>8. RowsInOrder' /\ InactiveNotWorking'
  BY <1>1 DEF RowsInOrder, InactiveNotWorking, Settled, IsOpenFor, memberVars
<1>9. StubsInOrder'
  <2>1. now \in Nat
    BY DEF ClockTypeOK
  <2>2. QED
    BY <1>1, <1>4, <2>1 DEF StubsInOrder
<1>10. PaidAsWorked'
  <2> SUFFICES ASSUME NEW s \in stubs'
               PROVE  /\ s.regular = RegularHours(entries, s.counted, s.threshold)
                      /\ s.overtime = OvertimeHours(entries, s.counted, s.threshold)
                      /\ \A i \in s.counted : entries[i].status = "clocked_out"
                                              /\ entries[i].out <= s.at
                      /\ \A i \in CountedIn(s.member, s.period) \ s.counted :
                           entries[i].out >= s.at
    BY <1>1 DEF PaidAsWorked, CountedIn
  <2>1. CASE s \in stubs
    BY <2>1 DEF PaidAsWorked
  <2>2. CASE s = stub
    <3>1. \A i \in s.counted : entries[i].status = "clocked_out" /\ entries[i].out <= s.at
      BY <1>3, <1>4, <2>2
    <3>2. \A i \in CountedIn(s.member, s.period) \ s.counted : entries[i].out >= s.at
      BY <1>5, <2>2
    <3>3. QED
      BY <1>6, <2>2, <3>1, <3>2
  <2>3. QED
    BY <1>1, <2>1, <2>2
<1>11. QED
  BY <1>7, <1>8, <1>9, <1>10

\* The invariant of the time clock holds always.
LEMMA ClockInvariant == ClockSpec => []ClockInv
<1>1. ClockInv /\ [ClockNext]_clockVars => ClockInv'
  <2> SUFFICES ASSUME ClockInv, [ClockNext]_clockVars
               PROVE  ClockInv'
    OBVIOUS
  <2>1. CASE TimePasses
    BY <2>1, TimePassesKeeps
  <2>2. ASSUME NEW w \in ClockWorkers, TurnAway(w)
        PROVE  ClockInv'
    <3>1. CASE Members = {}
      <4>1. admitted[w] = Nobody
        BY <3>1 DEF ClockInv, ClockTypeOK
      <4>2. QED
        BY <2>2, <4>1 DEF TurnAway
    <3>2. CASE Members # {}
      BY <2>2, <3>2, RequestsKeep
    <3>3. QED
      BY <3>1, <3>2
  <2>3. ASSUME NEW w \in ClockWorkers, NEW m \in Members, Admit(w, m)
        PROVE  ClockInv'
    BY <2>3, RequestsKeep
  <2>4. ASSUME NEW w \in ClockWorkers, NEW m \in Members, NEW i \in Entries,
               ServeClock(w, m, i)
        PROVE  ClockInv'
    BY <2>4, ClockInKeeps, ClockOutKeeps, StartBreakKeeps, EndBreakKeeps DEF ServeClock
  <2>5. ASSUME NEW m \in Members,
               DeactivateMember(m) \/ ReactivateMember(m) \/ HandlerCrash(m)
        PROVE  ClockInv'
    BY <2>5, MembershipKeeps
  <2>6. ASSUME NEW m \in Members, CloseOpenEntries(m)
        PROVE  ClockInv'
    BY <2>6, CloseOpenEntriesKeeps
  <2>7. ASSUME NEW m \in Members, NEW period \in Periods, NEW threshold \in Thresholds,
               NEW rate \in Rates, GeneratePayStub(m, period, threshold, rate)
        PROVE  ClockInv'
    BY <2>7, GeneratePayStubKeeps
  <2>8. CASE UNCHANGED clockVars
    <3>1. /\ UNCHANGED <<now, entries, logs, stubs, admitted, lateEntries, active, cascading,
                         abandoned>>
      BY <2>8 DEF clockVars, memberVars
    <3>2. QED
      BY <3>1 DEF ClockInv, ClockTypeOK, MembershipTypeOK, RowsInOrder, StubsInOrder,
                  InactiveNotWorking, Settled, IsOpenFor, PaidAsWorked, CountedIn
  <2>9. QED
    BY <2>1, <2>2, <2>3, <2>4, <2>5, <2>6, <2>7, <2>8 DEF ClockNext
<1>2. QED
  BY <1>1, InitHolds, PTL DEF ClockSpec

\* The rows of the clock, its log and its stubs are what their tables say.
THEOREM ClockTypeCorrect == ClockSpec => []ClockTypeOK
<1>1. ClockInv => ClockTypeOK
  BY DEF ClockInv
<1>2. QED
  BY <1>1, ClockInvariant, PTL

\* Whatever requests, crashes and deactivations do, nobody whose deactivation
\* has been handled is on the clock by an entry opened while active.
THEOREM DeactivatedOffTheClock == ClockSpec => []InactiveNotWorking
<1>1. ClockInv => InactiveNotWorking
  BY DEF ClockInv
<1>2. QED
  BY <1>1, ClockInvariant, PTL

\* A stub goes on saying what the entries it counted say.
THEOREM StubsPayWhatWasWorked == ClockSpec => []PaidAsWorked
<1>1. ClockInv => PaidAsWorked
  BY DEF ClockInv
<1>2. QED
  BY <1>1, ClockInvariant, PTL

\* Division keeps the order, and the next number divides to the next one
\* exactly when it is a multiple.
LEMMA DivInOrder ==
    ASSUME NEW d \in Nat \ {0}, NEW x \in Nat, NEW y \in Nat, x <= y
    PROVE  x \div d <= y \div d
OBVIOUS

\* A number's quotient is at most its successor's, and less where that is a multiple.
LEMMA DivOfNext ==
    ASSUME NEW d \in Nat \ {0}, NEW x \in Nat
    PROVE  /\ x \div d <= (x + 1) \div d
           /\ (x + 1) % d = 0 => x \div d < (x + 1) \div d
OBVIOUS

(***************************************************************************)
(* Paying a period in two parts.                                           *)
(***************************************************************************)

\* Rows that are closed.
ClosedRows(c) == c \in SUBSET Entries /\ \A i \in c : entries[i].status = "clocked_out"

\* Two sets of them without a row in common.
Parts(c1, c2) == ClosedRows(c1) /\ ClosedRows(c2) /\ c1 \cap c2 = {}

\* The ticks of closed rows in a week are a natural number, and so are its
\* hours; a week without rows has none.
LEMMA WeekFacts ==
    ASSUME ClockInv, NEW c, ClosedRows(c), NEW k
    PROVE  /\ WeekTicks(entries, c, k) \in Nat /\ IsFiniteSet(InWeek(entries, c, k))
           /\ \A i \in InWeek(entries, c, k) : Ticks(entries)[i] \in Int
           /\ WeekHours(entries, c, k) = Quantize(WeekTicks(entries, c, k), TicksPerHundredth)
           /\ WeekHours(entries, c, k) \in Nat
           /\ InWeek(entries, c, k) = {} =>
                WeekTicks(entries, c, k) = 0 /\ WeekHours(entries, c, k) = 0
<1> USE DEF ClosedRows
<1> DEFINE s == InWeek(entries, c, k)
<1>1. IsFiniteSet(c) /\ c \subseteq DOMAIN entries
  BY WeeksAreWhole DEF ClockInv
<1>2. IsFiniteSet(s) /\ s \subseteq c
  BY <1>1, FS_Subset DEF InWeek
<1>3. ASSUME NEW i \in s
      PROVE  Ticks(entries)[i] \in Int /\ Ticks(entries)[i] >= 0
  <2>1. /\ entries[i] \in Entry /\ RowInOrder(entries[i], now)
        /\ entries[i].status = "clocked_out" /\ i \in DOMAIN entries
    BY <1>1, <1>2, RowFacts
  <2>2. Ticks(entries)[i] = entries[i].out - entries[i].in - entries[i].pause
    BY <2>1 DEF Ticks, Worked
  <2>3. QED
    BY <2>1, <2>2 DEF RowInOrder, Entry
<1>4. WeekHours(entries, c, k) = Quantize(WeekTicks(entries, c, k), TicksPerHundredth)
  BY <1>1, WeekIsSum
<1> HIDE DEF s
<1>5. SumOver(Ticks(entries), s) \in Int /\ SumOver(Ticks(entries), s) >= 0
  BY <1>2, <1>3, SumType
<1>6. WeekTicks(entries, c, k) \in Nat
  BY <1>5 DEF WeekTicks, s
<1>7. WeekHours(entries, c, k) \in Nat
  BY <1>4, <1>6, Quantized, CalendarAssumption
<1>8. s = {} => WeekTicks(entries, c, k) = 0 /\ WeekHours(entries, c, k) = 0
  BY <1>2, <1>4, SumStep, QuantizedNothing, CalendarAssumption DEF WeekTicks, s
<1>9. QED
  BY <1>2, <1>3, <1>4, <1>6, <1>7, <1>8 DEF s

\* The ticks of a week add up over two parts.
LEMMA WeekInParts ==
    ASSUME ClockInv, NEW c1, NEW c2, Parts(c1, c2), NEW k
    PROVE  WeekTicks(entries, c1 \cup c2, k)
             = WeekTicks(entries, c1, k) + WeekTicks(entries, c2, k)
<1> USE DEF Parts
<1> DEFINE d == InWeek(entries, c1, k)
           e == InWeek(entries, c2, k)
<1>1. InWeek(entries, c1 \cup c2, k) = d \cup e /\ d \cap e = {}
  BY DEF InWeek
<1>2. /\ IsFiniteSet(d) /\ \A i \in d : Ticks(entries)[i] \in Int
      /\ IsFiniteSet(e) /\ \A i \in e : Ticks(entries)[i] \in Int
  BY WeekFacts
<1> HIDE DEF d, e
<1>3. SumOver(Ticks(entries), d \cup e)
        = SumOver(Ticks(entries), d) + SumOver(Ticks(entries), e)
  BY <1>1, <1>2, SumParts
<1>4. QED
  BY <1>1, <1>3 DEF WeekTicks, d, e

\* Rows from weeks up to k, and from week k on.
UntilWeek(c, k) == \A i \in c : WeekOf(entries[i].in) <= k
FromWeek(c, k) == \A i \in c : WeekOf(entries[i].in) >= k

\* When the rows of the first part are from weeks up to k0 and those of the
\* second from weeks after or in it, the two parts and the whole make the same
\* of every other week, so they differ by what they make of k0.
LEMMA OneWeekDiffers ==
    ASSUME ClockInv, NEW c1, NEW c2, Parts(c1, c2), NEW k0 \in Int, NEW threshold \in Nat,
           UntilWeek(c1, k0), FromWeek(c2, k0)
    PROVE  LET h(c) == WeekHours(entries, c, k0)
               R(c) == RegularHours(entries, c, threshold)
               O(c) == OvertimeHours(entries, c, threshold)
           IN /\ R(c1) \in Int /\ R(c2) \in Int /\ R(c1 \cup c2) \in Int
              /\ O(c1) \in Int /\ O(c2) \in Int /\ O(c1 \cup c2) \in Int
              /\ Excess(R(c1), R(c2), R(c1 \cup c2))
                   = Excess(Upto(h(c1), threshold), Upto(h(c2), threshold),
                            Upto(h(c1 \cup c2), threshold))
              /\ Excess(O(c1), O(c2), O(c1 \cup c2))
                   = Excess(Beyond(h(c1), threshold), Beyond(h(c2), threshold),
                            Beyond(h(c1 \cup c2), threshold))
<1> DEFINE c == c1 \cup c2
           D == Weeks(entries, c1)
           E == Weeks(entries, c2)
<1>0. ClosedRows(c1) /\ ClosedRows(c2) /\ ClosedRows(c)
  BY DEF Parts, ClosedRows
<1>1. /\ IsFiniteSet(D) /\ D \subseteq Int /\ IsFiniteSet(E) /\ E \subseteq Int
      /\ IsFiniteSet(Weeks(entries, c)) /\ Weeks(entries, c) \subseteq Int
  BY <1>0, WeeksAreWhole DEF ClockInv, ClosedRows
<1>2. Weeks(entries, c) = D \cup E
  BY DEF Weeks
<1>3. (\A k \in D : k <= k0) /\ \A k \in E : k >= k0
  BY DEF Weeks, UntilWeek, FromWeek
<1>4. D \cap E \subseteq {k0}
  BY <1>1, <1>3
<1>5. \A k \in Int : /\ WeekHours(entries, c1, k) \in Nat
                     /\ WeekHours(entries, c2, k) \in Nat
                     /\ WeekHours(entries, c, k) \in Nat
  BY <1>0, WeekFacts
<1>6. ASSUME NEW k \in Int, k \notin E
      PROVE  /\ WeekHours(entries, c, k) = WeekHours(entries, c1, k)
             /\ WeekHours(entries, c2, k) = 0
  <2>1. InWeek(entries, c2, k) = {}
    BY <1>6 DEF InWeek, Weeks
  <2>2. InWeek(entries, c, k) = InWeek(entries, c1, k)
    <3>1. InWeek(entries, c, k) = InWeek(entries, c1, k) \cup InWeek(entries, c2, k)
      BY DEF InWeek
    <3>2. QED
      BY <2>1, <3>1
  <2>3. WeekTicks(entries, c, k) = WeekTicks(entries, c1, k)
    BY <2>2 DEF WeekTicks
  <2>4. QED
    BY <1>0, <2>1, <2>3, WeekFacts
<1>7. ASSUME NEW k \in Int, k \notin D
      PROVE  /\ WeekHours(entries, c, k) = WeekHours(entries, c2, k)
             /\ WeekHours(entries, c1, k) = 0
  <2>1. InWeek(entries, c1, k) = {}
    BY <1>7 DEF InWeek, Weeks
  <2>2. InWeek(entries, c, k) = InWeek(entries, c2, k)
    <3>1. InWeek(entries, c, k) = InWeek(entries, c1, k) \cup InWeek(entries, c2, k)
      BY DEF InWeek
    <3>2. QED
      BY <2>1, <3>1
  <2>3. WeekTicks(entries, c, k) = WeekTicks(entries, c2, k)
    BY <2>2 DEF WeekTicks
  <2>4. QED
    BY <1>0, <2>1, <2>3, WeekFacts
<1>8. /\ \A k \in D \ {k0} : k \in Int /\ k \notin E
      /\ \A k \in E \ {k0} : k \in Int /\ k \notin D
  BY <1>1, <1>4
<1>9. Upto(0, threshold) = 0 /\ Beyond(0, threshold) = 0
  BY DEF Upto, Beyond
<1>10. \A n \in Nat : Upto(n, threshold) \in Int /\ Beyond(n, threshold) \in Int
  BY DEF Upto, Beyond
<1> DEFINE r1 == Regulars(entries, c1, threshold)
           r2 == Regulars(entries, c2, threshold)
           r == Regulars(entries, c, threshold)
           o1 == Overtimes(entries, c1, threshold)
           o2 == Overtimes(entries, c2, threshold)
           o == Overtimes(entries, c, threshold)
<1>11. \A k \in Int : /\ r1[k] = Upto(WeekHours(entries, c1, k), threshold)
                      /\ r2[k] = Upto(WeekHours(entries, c2, k), threshold)
                      /\ r[k] = Upto(WeekHours(entries, c, k), threshold)
                      /\ o1[k] = Beyond(WeekHours(entries, c1, k), threshold)
                      /\ o2[k] = Beyond(WeekHours(entries, c2, k), threshold)
                      /\ o[k] = Beyond(WeekHours(entries, c, k), threshold)
  BY DEF Regulars, Overtimes
<1>12. /\ RegularHours(entries, c1, threshold) = SumOver(r1, D)
       /\ RegularHours(entries, c2, threshold) = SumOver(r2, E)
       /\ RegularHours(entries, c, threshold) = SumOver(r, D \cup E)
       /\ OvertimeHours(entries, c1, threshold) = SumOver(o1, D)
       /\ OvertimeHours(entries, c2, threshold) = SumOver(o2, E)
       /\ OvertimeHours(entries, c, threshold) = SumOver(o, D \cup E)
  BY <1>1, <1>2, RegularIsSum, OvertimeIsSum
<1>13. D \cup E \cup {k0} \subseteq Int
  BY <1>1
<1> HIDE DEF c, D, E, r1, r2, r, o1, o2, o
<1>14. \A k \in D \cup E \cup {k0} : /\ r[k] \in Int /\ r1[k] \in Int /\ r2[k] \in Int
                                   /\ o[k] \in Int /\ o1[k] \in Int /\ o2[k] \in Int
  BY <1>5, <1>10, <1>11, <1>13
<1>15. /\ \A k \in D \ {k0} : r[k] = r1[k] /\ o[k] = o1[k]
       /\ \A k \in E \ {k0} : r[k] = r2[k] /\ o[k] = o2[k]
  BY <1>6, <1>7, <1>8, <1>11
<1>16. /\ k0 \notin D => r1[k0] = 0 /\ o1[k0] = 0
       /\ k0 \notin E => r2[k0] = 0 /\ o2[k0] = 0
       /\ k0 \notin D \cup E => r[k0] = 0 /\ o[k0] = 0
  BY <1>6, <1>7, <1>9, <1>11
<1>17. Splits(r, r1, r2, D, E, k0) /\ Splits(o, o1, o2, D, E, k0)
  BY <1>1, <1>4, <1>14, <1>15, <1>16 DEF Splits
<1>18. /\ SumOver(r, D \cup E) \in Int /\ SumOver(r1, D) \in Int /\ SumOver(r2, E) \in Int
       /\ Excess(SumOver(r1, D), SumOver(r2, E), SumOver(r, D \cup E))
            = Excess(r1[k0], r2[k0], r[k0])
  BY <1>17, SumSplit
<1>19. /\ SumOver(o, D \cup E) \in Int /\ SumOver(o1, D) \in Int /\ SumOver(o2, E) \in Int
       /\ Excess(SumOver(o1, D), SumOver(o2, E), SumOver(o, D \cup E))
            = Excess(o1[k0], o2[k0], o[k0])
  BY <1>17, SumSplit
<1>20. QED
  BY <1>11, <1>12, <1>18, <1>19 DEF c

\* What is made of one week: two parts of it never have more overtime than the
\* whole and one hundredth, and a part that is empty makes no difference.
LEMMA WeekSplit ==
    ASSUME NEW a \in Nat, NEW b \in Nat, NEW h \in Nat, NEW t \in Nat,
           Excess(a, b, h) \in -1 .. 1, a <= h, b <= h
    PROVE  /\ Excess(Beyond(a, t), Beyond(b, t), Beyond(h, t)) <= 1
           /\ Excess(Upto(a, t), Upto(b, t), Upto(h, t))
                + Excess(Beyond(a, t), Beyond(b, t), Beyond(h, t)) = Excess(a, b, h)
<1> USE DEF Excess
<1>1. \A n \in Nat : /\ Upto(n, t) + Beyond(n, t) = n
                     /\ Upto(n, t) \in Nat /\ Beyond(n, t) \in Nat
  BY DEF Upto, Beyond
<1>2. Beyond(a, t) + Beyond(b, t) - Beyond(h, t) <= 1
  <2>1. CASE a > t /\ b > t
    BY <2>1 DEF Beyond
  <2>2. CASE ~(a > t /\ b > t)
    BY <2>2 DEF Beyond
  <2>3. QED
    BY <2>1, <2>2
<1>3. QED
  BY <1>1, <1>2

\* Two stubs of the parts of a period have no overtime that one stub lacks.
LEMMA SplitHolds == ClockInv => SplitNeverAddsOvertime
<1> SUFFICES ASSUME ClockInv, NEW m \in Members, NEW p \in Periods,
                    NEW threshold \in Thresholds, NEW day \in p.from .. p.to - 1
             PROVE  LET first == CountedIn(m, [from |-> p.from, to |-> day])
                        second == CountedIn(m, [from |-> day + 1, to |-> p.to])
                        whole == CountedIn(m, [from |-> p.from, to |-> p.to])
                        R(c) == RegularHours(entries, c, threshold)
                        O(c) == OvertimeHours(entries, c, threshold)
                    IN /\ O(first) + O(second) <= O(whole) + 1
                       /\ (R(first) + R(second) + (O(first) + O(second)))
                            - (R(whole) + O(whole)) \in -1 .. 1
                       /\ (day + 1) % DaysPerWeek = 0 =>
                            /\ R(first) + R(second) = R(whole)
                            /\ O(first) + O(second) = O(whole)
  BY DEF SplitNeverAddsOvertime
<1> DEFINE first == CountedIn(m, [from |-> p.from, to |-> day])
           second == CountedIn(m, [from |-> day + 1, to |-> p.to])
           whole == CountedIn(m, [from |-> p.from, to |-> p.to])
           k0 == day \div DaysPerWeek
<1>1. /\ p.from \in Nat /\ p.to \in Nat /\ day \in Nat /\ p.from <= day /\ day < p.to
      /\ threshold \in Nat /\ k0 \in Int
  BY PayAssumption, CalendarAssumption
<1>2. \A i \in Entries : Day(entries[i].in) \in Nat
  <2> SUFFICES ASSUME NEW i \in Entries
               PROVE  Day(entries[i].in) \in Nat
    OBVIOUS
  <2>1. entries[i].in \in Nat
    BY RowFacts DEF Entry
  <2>2. QED
    BY <2>1, CalendarAssumption DEF Day
<1>3. whole = first \cup second /\ first \cap second = {}
  BY <1>1, <1>2 DEF CountedIn, InPeriod
<1>4. /\ ClosedRows(first) /\ ClosedRows(second) /\ ClosedRows(whole)
      /\ Parts(first, second)
  BY <1>3 DEF CountedIn, ClosedRows, Parts
<1>5. UntilWeek(first, k0)
  <2> SUFFICES ASSUME NEW i \in first
               PROVE  WeekOf(entries[i].in) <= k0
    BY DEF UntilWeek
  <2>1. Day(entries[i].in) \in Nat /\ Day(entries[i].in) <= day
    BY <1>1, <1>2 DEF CountedIn, InPeriod
  <2>2. QED
    BY <1>1, <2>1, CalendarAssumption, DivInOrder DEF WeekOf
<1>6. /\ FromWeek(second, k0)
      /\ (day + 1) % DaysPerWeek = 0 => \A i \in second : WeekOf(entries[i].in) > k0
  <2> SUFFICES ASSUME NEW i \in second
               PROVE  /\ WeekOf(entries[i].in) >= k0
                      /\ (day + 1) % DaysPerWeek = 0 => WeekOf(entries[i].in) > k0
    BY DEF FromWeek
  <2>1. Day(entries[i].in) \in Nat /\ day + 1 <= Day(entries[i].in)
    BY <1>1, <1>2 DEF CountedIn, InPeriod
  <2>2. (day + 1) \div DaysPerWeek <= WeekOf(entries[i].in)
    BY <1>1, <2>1, CalendarAssumption, DivInOrder DEF WeekOf
  <2>3. /\ k0 <= (day + 1) \div DaysPerWeek
        /\ (day + 1) % DaysPerWeek = 0 => k0 < (day + 1) \div DaysPerWeek
    BY <1>1, CalendarAssumption, DivOfNext
  <2>4. WeekOf(entries[i].in) \in Int /\ (day + 1) \div DaysPerWeek \in Int
    BY <1>1, <2>1, CalendarAssumption DEF WeekOf
  <2> HIDE DEF k0
  <2>5. QED
    BY <1>1, <2>2, <2>3, <2>4
<1> DEFINE a == WeekHours(entries, first, k0)
           b == WeekHours(entries, second, k0)
           h == WeekHours(entries, whole, k0)
           R(c) == RegularHours(entries, c, threshold)
           O(c) == OvertimeHours(entries, c, threshold)
<1> HIDE DEF first, second, whole, k0
<1>7. /\ R(first) \in Int /\ R(second) \in Int /\ R(whole) \in Int
      /\ O(first) \in Int /\ O(second) \in Int /\ O(whole) \in Int
      /\ Excess(R(first), R(second), R(whole))
           = Excess(Upto(a, threshold), Upto(b, threshold), Upto(h, threshold))
      /\ Excess(O(first), O(second), O(whole))
           = Excess(Beyond(a, threshold), Beyond(b, threshold), Beyond(h, threshold))
  BY <1>1, <1>3, <1>4, <1>5, <1>6, OneWeekDiffers
<1> DEFINE x == WeekTicks(entries, first, k0)
           y == WeekTicks(entries, second, k0)
<1>8. /\ x \in Nat /\ a = Quantize(x, TicksPerHundredth) /\ a \in Nat
      /\ y \in Nat /\ b = Quantize(y, TicksPerHundredth) /\ b \in Nat
  BY <1>4, WeekFacts
<1>9. WeekTicks(entries, whole, k0) = x + y
  BY <1>3, <1>4, WeekInParts
<1>10. /\ h = Quantize(x + y, TicksPerHundredth) /\ h \in Nat
       /\ Excess(a, b, h) \in -1 .. 1 /\ a <= h /\ b <= h
  <2>1. h = Quantize(x + y, TicksPerHundredth) /\ h \in Nat
    BY <1>4, <1>9, WeekFacts
  <2> HIDE DEF a, b, h, x, y
  <2>2. x + y \in Nat /\ x <= x + y /\ y <= x + y
    BY <1>8
  <2>3. a <= h /\ b <= h
    BY <1>8, <2>1, <2>2, CalendarAssumption, QuantizedInOrder
  <2>4. Excess(a, b, h) \in -1 .. 1
    BY <1>8, <2>1, CalendarAssumption, QuantizedSum DEF Excess
  <2>5. QED
    BY <2>1, <2>3, <2>4
<1>11. (day + 1) % DaysPerWeek = 0 => b = 0 /\ a = h
  <2> SUFFICES ASSUME (day + 1) % DaysPerWeek = 0
               PROVE  b = 0 /\ a = h
    OBVIOUS
  <2>1. InWeek(entries, second, k0) = {}
    <3> SUFFICES ASSUME NEW i \in InWeek(entries, second, k0)
                 PROVE  FALSE
      OBVIOUS
    <3>1. i \in second /\ WeekOf(entries[i].in) = k0
      BY DEF InWeek
    <3>2. QED
      BY <1>1, <1>6, <3>1
  <2>2. y = 0 /\ b = 0
    BY <1>4, <2>1, WeekFacts
  <2>3. x + y = x
    BY <1>8, <2>2
  <2>4. QED
    BY <1>8, <1>10, <2>2, <2>3
<1> HIDE DEF a, b, h, R, O, x, y
<1>12. /\ O(first) + O(second) <= O(whole) + 1
       /\ (R(first) + R(second) + (O(first) + O(second))) - (R(whole) + O(whole)) \in -1 .. 1
  <2>1. /\ Excess(Beyond(a, threshold), Beyond(b, threshold), Beyond(h, threshold)) <= 1
        /\ Excess(Upto(a, threshold), Upto(b, threshold), Upto(h, threshold))
             + Excess(Beyond(a, threshold), Beyond(b, threshold), Beyond(h, threshold))
             = Excess(a, b, h)
    BY <1>1, <1>8, <1>10, WeekSplit
  <2>2. /\ Excess(O(first), O(second), O(whole)) <= 1
        /\ Excess(R(first), R(second), R(whole)) + Excess(O(first), O(second), O(whole))
             \in -1 .. 1
    BY <1>7, <1>10, <2>1
  <2>3. QED
    BY <1>7, <2>2 DEF Excess
<1>13. (day + 1) % DaysPerWeek = 0 =>
         R(first) + R(second) = R(whole) /\ O(first) + O(second) = O(whole)
  <2> SUFFICES ASSUME (day + 1) % DaysPerWeek = 0
               PROVE  R(first) + R(second) = R(whole) /\ O(first) + O(second) = O(whole)
    OBVIOUS
  <2>1. b = 0 /\ a = h
    BY <1>11
  <2>2. /\ Upto(0, threshold) = 0 /\ Beyond(0, threshold) = 0
        /\ Upto(h, threshold) \in Int /\ Beyond(h, threshold) \in Int
    BY <1>1, <1>10 DEF Upto, Beyond
  <2>3. R(first) + R(second) - R(whole) = 0 /\ O(first) + O(second) - O(whole) = 0
    BY <1>7, <2>1, <2>2 DEF Excess
  <2>4. QED
    BY <1>7, <2>3
<1>14. QED
  BY <1>12, <1>13 DEF first, second, whole, R, O

\* However a period is split, the parts pay no more overtime than the whole and
\* one hundredth of an hour; split between two weeks they pay the same.
THEOREM SplittingAddsNoOvertime == ClockSpec => []SplitNeverAddsOvertime
BY SplitHolds, ClockInvariant, PTL

(***************************************************************************)
(* Shifts, swaps and time off.                                             *)
(***************************************************************************)

USE MemberAssumption, NullAssumption, KeysAssumption

\* The handler of a deactivation, swap by swap and leave by leave.
LEMMA HandlerOnRows ==
    ASSUME TypeOK, NEW m \in Members, HandleMembershipDeactivation(m)
    PROVE  /\ \A x \in Swaps :
                /\ swaps'[x].shift = swaps[x].shift
                /\ swaps'[x].requester = swaps[x].requester
                /\ swaps'[x].target = swaps[x].target
                /\ swaps'[x].status = IF Moot(x, m) THEN "cancelled" ELSE swaps[x].status
           /\ \A l \in Leaves :
                /\ leaves'[l].member = leaves[l].member
                /\ leaves'[l].status =
                     IF leaves[l].status = "pending" /\ leaves[l].member = m
                     THEN "cancelled" ELSE leaves[l].status
           /\ swaps' \in [Swaps -> Swap]
           /\ leaves' \in [Leaves -> Leave]
<1>1. /\ swaps' = [x \in Swaps |->
                     IF Moot(x, m) THEN [swaps[x] EXCEPT !.status = "cancelled"] ELSE swaps[x]]
      /\ leaves' = [l \in Leaves |->
                      IF leaves[l] = [status |-> "pending", member |-> m]
                      THEN [leaves[l] EXCEPT !.status = "cancelled"] ELSE leaves[l]]
  BY DEF HandleMembershipDeactivation
<1>2. ASSUME NEW x \in Swaps
      PROVE  /\ swaps'[x].shift = swaps[x].shift
             /\ swaps'[x].requester = swaps[x].requester
             /\ swaps'[x].target = swaps[x].target
             /\ swaps'[x].status = IF Moot(x, m) THEN "cancelled" ELSE swaps[x].status
             /\ swaps'[x] \in Swap
  <2>1. swaps[x] \in Swap
    BY DEF TypeOK
  <2>2. swaps'[x] = IF Moot(x, m) THEN [swaps[x] EXCEPT !.status = "cancelled"] ELSE swaps[x]
    BY <1>1
  <2>3. QED
    BY <2>1, <2>2 DEF Swap, Statuses
<1>3. ASSUME NEW l \in Leaves
      PROVE  /\ leaves'[l].member = leaves[l].member
             /\ leaves'[l].status =
                  IF leaves[l].status = "pending" /\ leaves[l].member = m
                  THEN "cancelled" ELSE leaves[l].status
             /\ leaves'[l] \in Leave
  <2>1. leaves[l] \in Leave
    BY DEF TypeOK
  <2>2. (leaves[l] = [status |-> "pending", member |-> m])
          <=> (leaves[l].status = "pending" /\ leaves[l].member = m)
    BY <2>1 DEF Leave
  <2>3. leaves'[l] = IF leaves[l].status = "pending" /\ leaves[l].member = m
                     THEN [leaves[l] EXCEPT !.status = "cancelled"] ELSE leaves[l]
    BY <1>1, <2>2
  <2>4. QED
    BY <2>1, <2>3 DEF Leave, Statuses
<1>4. QED
  BY <1>1, <1>2, <1>3

\* Answering a request leaves every worker with a request of the right shape.
LEMMA AnswerTyped ==
    ASSUME TypeOK, NEW w, NEW h, Answer(w, h)
    PROVE  /\ request' \in [Workers -> Request]
           /\ \A v \in Workers : request'[v].fresh =>
                /\ v # w /\ request[v].fresh /\ request[v].shift # h
                /\ request'[v].op = request[v].op
                /\ request'[v].shift = request[v].shift
                /\ request'[v].member = request[v].member
<1>1. ASSUME NEW v \in Workers
      PROVE  /\ request'[v] \in Request
             /\ request'[v].fresh =>
                  /\ v # w /\ request[v].fresh /\ request[v].shift # h
                  /\ request'[v].op = request[v].op
                  /\ request'[v].shift = request[v].shift
                  /\ request'[v].member = request[v].member
  <2>1. request[v] \in Request
    BY DEF TypeOK
  <2>2. CASE v = w
    <3>1. request'[v] = Idle
      BY <2>2 DEF Answer
    <3>2. QED
      BY <3>1 DEF Idle, Request
  <2>3. CASE v # w
    <3>1. request'[v] = [request[v] EXCEPT !.fresh = @ /\ request[v].shift # h]
      BY <2>3 DEF Answer
    <3>2. QED
      BY <2>1, <2>3, <3>1 DEF Request
  <2>4. QED
    BY <2>2, <2>3
<1>2. request' = [v \in Workers |-> request'[v]]
  BY DEF Answer
<1>3. QED
  BY <1>1, <1>2

\* What a worker is about to write is well typed, whoever began it.
LEMMA BegunTyped ==
    ASSUME TypeOK, NEW w \in Workers, NEW asked \in Request, Begin(w, asked)
    PROVE  TypeOK'
BY DEF Begin, TypeOK, MembershipTypeOK, memberVars

\* The state stays well-typed.
THEOREM TypeCorrect == Spec => []TypeOK
<1>1. Init => TypeOK
  BY DEF Init, TypeOK, MembershipInit, MembershipTypeOK, NoSwap, NoLeave, Idle,
         Swap, Leave, Request, Statuses
<1>2. TypeOK /\ [Next]_vars => TypeOK'
  <2> SUFFICES ASSUME TypeOK, [Next]_vars
               PROVE  TypeOK'
    OBVIOUS
  <2>1. ASSUME NEW w \in Workers, Serve(w)
        PROVE  TypeOK'
    <3>1. CASE FinishEditShift(w)
      <4>1. request[w] \in Request /\ request[w].op = "edit"
        BY <3>1 DEF TypeOK, FinishEditShift, Serving
      <4>2. request[w].member \in Members \cup {Nobody}
        BY <4>1 DEF Request
      <4>3. request' \in [Workers -> Request]
        BY <3>1, AnswerTyped DEF FinishEditShift
      <4>4. QED
        BY <3>1, <4>2, <4>3
        DEF FinishEditShift, TypeOK, MembershipTypeOK, memberVars, PendingFor
    <3>2. CASE Refuse(w)
      <4>1. request' \in [Workers -> Request]
        BY <3>2, AnswerTyped DEF Refuse
      <4>2. QED
        BY <3>2, <4>1 DEF Refuse, TypeOK, MembershipTypeOK, memberVars
    <3>3. ASSUME NEW x \in Swaps, FinishRequestSwap(w, x)
          PROVE  TypeOK'
      <4>1. request' \in [Workers -> Request]
        BY <3>3, AnswerTyped DEF FinishRequestSwap
      <4>2. request[w] \in Request
        BY DEF TypeOK
      <4>3. [status |-> "pending", shift |-> request[w].shift,
             requester |-> request[w].member, target |-> request[w].target] \in Swap
        BY <4>2 DEF Request, Swap, Statuses
      <4>4. swaps' \in [Swaps -> Swap]
        BY <3>3, <4>3 DEF FinishRequestSwap, TypeOK
      <4>5. QED
        BY <3>3, <4>1, <4>4 DEF FinishRequestSwap, TypeOK, MembershipTypeOK, memberVars
    <3>4. ASSUME NEW l \in Leaves, FinishTimeOff(w, l)
          PROVE  TypeOK'
      <4>1. request' \in [Workers -> Request]
        BY <3>4, AnswerTyped DEF FinishTimeOff
      <4>2. request[w] \in Request
        BY DEF TypeOK
      <4>3. [status |-> "pending", member |-> request[w].member] \in Leave
        BY <4>2 DEF Request, Leave, Statuses
      <4>4. leaves' \in [Leaves -> Leave]
        BY <3>4, <4>3 DEF FinishTimeOff, TypeOK
      <4>5. QED
        BY <3>4, <4>1, <4>4 DEF FinishTimeOff, TypeOK, MembershipTypeOK, memberVars
    <3>5. ASSUME NEW m \in Members, BeginTimeOff(w, m)
          PROVE  TypeOK'
      <4>1. Asked("leave", NoShift, m, Nobody) \in Request
        BY DEF Asked, Request
      <4>2. QED
        BY <3>5, <4>1, BegunTyped DEF BeginTimeOff
    <3>6. ASSUME NEW m \in Members, NEW h \in Shifts, NEW chosen \in {m, holder[h]},
                 BeginEditShift(w, h, chosen)
          PROVE  TypeOK'
      <4>1. Asked("edit", h, chosen, Nobody) \in Request
        BY <3>6 DEF BeginEditShift, Exists, Asked, Request
      <4>2. QED
        BY <3>6, <4>1, BegunTyped DEF BeginEditShift
    <3>7. ASSUME NEW m \in Members, NEW h \in Shifts, NEW target \in Members \cup {Nobody},
                 BeginRequestSwap(w, m, h, target)
          PROVE  TypeOK'
      <4>1. Asked("swap", h, m, target) \in Request
        BY DEF Asked, Request
      <4>2. QED
        BY <3>7, <4>1, BegunTyped DEF BeginRequestSwap
    <3>8. QED
      BY <2>1, <3>1, <3>2, <3>3, <3>4, <3>5, <3>6, <3>7 DEF Serve
  <2>2. ASSUME NEW h \in Shifts, DestroyShift(h)
        PROVE  TypeOK'
    <3>1. request' \in [Workers -> Request]
      BY <2>2, AnswerTyped DEF DestroyShift
    <3>2. NoSwap \in Swap
      BY DEF NoSwap, Swap, Statuses
    <3>3. swaps' \in [Swaps -> Swap]
      BY <2>2, <3>2 DEF DestroyShift, TypeOK
    <3>4. QED
      BY <2>2, <3>1, <3>3 DEF DestroyShift, TypeOK, MembershipTypeOK, memberVars
  <2>3. ASSUME NEW h \in Shifts, NEW m \in Members, CreateShift(h, m)
        PROVE  TypeOK'
    <3>1. request' \in [Workers -> Request]
      BY <2>3, AnswerTyped DEF CreateShift
    <3>2. QED
      BY <2>3, <3>1 DEF CreateShift, TypeOK, MembershipTypeOK, memberVars
  <2>4. ASSUME NEW x \in Swaps, RejectShiftSwap(x)
        PROVE  TypeOK'
    <3>1. request' \in [Workers -> Request]
      BY <2>4, AnswerTyped DEF RejectShiftSwap
    <3>2. swaps' \in [Swaps -> Swap]
      BY <2>4 DEF RejectShiftSwap, TypeOK, Swap, Statuses
    <3>3. QED
      BY <2>4, <3>1, <3>2 DEF RejectShiftSwap, TypeOK, MembershipTypeOK, memberVars
  <2>5. ASSUME NEW x \in Swaps, NEW chosen \in Members \cup {Nobody},
               ApproveShiftSwap(x, chosen)
        PROVE  TypeOK'
    <3>1. request' \in [Workers -> Request]
      BY <2>5, AnswerTyped DEF ApproveShiftSwap
    <3>2. swaps[x] \in Swap
      BY DEF TypeOK
    <3>3. FinalTarget(x, chosen) \in Members
      BY <2>5, <3>2 DEF ApproveShiftSwap, FinalTarget, Swap
    <3>4. swaps' \in [Swaps -> Swap]
      BY <2>5, <3>2, <3>3 DEF ApproveShiftSwap, TypeOK, Swap, Statuses
    <3>5. QED
      BY <2>5, <3>1, <3>3, <3>4
      DEF ApproveShiftSwap, TypeOK, MembershipTypeOK, memberVars, PendingFor
  <2>6. ASSUME NEW l \in Leaves, NEW s \in {"approved", "rejected"}, DecideTimeOff(l, s)
        PROVE  TypeOK'
    BY <2>6 DEF DecideTimeOff, TypeOK, MembershipTypeOK, memberVars, Leave, Statuses
  <2>7. ASSUME NEW m \in Members, Deactivate(m)
        PROVE  TypeOK'
    BY <2>7 DEF Deactivate, SaveInactive, TypeOK, MembershipTypeOK
  <2>8. ASSUME NEW m \in Members, Reactivate(m)
        PROVE  TypeOK'
    BY <2>8 DEF Reactivate, SaveActive, TypeOK, MembershipTypeOK
  <2>9. ASSUME NEW m \in Members, CrashBeforeHandler(m)
        PROVE  TypeOK'
    BY <2>9 DEF CrashBeforeHandler, HandlerLost, TypeOK, MembershipTypeOK
  <2>10. ASSUME NEW m \in Members, HandleMembershipDeactivation(m)
         PROVE  TypeOK'
    <3>1. swaps' \in [Swaps -> Swap] /\ leaves' \in [Leaves -> Leave]
      BY <2>10, HandlerOnRows
    <3>2. QED
      BY <2>10, <3>1 DEF HandleMembershipDeactivation, HandlerRuns, TypeOK, MembershipTypeOK
  <2>11. CASE UNCHANGED vars
    BY <2>11 DEF vars, memberVars, TypeOK, MembershipTypeOK
  <2>12. QED
    BY <2>1, <2>2, <2>3, <2>4, <2>5, <2>6, <2>7, <2>8, <2>9, <2>10, <2>11
    DEF Next, Decide
<1>3. QED
  BY <1>1, <1>2, PTL DEF Spec

\* Once the handler of a deactivation has run, nothing that names the member is
\* left to decide, unless it was asked for when they were inactive already.
\* The property is inductive: a request that comes late is marked when it is
\* created, and only the handler settles a member.
THEOREM NothingPendingAfterDeactivation == Spec => []DeactivatedHasNothingPending
<1> DEFINE SwapsDecided(m) == \A x \in Swaps :
             Pending(x) /\ m \in {swaps[x].requester, swaps[x].target} => x \in late
           LeavesDecided(m) == \A l \in Leaves :
             leaves[l].status = "pending" /\ leaves[l].member = m => l \in late
           Inv == \A m \in Members : Settled(m) => SwapsDecided(m) /\ LeavesDecided(m)
<1>1. Init => Inv
  BY DEF Init, MembershipInit, Settled
<1>2. TypeOK /\ Inv /\ [Next]_vars => Inv'
  <2> SUFFICES ASSUME TypeOK, Inv, [Next]_vars, NEW m \in Members, Settled(m)'
               PROVE  SwapsDecided(m)' /\ LeavesDecided(m)'
    OBVIOUS
  <2> USE DEF Settled, Pending
  <2>1. ASSUME NEW w \in Workers, Serve(w)
        PROVE  SwapsDecided(m)' /\ LeavesDecided(m)'
    <3>1. ASSUME NEW x \in Swaps, FinishRequestSwap(w, x)
          PROVE  SwapsDecided(m)' /\ LeavesDecided(m)'
      <4>1. SwapsDecided(m) /\ LeavesDecided(m) /\ ~active[m]
        BY <3>1 DEF FinishRequestSwap, memberVars
      <4>2. /\ late \subseteq late' /\ leaves' = leaves
            /\ \A y \in Swaps : y # x => swaps'[y] = swaps[y]
            /\ swaps'[x].requester = request[w].member
            /\ swaps'[x].target = request[w].target
            /\ Inactive({request[w].member, request[w].target}) => x \in late'
        BY <3>1 DEF FinishRequestSwap, TypeOK
      <4>3. m \in {swaps'[x].requester, swaps'[x].target} => x \in late'
        BY <4>1, <4>2 DEF Inactive
      <4>4. QED
        BY <4>1, <4>2, <4>3
    <3>2. ASSUME NEW l \in Leaves, FinishTimeOff(w, l)
          PROVE  SwapsDecided(m)' /\ LeavesDecided(m)'
      <4>1. SwapsDecided(m) /\ LeavesDecided(m) /\ ~active[m]
        BY <3>2 DEF FinishTimeOff, memberVars
      <4>2. /\ late \subseteq late' /\ swaps' = swaps
            /\ \A k \in Leaves : k # l => leaves'[k] = leaves[k]
            /\ leaves'[l].member = request[w].member
            /\ Inactive({request[w].member}) => l \in late'
        BY <3>2 DEF FinishTimeOff, TypeOK
      <4>3. leaves'[l].member = m => l \in late'
        BY <4>1, <4>2 DEF Inactive
      <4>4. QED
        BY <4>1, <4>2, <4>3
    <3>3. CASE UNCHANGED <<swaps, leaves, late, memberVars>>
      BY <3>3 DEF memberVars
    <3>4. QED
      BY <2>1, <3>1, <3>2, <3>3
      DEF Serve, FinishEditShift, Refuse, BeginTimeOff, BeginEditShift, BeginRequestSwap, Begin
  <2>2. ASSUME NEW h \in Shifts, DestroyShift(h)
        PROVE  SwapsDecided(m)' /\ LeavesDecided(m)'
    <3>1. SwapsDecided(m) /\ LeavesDecided(m)
      BY <2>2 DEF DestroyShift, memberVars
    <3>2. \A x \in Swaps : swaps'[x].status = "pending" =>
            swaps'[x] = swaps[x] /\ (x \in late => x \in late')
      BY <2>2 DEF DestroyShift, NoSwap
    <3>3. leaves' = leaves /\ \A l \in Leaves : l \in late => l \in late'
      BY <2>2 DEF DestroyShift
    <3>4. QED
      BY <3>1, <3>2, <3>3
  <2>3. ASSUME NEW h \in Shifts, NEW n \in Members, CreateShift(h, n)
        PROVE  SwapsDecided(m)' /\ LeavesDecided(m)'
    BY <2>3 DEF CreateShift, memberVars
  <2>4. ASSUME NEW x \in Swaps, RejectShiftSwap(x)
        PROVE  SwapsDecided(m)' /\ LeavesDecided(m)'
    BY <2>4 DEF RejectShiftSwap, memberVars, TypeOK, Swap
  <2>5. ASSUME NEW x \in Swaps, NEW chosen \in Members \cup {Nobody},
               ApproveShiftSwap(x, chosen)
        PROVE  SwapsDecided(m)' /\ LeavesDecided(m)'
    <3>1. SwapsDecided(m) /\ LeavesDecided(m) /\ late' = late /\ leaves' = leaves
      BY <2>5 DEF ApproveShiftSwap, memberVars
    <3>2. \A y \in Swaps : swaps'[y].status = "pending" => swaps'[y] = swaps[y]
      BY <2>5 DEF ApproveShiftSwap, TypeOK, Swap
    <3>3. QED
      BY <3>1, <3>2
  <2>6. ASSUME NEW l \in Leaves, NEW s \in {"approved", "rejected"}, DecideTimeOff(l, s)
        PROVE  SwapsDecided(m)' /\ LeavesDecided(m)'
    <3>1. SwapsDecided(m) /\ LeavesDecided(m) /\ late' = late /\ swaps' = swaps
      BY <2>6 DEF DecideTimeOff, memberVars
    <3>2. \A k \in Leaves : leaves'[k].status = "pending" => leaves'[k] = leaves[k]
      BY <2>6 DEF DecideTimeOff, TypeOK, Leave
    <3>3. QED
      BY <3>1, <3>2
  <2>7. ASSUME NEW n \in Members, \/ Deactivate(n) \/ Reactivate(n) \/ CrashBeforeHandler(n)
        PROVE  SwapsDecided(m)' /\ LeavesDecided(m)'
    BY <2>7 DEF Deactivate, Reactivate, CrashBeforeHandler, SaveInactive, SaveActive,
                HandlerLost, TypeOK, MembershipTypeOK
  <2>8. ASSUME NEW n \in Members, HandleMembershipDeactivation(n)
        PROVE  SwapsDecided(m)' /\ LeavesDecided(m)'
    <3>1. late' = late /\ active' = active /\ abandoned' = abandoned
          /\ cascading' = cascading \ {n}
      BY <2>8 DEF HandleMembershipDeactivation, HandlerRuns
    <3>2. CASE n = m
      BY <2>8, <3>2, HandlerOnRows DEF Moot
    <3>3. CASE n # m
      <4>1. SwapsDecided(m) /\ LeavesDecided(m)
        BY <3>1, <3>3
      <4>2. QED
        BY <2>8, <3>1, <4>1, HandlerOnRows
    <3>4. QED
      BY <3>2, <3>3
  <2>9. CASE UNCHANGED vars
    BY <2>9 DEF vars, memberVars
  <2>10. QED
    BY <2>1, <2>2, <2>3, <2>4, <2>5, <2>6, <2>7, <2>8, <2>9 DEF Next, Decide
<1>3. TypeOK /\ Inv => DeactivatedHasNothingPending
  BY DEF DeactivatedHasNothingPending, TypeOK, Leave
<1>4. QED
  BY <1>1, <1>2, <1>3, TypeCorrect, PTL DEF Spec

\* A check that is still good: nobody has touched the shift or its swaps since.
CheckHolds(w) ==
    request[w].op = "swap" /\ request[w].fresh =>
      /\ request[w].shift \in Shifts /\ request[w].member \in Members
      /\ holder[request[w].shift] = request[w].member
      /\ PendingFor(request[w].shift) = {}

\* What a pending swap that nobody has disturbed relies on.
GivesOwnShift(x) ==
    Pending(x) /\ x \notin disturbed =>
      /\ swaps[x].requester \in Members
      /\ holder[swaps[x].shift] = swaps[x].requester
      /\ \A y \in Swaps : Pending(y) /\ y \notin disturbed /\ swaps[y].shift = swaps[x].shift
                            => y = x

\* The inductive invariant of the swaps.
SwapInv == (\A w \in Workers : CheckHolds(w)) /\ (\A x \in Swaps : GivesOwnShift(x))

\* An answer about shift h leaves every check that still counts on another
\* shift; it holds on when that shift and its swaps are left alone.
LEMMA OtherChecksHold ==
    ASSUME TypeOK, SwapInv, NEW w, NEW h, Answer(w, h),
           \A g \in Shifts : g # h =>
              holder'[g] = holder[g] /\ PendingFor(g)' \subseteq PendingFor(g)
    PROVE  \A v \in Workers : CheckHolds(v)'
<1> SUFFICES ASSUME NEW v \in Workers, request'[v].op = "swap", request'[v].fresh
             PROVE  CheckHolds(v)'
  BY DEF CheckHolds
<1>1. /\ request[v].fresh /\ request[v].op = "swap" /\ request[v].shift # h
      /\ request'[v].shift = request[v].shift /\ request'[v].member = request[v].member
  BY AnswerTyped
<1>2. /\ request[v].shift \in Shifts /\ request[v].member \in Members
      /\ holder[request[v].shift] = request[v].member
      /\ PendingFor(request[v].shift) = {}
  BY <1>1 DEF SwapInv, CheckHolds
<1>3. PendingFor(request[v].shift)' = {}
  BY <1>1, <1>2 DEF PendingFor
<1>4. QED
  BY <1>1, <1>2, <1>3 DEF CheckHolds, PendingFor

\* A pending swap gives away a shift its requester still has, and is the only
\* one pending for it, but where the request raced another one or a manager or
\* such a request has reassigned the shift since.  SwapInv is inductive: it adds
\* what a request that is still to be written has found, as long as nobody has
\* touched the shift since (CheckHolds).
THEOREM SwapsAreTheRequesters == Spec => []SwapTakesFromRequester
<1>1. Init => SwapInv
  BY DEF Init, SwapInv, CheckHolds, GivesOwnShift, Pending, Idle, NoSwap
<1>2. TypeOK /\ SwapInv /\ [Next]_vars => SwapInv'
  <2> SUFFICES ASSUME TypeOK, SwapInv, [Next]_vars
               PROVE  SwapInv'
    OBVIOUS
  <2>1. ASSUME NEW w \in Workers, Serve(w)
        PROVE  SwapInv'
    <3>1. CASE FinishEditShift(w)
      <4> DEFINE h == request[w].shift
      <4>1. /\ Answer(w, h) /\ swaps' = swaps
            /\ \A g \in Shifts : g # h => holder'[g] = holder[g]
            /\ disturbed' = IF holder[h] = request[w].member THEN disturbed
                                                             ELSE disturbed \cup PendingFor(h)
        BY <3>1 DEF FinishEditShift, TypeOK
      <4>2. \A v \in Workers : CheckHolds(v)'
        <5>1. \A g \in Shifts : PendingFor(g)' = PendingFor(g)
          BY <4>1 DEF PendingFor, Pending
        <5>2. QED
          BY <4>1, <5>1, OtherChecksHold
      <4>3. ASSUME NEW x \in Swaps
            PROVE  GivesOwnShift(x)'
        <5> SUFFICES ASSUME Pending(x), x \notin disturbed'
                     PROVE  GivesOwnShift(x)'
          BY <4>1 DEF GivesOwnShift, Pending
        <5>1. x \notin disturbed
          BY <4>1
        <5>2. holder'[swaps[x].shift] = holder[swaps[x].shift]
          <6>1. CASE swaps[x].shift = h
            <7>1. holder[h] = request[w].member
              BY <4>1, <6>1 DEF PendingFor
            <7>2. holder' = [holder EXCEPT ![h] = request[w].member]
              BY <3>1 DEF FinishEditShift
            <7>3. QED
              BY <6>1, <7>1, <7>2 DEF TypeOK
          <6>2. CASE swaps[x].shift # h
            BY <3>1, <6>2 DEF FinishEditShift, TypeOK
          <6>3. QED
            BY <6>1, <6>2
        <5>3. QED
          BY <4>1, <5>1, <5>2 DEF SwapInv, GivesOwnShift, Pending
      <4>4. QED
        BY <4>2, <4>3 DEF SwapInv
    <3>2. CASE Refuse(w)
      <4>1. /\ Answer(w, NoShift) /\ swaps' = swaps /\ holder' = holder
            /\ disturbed' = disturbed
        BY <3>2 DEF Refuse
      <4>2. QED
        BY <4>1, OtherChecksHold DEF SwapInv, GivesOwnShift, PendingFor, Pending
    <3>3. ASSUME NEW x \in Swaps, FinishRequestSwap(w, x)
          PROVE  SwapInv'
      <4> DEFINE h == request[w].shift
      <4>1. /\ Answer(w, h) /\ holder' = holder
            /\ \A y \in Swaps : y # x => swaps'[y] = swaps[y]
            /\ swaps'[x].shift = h /\ swaps'[x].requester = request[w].member
            /\ request[w].op = "swap" /\ ~Pending(x)
            /\ disturbed' = IF request[w].fresh THEN disturbed ELSE disturbed \cup {x}
        BY <3>3 DEF FinishRequestSwap, TypeOK, Serving, Pending, NoSwap
      <4>2. \A v \in Workers : CheckHolds(v)'
        <5>1. \A g \in Shifts : g # h => PendingFor(g)' \subseteq PendingFor(g)
          BY <4>1 DEF PendingFor, Pending
        <5>2. QED
          BY <4>1, <5>1, OtherChecksHold
      <4>3. request[w].fresh => holder[h] = request[w].member /\ PendingFor(h) = {}
                               /\ request[w].member \in Members
        BY <4>1 DEF SwapInv, CheckHolds
      <4>4. ASSUME NEW y \in Swaps
            PROVE  GivesOwnShift(y)'
        <5>1. CASE y = x
          BY <4>1, <4>3, <5>1 DEF GivesOwnShift, PendingFor, Pending
        <5>2. CASE y # x
          BY <4>1, <4>3, <5>2 DEF SwapInv, GivesOwnShift, PendingFor, Pending
        <5>3. QED
          BY <5>1, <5>2
      <4>5. QED
        BY <4>2, <4>4 DEF SwapInv
    <3>4. ASSUME NEW l \in Leaves, FinishTimeOff(w, l)
          PROVE  SwapInv'
      <4>1. /\ Answer(w, NoShift) /\ swaps' = swaps /\ holder' = holder
            /\ disturbed' = disturbed
        BY <3>4 DEF FinishTimeOff
      <4>2. QED
        BY <4>1, OtherChecksHold DEF SwapInv, GivesOwnShift, PendingFor, Pending
    <3>5. ASSUME NEW m \in Members, NEW h \in Shifts, NEW target \in Members \cup {Nobody},
                 BeginRequestSwap(w, m, h, target)
          PROVE  SwapInv'
      <4>1. /\ request' = [request EXCEPT ![w] = Asked("swap", h, m, target)]
            /\ swaps' = swaps /\ holder' = holder /\ disturbed' = disturbed
            /\ holder[h] = m /\ PendingFor(h) = {}
        BY <3>5 DEF BeginRequestSwap, Begin, MayRequestSwap
      <4>2. ASSUME NEW v \in Workers
            PROVE  CheckHolds(v)'
        <5>1. CASE v = w
          BY <4>1, <5>1 DEF CheckHolds, Asked, PendingFor, Pending, TypeOK
        <5>2. CASE v # w
          BY <4>1, <5>2 DEF SwapInv, CheckHolds, PendingFor, Pending, TypeOK
        <5>3. QED
          BY <5>1, <5>2
      <4>3. QED
        BY <4>1, <4>2 DEF SwapInv, GivesOwnShift, Pending
    <3>6. ASSUME NEW asked \in Request, Begin(w, asked), asked.op # "swap"
          PROVE  SwapInv'
      <4>1. /\ request' = [request EXCEPT ![w] = asked]
            /\ swaps' = swaps /\ holder' = holder /\ disturbed' = disturbed
        BY <3>6 DEF Begin
      <4>2. QED
        BY <3>6, <4>1 DEF SwapInv, CheckHolds, GivesOwnShift, PendingFor, Pending, TypeOK
    <3>7. ASSUME NEW m \in Members, BeginTimeOff(w, m)
          PROVE  SwapInv'
      BY <3>6, <3>7 DEF BeginTimeOff, Asked, Request
    <3>8. ASSUME NEW m \in Members, NEW h \in Shifts, NEW chosen \in {m, holder[h]},
                 BeginEditShift(w, h, chosen)
          PROVE  SwapInv'
      BY <3>6, <3>8 DEF BeginEditShift, Exists, Asked, Request
    <3>9. QED
      BY <2>1, <3>1, <3>2, <3>3, <3>4, <3>5, <3>7, <3>8 DEF Serve
  <2>2. ASSUME NEW h \in Shifts, DestroyShift(h)
        PROVE  SwapInv'
    <3>1. /\ Answer(Nobody, h)
          /\ \A g \in Shifts : g # h => holder'[g] = holder[g]
          /\ \A x \in Swaps : /\ Pending(x)' => swaps[x].shift # h /\ swaps'[x] = swaps[x]
                              /\ Pending(x)' => (x \in disturbed' <=> x \in disturbed)
      BY <2>2 DEF DestroyShift, TypeOK, Pending, NoSwap
    <3>2. \A x \in Swaps : holder[swaps[x].shift] = holder'[swaps[x].shift]
                             \/ swaps[x].shift = h
      BY <2>2 DEF DestroyShift, TypeOK
    <3>3. \A g \in Shifts : g # h => PendingFor(g)' \subseteq PendingFor(g)
      BY <3>1 DEF PendingFor, Pending
    <3>4. \A v \in Workers : CheckHolds(v)'
      BY <3>1, <3>3, OtherChecksHold
    <3>5. \A x \in Swaps : GivesOwnShift(x)'
      BY <3>1, <3>2 DEF SwapInv, GivesOwnShift, Pending
    <3>6. QED
      BY <3>4, <3>5 DEF SwapInv
  <2>3. ASSUME NEW h \in Shifts, NEW m \in Members, CreateShift(h, m)
        PROVE  SwapInv'
    <3>1. /\ Answer(Nobody, h) /\ swaps' = swaps /\ disturbed' = disturbed
          /\ holder[h] = Nobody /\ holder' = [holder EXCEPT ![h] = m]
      BY <2>3 DEF CreateShift
    <3>2. \A v \in Workers : CheckHolds(v)'
      BY <3>1, OtherChecksHold DEF PendingFor, Pending, TypeOK
    <3>3. \A x \in Swaps : GivesOwnShift(x)'
      BY <3>1 DEF SwapInv, GivesOwnShift, Pending, TypeOK, Swap
    <3>4. QED
      BY <3>2, <3>3 DEF SwapInv
  <2>4. ASSUME NEW x \in Swaps, RejectShiftSwap(x)
        PROVE  SwapInv'
    <3>1. /\ Answer(Nobody, swaps[x].shift) /\ holder' = holder /\ disturbed' = disturbed
          /\ \A y \in Swaps : Pending(y)' => Pending(y) /\ swaps'[y] = swaps[y]
      BY <2>4 DEF RejectShiftSwap, TypeOK, Pending, Swap
    <3>2. \A v \in Workers : CheckHolds(v)'
      BY <3>1, OtherChecksHold DEF PendingFor
    <3>3. QED
      BY <3>1, <3>2 DEF SwapInv, GivesOwnShift, Pending
  <2>5. ASSUME NEW x \in Swaps, NEW chosen \in Members \cup {Nobody},
               ApproveShiftSwap(x, chosen)
        PROVE  SwapInv'
    <3> DEFINE h == swaps[x].shift
    <3>1. /\ Answer(Nobody, h) /\ Pending(x)
          /\ holder' = [holder EXCEPT ![h] = FinalTarget(x, chosen)]
          /\ \A y \in Swaps : Pending(y)' => y # x /\ Pending(y) /\ swaps'[y] = swaps[y]
          /\ disturbed' = IF x \in disturbed THEN disturbed \cup PendingFor(h) ELSE disturbed
      BY <2>5 DEF ApproveShiftSwap, TypeOK, Pending, Swap
    <3>2. \A v \in Workers : CheckHolds(v)'
      BY <3>1, OtherChecksHold DEF PendingFor, TypeOK
    <3>3. ASSUME NEW y \in Swaps, Pending(y)', y \notin disturbed'
          PROVE  GivesOwnShift(y)'
      <4>1. swaps[y].shift # h
        BY <3>1, <3>3 DEF SwapInv, GivesOwnShift, PendingFor
      <4>2. holder'[swaps[y].shift] = holder[swaps[y].shift]
        BY <3>1, <4>1 DEF TypeOK
      <4>3. QED
        BY <3>1, <3>3, <4>2 DEF SwapInv, GivesOwnShift, Pending
    <3>4. QED
      BY <3>2, <3>3 DEF SwapInv, GivesOwnShift
  <2>6. ASSUME NEW l \in Leaves, NEW s \in {"approved", "rejected"}, DecideTimeOff(l, s)
        PROVE  SwapInv'
    BY <2>6 DEF DecideTimeOff, SwapInv, CheckHolds, GivesOwnShift, PendingFor, Pending
  <2>7. ASSUME NEW m \in Members, \/ Deactivate(m) \/ Reactivate(m) \/ CrashBeforeHandler(m)
        PROVE  SwapInv'
    BY <2>7 DEF Deactivate, Reactivate, CrashBeforeHandler,
                SwapInv, CheckHolds, GivesOwnShift, PendingFor, Pending
  <2>8. ASSUME NEW m \in Members, HandleMembershipDeactivation(m)
        PROVE  SwapInv'
    <3>1. /\ request' = request /\ holder' = holder /\ disturbed' = disturbed
          /\ \A x \in Swaps : /\ Pending(x)' => Pending(x)
                              /\ swaps'[x].shift = swaps[x].shift
                              /\ swaps'[x].requester = swaps[x].requester
      BY <2>8, HandlerOnRows DEF HandleMembershipDeactivation, Pending
    <3>2. QED
      BY <3>1 DEF SwapInv, CheckHolds, GivesOwnShift, PendingFor
  <2>9. CASE UNCHANGED vars
    BY <2>9 DEF vars, SwapInv, CheckHolds, GivesOwnShift, PendingFor, Pending
  <2>10. QED
    BY <2>1, <2>2, <2>3, <2>4, <2>5, <2>6, <2>7, <2>8, <2>9 DEF Next, Decide
<1>3. SwapInv => SwapTakesFromRequester
  BY DEF SwapInv, GivesOwnShift, SwapTakesFromRequester, PendingFor
<1>4. QED
  BY <1>1, <1>2, <1>3, TypeCorrect, PTL DEF Spec
=============================================================================
