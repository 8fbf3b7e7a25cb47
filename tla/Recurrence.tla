----------------------------- MODULE Recurrence -----------------------------
(***************************************************************************)
(* The date arithmetic of recurring rules (core/recurrence.py).  Dates are *)
(* numbered from a Monday; each month is given by its first day.           *)
(***************************************************************************)
EXTENDS Integers, Sequences

CONSTANTS
    WeekLength,  \* 7
    MonthStarts,  \* the first day of each month, the first one being day 0
    Ongoing       \* a rule's end_date is null

ASSUME DatesAssumption ==
    /\ WeekLength \in Nat \ {0}
    /\ MonthStarts \in Seq(Nat) /\ Len(MonthStarts) > 1 /\ MonthStarts[1] = 0
    /\ \A k \in 1 .. Len(MonthStarts) - 1 : MonthStarts[k] < MonthStarts[k + 1]
    /\ Ongoing \notin Nat

Later(a, b) == IF a > b THEN a ELSE b
Sooner(a, b) == IF a < b THEN a ELSE b

Weekday(d) == d % WeekLength
NextWeekdayOnOrAfter(d, weekday) == d + ((weekday - Weekday(d)) % WeekLength)

\* The last entry of MonthStarts only ends the last month.
Months == 1 .. Len(MonthStarts) - 1
MonthOf(d) == CHOOSE k \in Months : MonthStarts[k] <= d /\ d < MonthStarts[k + 1]
DayOfMonth(d) == d - MonthStarts[MonthOf(d)] + 1
HasDay(k, day) == day <= MonthStarts[k + 1] - MonthStarts[k]

\* A month without the day is skipped.
MonthlyDates(day, from, to) ==
    {d \in from .. to : \E k \in MonthOf(from) .. MonthOf(to) :
                          HasDay(k, day) /\ d = MonthStarts[k] + day - 1}

FirstFromWindow(anchor, from, step) == \* faulty variant: the window sets the phase
    IF from <= anchor THEN anchor ELSE NextWeekdayOnOrAfter(from, Weekday(anchor))
First(anchor, from, step) ==
    LET remainder == (from - anchor) % step
    IN IF from <= anchor THEN anchor
       ELSE IF remainder = 0 THEN from ELSE from + step - remainder
SteppedDates(first, step, to) == {first + n * step : n \in 0 .. (to - first) \div step}

OccurrenceDates(rule, windowStart, windowEnd) ==
    LET from == Later(rule.start, windowStart)
        to == IF rule.end = Ongoing THEN windowEnd ELSE Sooner(rule.end, windowEnd)
        step == IF rule.recurrence = "weekly" THEN WeekLength ELSE 2 * WeekLength
        anchor == NextWeekdayOnOrAfter(rule.start, rule.weekday)
    IN IF from > to THEN {}
       ELSE IF rule.recurrence = "monthly" THEN MonthlyDates(DayOfMonth(rule.start), from, to)
       ELSE SteppedDates(First(anchor, from, step), step, to)

(***************************************************************************)
(* What a rule means, whatever window it is looked at through: a weekly    *)
(* one falls on its weekday, a biweekly one on every other of these,       *)
(* counted from the first, and a monthly one on the start's day of the     *)
(* month.                                                                  *)
(***************************************************************************)

Due(rule, d) ==
    /\ rule.start <= d /\ (rule.end = Ongoing \/ d <= rule.end)
    /\ CASE rule.recurrence = "monthly" -> DayOfMonth(d) = DayOfMonth(rule.start)
         [] rule.recurrence = "weekly" -> Weekday(d) = rule.weekday
         [] OTHER -> /\ Weekday(d) = rule.weekday
                     /\ ((d - rule.start) \div WeekLength) % 2 = 0
==============================================================================
