------------------------------- MODULE Payroll -------------------------------
(***************************************************************************)
(* The arithmetic of a pay stub (employees/payroll.py): hours worked per   *)
(* week, split at the overtime threshold, then paid and taxed.  Time runs  *)
(* in ticks (the code measures to the microsecond), hours are kept in      *)
(* hundredths and money in cents, as the code's quantize(CENTS) does.      *)
(***************************************************************************)
EXTENDS Integers, FiniteSetsExt

CONSTANTS
    TicksPerHundredth,  \* ticks in a hundredth of an hour
    DayLength,          \* ticks in a day
    DaysPerWeek         \* 7; day 0 is a Monday

ASSUME CalendarAssumption ==
    /\ TicksPerHundredth \in Nat \ {0}
    /\ DayLength \in Nat \ {0}
    /\ DaysPerWeek \in Nat \ {0}

\* Decimal.quantize: n / d to the nearest integer, ties to the even one.
Quantize(n, d) ==
    LET below == n \div d
        twice == 2 * (n % d)
    IN IF twice < d \/ (twice = d /\ below % 2 = 0) THEN below ELSE below + 1

Day(t) == t \div DayLength
WeekOf(t) == Day(t) \div DaysPerWeek

\* Ticks an entry is paid for: breaks that never ended are not deducted.
Worked(card) == card.out - card.in - card.pause

InPeriod(card, period) == Day(card.in) \in period.from .. period.to

\* Hundredths of an hour per ISO week of the entry's start, for the entries
\* `cards[i]` with i in `counted`.
Weeks(cards, counted) == {WeekOf(cards[i].in) : i \in counted}
WeekHours(cards, counted, week) ==
    Quantize(MapThenSumSet(LAMBDA i : Worked(cards[i]),
                           {i \in counted : WeekOf(cards[i].in) = week}),
             TicksPerHundredth)

\* faulty variant: the threshold is applied to the whole period
OvertimeOfPeriod(cards, counted, threshold) ==
    LET hours == MapThenSumSet(LAMBDA k : WeekHours(cards, counted, k), Weeks(cards, counted))
    IN IF hours > threshold THEN hours - threshold ELSE 0
RegularHours(cards, counted, threshold) ==
    MapThenSumSet(LAMBDA k : LET h == WeekHours(cards, counted, k)
                             IN IF h > threshold THEN threshold ELSE h,
                  Weeks(cards, counted))
OvertimeHours(cards, counted, threshold) ==
    MapThenSumSet(LAMBDA k : LET h == WeekHours(cards, counted, k)
                             IN IF h > threshold THEN h - threshold ELSE 0,
                  Weeks(cards, counted))

OvertimeRate(rate) == Quantize(3 * rate, 2)
GrossPay(regular, overtime, rate) ==
    Quantize(regular * rate + overtime * OvertimeRate(rate), 100)
NetPay(gross) == gross - Quantize(15 * gross, 100)
==============================================================================
