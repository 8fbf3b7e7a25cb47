----------------------------- MODULE MCRecurring -----------------------------
(* Instances of Recurring for TLC. *)
EXTENDS Recurring, TLC

\* Weeks of two days; months of 2, 1 and 3 days, so that a rule on the second
\* day skips the second month.
MCMonthStarts == <<0, 2, 3, 6>>
Shift(recurrence, time) ==
    [kind |-> "shift", recurrence |-> recurrence, start |-> 0, end |-> Ongoing,
     weekday |-> 0, time |-> time, sound |-> TRUE, active |-> TRUE]
Document(kind, recurrence, start, sound) ==
    [kind |-> kind, recurrence |-> recurrence, start |-> start, end |-> 5,
     weekday |-> Weekday(start), time |-> 0, sound |-> sound, active |-> TRUE]
MCChoices == {Shift("biweekly", 0), Shift("biweekly", 1),
              Document("invoice", "monthly", 1, TRUE), Document("bill", "weekly", 1, FALSE)}
MCSlots == {<<4, 0>>}

Symmetry == Permutations(CeleryWorkers) \cup Permutations(Rules)
=============================================================================
