------------------------------ MODULE Recurring ------------------------------
(***************************************************************************)
(* The two daily expansions: recurring schedules into shifts               *)
(* (employees/scheduling.py) and recurring transactions into invoices and  *)
(* bills (finance/recurring.py).                                           *)
(*                                                                         *)
(* A run reads the active rules once and then works through their dates in *)
(* the window.  Looking for a row and inserting it are apart, and each     *)
(* insert commits by itself, so two runs and the managers' edits may       *)
(* interleave with it; a unique constraint decides a race.  A shift is     *)
(* found by its start, which a manager may change; a document by its       *)
(* occurrence date, which nobody does.                                     *)
(***************************************************************************)
EXTENDS Recurrence, FiniteSets

CONSTANTS
    Rules,    \* RecurringSchedule and RecurringTransaction keys
    NoRule,   \* the run is between two rules
    NoDate,   \* the run is between two dates
    CeleryWorkers,
    RuleChoices, \* what a rule may be, see Rule
    Slots,    \* starts <<date, time>> a manager may move a shift to
    Window,   \* window_days, 28
    LastDay   \* bound: the calendar stops here

\* Every window lies in the calendar.
ASSUME WindowAssumption ==
    /\ Window \in Nat /\ LastDay \in Nat
    /\ LastDay + Window < MonthStarts[Len(MonthStarts)]

VARIABLES
    today,   \* timezone.now().date()
    rules,   \* the rules, with what their shift template says
    rows,    \* the rows that have a rule: shifts, invoices and bills
    runs,    \* what each worker is expanding
    undone   \* history: starts of rows deleted or moved away during a run

recurringVars == <<today, rules, rows, runs, undone>>

\* `weekday` and `time` are the template's; a transaction has its start's
\* weekday and time 0.  `sound`: its line item presets can be computed with.
\* `active` also stands for the business's is_active.
Kinds == {"shift", "invoice", "bill"}
Rule == [kind : Kinds, recurrence : {"weekly", "biweekly", "monthly"},
         start : Nat, end : Nat \cup {Ongoing}, weekday : 0 .. WeekLength - 1, time : Nat,
         sound : BOOLEAN, active : BOOLEAN]
Absent == {"none", "deleted"}
NotThere(kind) == [kind |-> kind]
RuleExists(r) == rules[r].kind \notin Absent

\* A rule as a run has read it.
Snapshot == [id : Rules, rule : Rule]

ASSUME InputAssumption ==
    /\ RuleChoices \subseteq Rule /\ Slots \subseteq Nat \X Nat
    /\ \A c \in RuleChoices : c.kind # "shift" => c.time = 0 /\ c.weekday = Weekday(c.start)
    /\ NoDate \notin Nat /\ NoRule \notin Snapshot

\* `occurrence`, `time` and `copy` are history: what a shift was generated for,
\* and how many rows with its start there were.
Row == [rule : Rules, kind : Kinds, start : Nat \X Nat,
        occurrence : Nat, time : Nat, copy : Nat, moved : BOOLEAN]

\* `seen` is history.
Run == [busy : BOOLEAN, from : Nat, todo : SUBSET Snapshot, current : Snapshot \cup {NoRule},
        dates : SUBSET Nat, missing : Nat \cup {NoDate}, seen : SUBSET Snapshot]
NotRunning == [busy |-> FALSE, from |-> 0, todo |-> {}, current |-> NoRule, dates |-> {},
               missing |-> NoDate, seen |-> {}]

RecurringTypeOK ==
    /\ today \in 0 .. LastDay
    /\ rules \in [Rules -> Rule \cup {NotThere(kind) : kind \in Absent}]
    /\ rows \subseteq Row
    /\ runs \in [CeleryWorkers -> Run]
    /\ undone \subseteq [rule : Rules, kind : Kinds, start : Nat \X Nat]

RecurringInit ==
    /\ today = 0
    /\ rules = [r \in Rules |-> NotThere("none")]
    /\ rows = {}
    /\ runs = [w \in CeleryWorkers |-> NotRunning]
    /\ undone = {}

Found(r, kind, start) == \E row \in rows : row.rule = r /\ row.kind = kind /\ row.start = start
Undo(row) ==
    undone' = IF \E w \in CeleryWorkers : runs[w].busy
              THEN undone \cup {[rule |-> row.rule, kind |-> row.kind, start |-> row.start]}
              ELSE undone

(***************************************************************************)
(* Managers.                                                               *)
(***************************************************************************)

CreateRule(r, choice) ==
    /\ rules[r].kind = "none"
    /\ rules' = [rules EXCEPT ![r] = choice]
    /\ UNCHANGED <<today, rows, runs, undone>>

\* Also an edit of the schedule's template; a transaction may change its kind.
EditRule(r, choice) ==
    /\ RuleExists(r)
    /\ choice.kind = "shift" <=> rules[r].kind = "shift"
    /\ rules' = [rules EXCEPT ![r] = choice]
    /\ UNCHANGED <<today, rows, runs, undone>>

PauseRule(r) ==
    /\ RuleExists(r)
    /\ rules' = [rules EXCEPT ![r].active = ~@]
    /\ UNCHANGED <<today, rows, runs, undone>>

\* Its rows stay, without a rule.
DestroyRule(r) ==
    /\ RuleExists(r)
    /\ rules' = [rules EXCEPT ![r] = NotThere("deleted")]
    /\ rows' = {row \in rows : row.rule # r}
    /\ UNCHANGED <<today, runs, undone>>

\* EmployeeShiftViewSet.update: two shifts of a rule cannot start together.
MoveShift(row, start) ==
    /\ row.kind = "shift"
    /\ ~Found(row.rule, "shift", start)
    /\ rows' = (rows \ {row}) \cup {[row EXCEPT !.start = start, !.moved = TRUE]}
    /\ Undo(row)
    /\ UNCHANGED <<today, rules, runs>>

DestroyRow(row) ==
    /\ rows' = rows \ {row}
    /\ Undo(row)
    /\ UNCHANGED <<today, rules, runs>>

(***************************************************************************)
(* A run.                                                                  *)
(***************************************************************************)

Expandable(r) ==
    /\ RuleExists(r)
    /\ rules[r].active
    /\ rules[r].start <= today + Window
    /\ rules[r].end = Ongoing \/ rules[r].end >= today

\* expand_active_recurring_schedules, expand_active_recurring_transactions
BeginRun(w, kinds) ==
    /\ runs[w] = NotRunning
    /\ runs' = [runs EXCEPT ![w] =
         [NotRunning EXCEPT !.busy = TRUE, !.from = today,
            !.todo = {[id |-> r, rule |-> rules[r]] :
                        r \in {q \in Rules : Expandable(q) /\ rules[q].kind \in kinds}}]]
    /\ UNCHANGED <<today, rules, rows, undone>>

NextRule(w, s) ==
    /\ runs[w].current = NoRule
    /\ s \in runs[w].todo
    /\ runs' = [runs EXCEPT ![w] =
         [@ EXCEPT !.todo = runs[w].todo \ {s}, !.current = s,
                   !.dates = OccurrenceDates(s.rule, runs[w].from, runs[w].from + Window)]]
    /\ UNCHANGED <<today, rules, rows, undone>>

\* get_or_create's get, and the pre-check of a document.
LookUp(w, d) ==
    LET s == runs[w].current
    IN /\ runs[w].missing = NoDate
       /\ d \in runs[w].dates /\ \A e \in runs[w].dates : d <= e
       /\ runs' = [runs EXCEPT ![w] =
            [@ EXCEPT !.dates = runs[w].dates \ {d},
                      !.missing = IF Found(s.id, s.rule.kind, <<d, s.rule.time>>)
                                  THEN NoDate ELSE d]]
       /\ UNCHANGED <<today, rules, rows, undone>>

UniqueUnchecked(s, d) == TRUE \* faulty variant: no unique constraint
Unique(s, d) == ~Found(s.id, s.rule.kind, <<d, s.rule.time>>)

NewRow(s, d) ==
    [rule |-> s.id, kind |-> s.rule.kind, start |-> <<d, s.rule.time>>,
     occurrence |-> d, time |-> s.rule.time, moved |-> FALSE,
     copy |-> Cardinality({row \in rows : row.rule = s.id /\ row.kind = s.rule.kind
                                           /\ row.start = <<d, s.rule.time>>})]

\* An IntegrityError is taken for a row that somebody else has created, which
\* for a document is also so when the rule is gone.
Create(w) ==
    LET s == runs[w].current
        d == runs[w].missing
    IN /\ d # NoDate
       /\ s.rule.sound
       /\ RuleExists(s.id) \/ s.rule.kind # "shift"
       /\ rows' = IF Unique(s, d) /\ RuleExists(s.id) THEN rows \cup {NewRow(s, d)} ELSE rows
       /\ runs' = [runs EXCEPT ![w].missing = NoDate]
       /\ UNCHANGED <<today, rules, undone>>

\* The run of w is over.
Stop(w) ==
    /\ runs' = [runs EXCEPT ![w] = NotRunning]
    /\ undone' = IF \E v \in CeleryWorkers \ {w} : runs[v].busy THEN undone ELSE {}
    /\ UNCHANGED <<today, rules, rows>>

\* The exception ends the run, and the rules after this one get nothing: a
\* preset that is no number, or get_or_create whose insert fails without a row.
Abort(w) ==
    LET s == runs[w].current
    IN /\ runs[w].missing # NoDate
       /\ ~s.rule.sound \/ (s.rule.kind = "shift" /\ ~RuleExists(s.id))
       /\ Stop(w)

RuleDone(w) ==
    /\ runs[w].current # NoRule
    /\ runs[w].dates = {} /\ runs[w].missing = NoDate
    /\ runs' = [runs EXCEPT ![w] =
         [@ EXCEPT !.current = NoRule, !.seen = runs[w].seen \cup {runs[w].current}]]
    /\ UNCHANGED <<today, rules, rows, undone>>

EndRun(w) ==
    /\ runs[w].busy
    /\ runs[w].current = NoRule /\ runs[w].todo = {}
    /\ Stop(w)

Crash(w) ==
    /\ runs[w].busy
    /\ Stop(w)

(***************************************************************************)
(* The system.                                                             *)
(***************************************************************************)

DayPasses ==
    /\ today < LastDay
    /\ today' = today + 1
    /\ UNCHANGED <<rules, rows, runs, undone>>

Manage ==
    \/ \E r \in Rules : \/ PauseRule(r) \/ DestroyRule(r)
                        \/ \E choice \in RuleChoices : CreateRule(r, choice) \/ EditRule(r, choice)
    \/ \E row \in rows : \/ DestroyRow(row)
                         \/ \E start \in Slots : MoveShift(row, start)

Expand(w) ==
    \/ BeginRun(w, {"shift"}) \/ BeginRun(w, {"invoice", "bill"})
    \/ \E s \in runs[w].todo : NextRule(w, s)
    \/ \E d \in runs[w].dates : LookUp(w, d)
    \/ Create(w) \/ Abort(w) \/ RuleDone(w) \/ EndRun(w)

RecurringNext ==
    \/ DayPasses
    \/ Manage
    \/ \E w \in CeleryWorkers : Expand(w) \/ Crash(w)

RecurringSpec == RecurringInit /\ [][RecurringNext]_recurringVars

(***************************************************************************)
(* Properties.                                                             *)
(***************************************************************************)

\* No occurrence of a rule gets two documents of a kind, or two shifts, unless
\* a manager has moved one of the shifts, or the template's time was changed
\* between the two.
OccurrenceOnce ==
    \A a, b \in rows :
      a # b /\ a.rule = b.rule /\ a.kind = b.kind /\ a.occurrence = b.occurrence =>
        a.kind = "shift" /\ (a.moved \/ b.moved \/ a.time # b.time)

\* What a run has gone past is there: each day of its window on which the rule
\* it read is due has its row, unless somebody has removed or moved that row or
\* deleted the rule.
RunCoversWindow ==
    \A w \in CeleryWorkers : \A s \in runs[w].seen :
      \A d \in runs[w].from .. runs[w].from + Window :
        Due(s.rule, d) /\ RuleExists(s.id) =>
          LET start == <<d, s.rule.time>>
          IN \/ Found(s.id, s.rule.kind, start)
             \/ [rule |-> s.id, kind |-> s.rule.kind, start |-> start] \in undone

\* The docstring of employees/scheduling.py: expanding again for a date that
\* already has a shift is a no-op.
OneShiftPerOccurrence ==
    \A a, b \in rows : a.rule = b.rule /\ a.kind = b.kind /\ a.occurrence = b.occurrence => a = b
==============================================================================
