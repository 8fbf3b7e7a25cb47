------------------------------ MODULE TimeClock ------------------------------
(***************************************************************************)
(* The time clock (employees/services.py), what the deactivation of a      *)
(* membership does to it, and pay stubs (employees/payroll.py).            *)
(*                                                                         *)
(* A request passes HasBusinessRole, which looks at is_active, and only    *)
(* later runs its service, which does not look again.  The services lock   *)
(* the membership or its open entry, so each is one step.                  *)
(***************************************************************************)
EXTENDS Membership, Payroll

CONSTANTS
    Located,     \* the members whose membership names a location
    Entries,     \* TimeEntry keys
    NoEntry,     \* LocationVerificationLog.time_entry is null
    ClockWorkers, \* web workers
    Places,      \* coordinates a client may report
    Fences,      \* GeofenceSettings a manager may have in force, see Applicable
    Periods,     \* pay periods a manager may ask a stub for
    Thresholds,  \* values of overtime_threshold_hours, in hundredths
    Rates,       \* values of Position.hourly_rate, in cents
    MaxTime      \* bound: the clock stops here

ASSUME LocationAssumption == Located \subseteq Members
ASSUME EntryAssumption == NoEntry \notin Entries /\ IsFiniteSet(Entries)
ASSUME PayAssumption ==
    /\ \A p \in Periods : p.from \in Nat /\ p.to \in Nat /\ p.from <= p.to
    /\ Thresholds \subseteq Nat /\ Rates \subseteq Nat
    /\ MaxTime \in Nat

VARIABLES
    now,        \* timezone.now()
    entries,    \* the TimeEntry rows, with their breaks
    logs,       \* the LocationVerificationLog rows
    stubs,      \* the PayStub rows
    admitted,   \* per worker: the member whose request it has let in
    lateEntries \* history: entries opened for an inactive member

clockVars == <<now, entries, logs, stubs, admitted, lateEntries, memberVars>>

NoBreak == -1
\* `pause` is the time of all breaks that ended, `break` the start of an open one.
Entry == [member : Members \cup {Nobody},
          status : {"none", "clocked_in", "clocked_out"},
          in : Nat, out : Nat, pause : Nat, break : Nat \cup {NoBreak},
          auto : BOOLEAN]
Unused == [member |-> Nobody, status |-> "none", in |-> 0, out |-> 0,
           pause |-> 0, break |-> NoBreak, auto |-> FALSE]
Opened(m) == [Unused EXCEPT !.member = m, !.status = "clocked_in", !.in = now]

ClockTypeOK ==
    /\ now \in Nat
    /\ MembershipTypeOK
    /\ entries \in [Entries -> Entry]
    /\ \A log \in logs : log.member \in Members /\ log.entry \in Entries \cup {NoEntry}
    /\ \A s \in stubs : s.member \in Members /\ s.counted \subseteq Entries
    /\ admitted \in [ClockWorkers -> Members \cup {Nobody}]
    /\ lateEntries \subseteq Entries

ClockInit ==
    /\ now = 0
    /\ MembershipInit
    /\ entries = [i \in Entries |-> Unused]
    /\ logs = {}
    /\ stubs = {}
    /\ admitted = [w \in ClockWorkers |-> Nobody]
    /\ lateEntries = {}

(***************************************************************************)
(* Geofences.  A setting is the set of places within its radius; a         *)
(* location's setting, while enabled, goes before the business-wide one.   *)
(***************************************************************************)

Applicable(m, fences) ==
    IF m \in Located /\ fences.location.enabled
    THEN fences.location ELSE fences.business
Passed(m, fences, place) ==
    Applicable(m, fences).enabled => place \in Applicable(m, fences).places
LogOf(m, i, type, passed) ==
    [member |-> m, entry |-> i, type |-> type, passed |-> passed]

(***************************************************************************)
(* The clock.                                                              *)
(***************************************************************************)

IsOpenFor(i, m) == entries[i].member = m /\ entries[i].status = "clocked_in"

Admit(w, m) ==
    /\ admitted[w] = Nobody
    /\ Admissible(m)
    /\ admitted' = [admitted EXCEPT ![w] = m]
    /\ UNCHANGED <<now, entries, logs, stubs, lateEntries, memberVars>>

\* The rest of a request: its service and the answer, which also covers a
\* service that raises.
Done(w) == admitted' = [admitted EXCEPT ![w] = Nobody]
TurnAway(w) ==
    /\ admitted[w] # Nobody
    /\ Done(w)
    /\ UNCHANGED <<now, entries, logs, stubs, lateEntries, memberVars>>

ClockIn(w, m, i, fences, place) ==
    /\ admitted[w] = m
    /\ Done(w)
    /\ ~ \E j \in Entries : IsOpenFor(j, m)
    /\ IF Passed(m, fences, place)
       THEN /\ entries[i].status = "none"
            /\ entries' = [entries EXCEPT ![i] = Opened(m)]
            /\ logs' = logs \cup {LogOf(m, i, "clock_in", TRUE)}
            /\ lateEntries' = IF active[m] THEN lateEntries ELSE lateEntries \cup {i}
       ELSE /\ logs' = logs \cup {LogOf(m, NoEntry, "clock_in", FALSE)}
            /\ UNCHANGED <<entries, lateEntries>>
    /\ UNCHANGED <<now, stubs, memberVars>>

\* A break in progress stays open on the closed entry.
Closed(card) == [card EXCEPT !.out = now, !.status = "clocked_out"]

ClockOut(w, m, i, fences, place) ==
    /\ admitted[w] = m
    /\ Done(w)
    /\ IsOpenFor(i, m)
    /\ logs' = logs \cup {LogOf(m, i, "clock_out", Passed(m, fences, place))}
    /\ entries' = IF Passed(m, fences, place)
                  THEN [entries EXCEPT ![i] = Closed(@)] ELSE entries
    /\ UNCHANGED <<now, stubs, lateEntries, memberVars>>

StartBreak(w, m, i) ==
    /\ admitted[w] = m
    /\ Done(w)
    /\ IsOpenFor(i, m) /\ entries[i].break = NoBreak
    /\ entries' = [entries EXCEPT ![i].break = now]
    /\ UNCHANGED <<now, logs, stubs, lateEntries, memberVars>>

BreakEnded(card) ==
    IF card.break = NoBreak THEN card
    ELSE [card EXCEPT !.pause = @ + (now - card.break), !.break = NoBreak]

MayEndBreakLate(i, m) == \* faulty variant: of a closed entry, too
    entries[i].member = m /\ entries[i].break # NoBreak
MayEndBreak(i, m) == IsOpenFor(i, m) /\ entries[i].break # NoBreak
EndBreak(w, m, i) ==
    /\ admitted[w] = m
    /\ Done(w)
    /\ MayEndBreak(i, m)
    /\ entries' = [entries EXCEPT ![i] = BreakEnded(@)]
    /\ UNCHANGED <<now, logs, stubs, lateEntries, memberVars>>

(***************************************************************************)
(* Deactivation.                                                           *)
(***************************************************************************)

DeactivateMember(m) ==
    /\ SaveInactive(m)
    /\ UNCHANGED <<now, entries, logs, stubs, admitted, lateEntries>>
ReactivateMember(m) ==
    /\ SaveActive(m)
    /\ UNCHANGED <<now, entries, logs, stubs, admitted, lateEntries>>
HandlerCrash(m) ==
    /\ HandlerLost(m)
    /\ UNCHANGED <<now, entries, logs, stubs, admitted, lateEntries>>

ClosableUnlessPaused(i, m) == \* faulty variant: misses who is on a break
    IsOpenFor(i, m) /\ entries[i].break = NoBreak
Closable(i, m) == IsOpenFor(i, m)
CloseOpenEntries(m) ==
    /\ HandlerRuns(m)
    /\ entries' = [i \in Entries |->
                     IF Closable(i, m)
                     THEN [Closed(BreakEnded(entries[i])) EXCEPT !.auto = TRUE]
                     ELSE entries[i]]
    /\ UNCHANGED <<now, logs, stubs, admitted, lateEntries>>

(***************************************************************************)
(* Pay stubs.                                                              *)
(***************************************************************************)

CountedIn(m, period) ==
    {i \in Entries : /\ entries[i].member = m
                     /\ entries[i].status = "clocked_out"
                     /\ InPeriod(entries[i], period)}

StubExists(m, period) == \E s \in stubs : s.member = m /\ s.period = period

\* The unique constraint on (membership, start, end) decides a race.
\* `counted` and `at` are history: the entries the hours are from, and when.
GeneratePayStub(m, period, threshold, rate) ==
    LET counted == CountedIn(m, period)
        regular == RegularHours(entries, counted, threshold)
        overtime == OvertimeHours(entries, counted, threshold)
        gross == GrossPay(regular, overtime, rate)
    IN /\ ~StubExists(m, period)
       /\ stubs' = stubs \cup
            {[member |-> m, period |-> period, threshold |-> threshold, rate |-> rate,
              regular |-> regular, overtime |-> overtime,
              gross |-> gross, net |-> NetPay(gross), counted |-> counted, at |-> now]}
       /\ UNCHANGED <<now, entries, logs, lateEntries, memberVars, admitted>>

(***************************************************************************)
(* The system.                                                             *)
(***************************************************************************)

TimePasses ==
    /\ now < MaxTime
    /\ now' = now + 1
    /\ UNCHANGED <<entries, logs, stubs, admitted, lateEntries, memberVars>>

ServeClock(w, m, i) ==
    \/ \E fences \in Fences, place \in Places :
         ClockIn(w, m, i, fences, place) \/ ClockOut(w, m, i, fences, place)
    \/ StartBreak(w, m, i)
    \/ EndBreak(w, m, i)

ClockNext ==
    \/ TimePasses
    \/ \E w \in ClockWorkers :
         \/ TurnAway(w)
         \/ \E m \in Members : Admit(w, m) \/ \E i \in Entries : ServeClock(w, m, i)
    \/ \E m \in Members :
         \/ DeactivateMember(m) \/ ReactivateMember(m)
         \/ CloseOpenEntries(m) \/ HandlerCrash(m)
         \/ \E period \in Periods, threshold \in Thresholds, rate \in Rates :
              GeneratePayStub(m, period, threshold, rate)

ClockSpec == ClockInit /\ [][ClockNext]_clockVars

(***************************************************************************)
(* Properties.                                                             *)
(***************************************************************************)

\* Nobody who was deactivated is still on the clock once the handler has run,
\* except by a request admitted before the deactivation that clocked in after
\* it (clock_in does not look at is_active), or after a crash between the save
\* and the handler.
InactiveNotWorking ==
    \A m \in Members, i \in Entries : Settled(m) /\ IsOpenFor(i, m) => i \in lateEntries

\* A stub pays what the time entries still say: the hours it counted come out
\* the same whenever they are added up again, and the only entries of its
\* period it leaves out were closed since, or are still open.
PaidAsWorked ==
    \A s \in stubs :
      /\ s.regular = RegularHours(entries, s.counted, s.threshold)
      /\ s.overtime = OvertimeHours(entries, s.counted, s.threshold)
      /\ \A i \in s.counted : entries[i].status = "clocked_out" /\ entries[i].out <= s.at
      /\ \A i \in CountedIn(s.member, s.period) \ s.counted : entries[i].out >= s.at

\* Overtime is a matter of the week, whatever the pay periods are: paying a
\* period in two parts never adds overtime and never changes the total by more
\* than one hundredth of an hour, and parts that meet between two weeks pay
\* exactly what the whole does.
SplitNeverAddsOvertime ==
    \A m \in Members, p \in Periods, threshold \in Thresholds :
      LET Counted(from, to) == CountedIn(m, [from |-> from, to |-> to])
          R(c) == RegularHours(entries, c, threshold)
          O(c) == OvertimeHours(entries, c, threshold)
          regular == R(Counted(p.from, p.to))
          overtime == O(Counted(p.from, p.to))
      IN \A day \in p.from .. p.to - 1 :
           LET first == Counted(p.from, day)
               second == Counted(day + 1, p.to)
               regularSplit == R(first) + R(second)
               overtimeSplit == O(first) + O(second)
           IN /\ overtimeSplit <= overtime + 1
              /\ (regularSplit + overtimeSplit) - (regular + overtime) \in -1 .. 1
              /\ (day + 1) % DaysPerWeek = 0 =>
                   regularSplit = regular /\ overtimeSplit = overtime
==============================================================================
