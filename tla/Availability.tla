---------------------------- MODULE Availability ----------------------------
(***************************************************************************)
(* What a guest is shown and what a guest may book: get_available_slots    *)
(* against the policy check and the table search of book_reservation       *)
(* (reservations/services.py), over every state of Reservations.           *)
(*                                                                         *)
(* Settings, closed days, opening hours and the clock are parameters: any  *)
(* of them may hold when the query runs.  Dates are those of the server's  *)
(* time zone in both functions.                                            *)
(***************************************************************************)
EXTENDS Reservations

CONSTANTS
    DayLength,      \* units of time in a day
    OpeningHours,   \* BusinessHours of a weekday: opening and closing time
    SettingChoices  \* the rows ReservationSetting may hold

Setting == [buffer : Nat, interval : Nat \ {0}, minAdvance : Nat, maxAdvance : Nat,
            maxParty : Nat \ {0}]
ASSUME SettingAssumption == DayLength \in Nat \ {0} /\ SettingChoices \subseteq Setting
ASSUME HoursAssumption == \* BusinessHoursSerializer.validate
    /\ OpeningHours \subseteq [open : Nat, close : Nat]
    /\ \A hours \in OpeningHours : hours.open < hours.close /\ hours.close <= DayLength

Date(time) == time \div DayLength
Dates == {Date(t) : t \in Times}

\* _validate_guest_booking_request
PolicyAllows(setting, blackouts, party, start, now) ==
    /\ party <= setting.maxParty
    /\ start >= now + setting.minAdvance
    /\ start <= now + setting.maxAdvance
    /\ Date(start) \notin blackouts

\* The start times of the grid between opening and closing.
Grid(setting, date, hours, duration) ==
    LET open == date * DayLength + hours.open
        close == date * DayLength + hours.close IN
    {s \in open..close : (s - open) % setting.interval = 0 /\ s + duration <= close}

\* Faulty variant: the reservations that begin on the date.
FetchedByStart(setting, date, hours, party) ==
    {rows[q] : q \in {r \in Reservations :
       Holds(r) /\ rows[r].table \in Candidates(party) /\ Date(rows[r].start) = date}}

\* One query for the whole day; each slot looks for conflicts among its rows.
Fetched(setting, date, hours, party) ==
    LET day == [start |-> date * DayLength + hours.open,
                end |-> date * DayLength + hours.close] IN
    {rows[q] : q \in {r \in Reservations :
       Holds(r) /\ rows[r].table \in Candidates(party) /\ Near(rows[r], day, setting.buffer)}}

\* get_available_slots
AvailableSlots(setting, blackouts, date, hours, party, duration, now) ==
    LET Conflict(t, s) ==
          \E row \in Fetched(setting, date, hours, party) :
            row.table = t /\ Near(row, [start |-> s, end |-> s + duration], setting.buffer) IN
    IF date \in blackouts THEN {}
    ELSE {s \in Grid(setting, date, hours, duration) :
            /\ now + setting.minAdvance <= s /\ s <= now + setting.maxAdvance
            /\ \E t \in Candidates(party) : ~Conflict(t, s)}

\* The times offered to a party are the times of the grid at which booking
\* would accept it at that moment, for every party the settings allow (the
\* query does not look at max_party_size).  Nobody's request matters to it.
OfferedIsBookable ==
    (\A w \in Workers : request[w] = Idle) =>
    \A setting \in SettingChoices, blackouts \in SUBSET Dates, date \in Dates,
       hours \in OpeningHours, party \in Parties, duration \in Durations, now \in Times :
      party <= setting.maxParty =>
        AvailableSlots(setting, blackouts, date, hours, party, duration, now) =
          {s \in Grid(setting, date, hours, duration) :
             /\ PolicyAllows(setting, blackouts, party, s, now)
             /\ FreeTables(party, NewRow("confirmed", NoTable, s, duration),
                           setting.buffer) # {}}
=============================================================================
