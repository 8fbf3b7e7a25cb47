---------------------------- MODULE Reservations ----------------------------
(***************************************************************************)
(* Restaurant reservations and the waitlist of one location                *)
(* (reservations/): guests book through services.py, which locks the       *)
(* candidate tables; staff create, edit and move reservations through      *)
(* generic viewsets, which lock nothing.                                   *)
(*                                                                         *)
(* A booking transaction is two steps: the checks with the locking read of *)
(* the tables and the choice of one, and the insert that commits it (no    *)
(* property is about a policy edited in between).  An unlocked request is  *)
(* two: what it read and checked, and what it then writes.  Unlocked       *)
(* writes may land between a booking's choice and its insert.              *)
(***************************************************************************)
EXTENDS Integers

CONSTANTS
    Tables,         \* RestaurantTable keys, numbered in the order of the names
    NoTable,        \* Reservation.table is null
    Reservations,   \* Reservation keys
    NoReservation,  \* Waitlist.reservation is null
    Entries,        \* Waitlist keys
    NoEntry,        \* the request is about no waitlist entry
    Workers,        \* web workers, each serving one request at a time
    Parties,        \* party sizes a request may name
    Capacities,     \* capacities a table may get; 0 stands for inactive
    Times,          \* start times a request may name
    Durations,      \* durations a request names or the settings give
    Buffers         \* values of ReservationSetting.buffer_minutes

ASSUME TimeAssumption ==
    /\ Times \subseteq Nat
    /\ Durations \subseteq Nat \ {0}
    /\ Buffers \subseteq Nat
ASSUME TableAssumption ==
    /\ Tables \subseteq Nat /\ NoTable \notin Tables
    /\ Parties \subseteq Nat \ {0} /\ Capacities \subseteq Nat
ASSUME NullAssumption == NoEntry \notin Entries /\ NoReservation \notin Reservations

VARIABLES
    capacity,   \* per table: its capacity, 0 while inactive, or Deleted
    rows,       \* the Reservation rows
    entries,    \* the Waitlist rows
    request,    \* what each worker is serving
    origin,     \* history: the entry a reservation was converted from
    raced,      \* history: reservations last written by an overtaken request
    restored    \* history: entries a stale save has put back to waiting

waitVars == <<entries, origin, restored>>
vars == <<capacity, rows, entries, request, origin, raced, restored>>

Deleted == -1

ActiveStatuses == {"pending", "confirmed", "seated"}
FinalStatuses == {"completed", "cancelled", "no_show"}
NoRow == {"none", "deleted"}
Row == [status : ActiveStatuses \cup FinalStatuses \cup NoRow,
        table : Tables \cup {NoTable}, start : Nat, end : Nat]
Absent(status) ==
    [status |-> status, table |-> NoTable, start |-> 0, end |-> 0]
Entry == [status : {"waiting", "notified"} \cup NoRow,
          reservation : Reservations \cup {NoReservation}]
AbsentEntry(status) == [status |-> status, reservation |-> NoReservation]

\* What a worker holds between two steps: the row it means to write, the
\* tables it has locked, and whether nothing was written since its check.
Request == [op : {"idle", "assigned", "create", "update", "transition", "edit"},
            id : Reservations \cup {NoReservation}, row : Row,
            locks : SUBSET Tables, entry : Entries \cup {NoEntry},
            copy : Entry, fresh : BOOLEAN]
Idle == [op |-> "idle", id |-> NoReservation, row |-> Absent("none"),
         locks |-> {}, entry |-> NoEntry, copy |-> AbsentEntry("none"),
         fresh |-> FALSE]

TypeOK ==
    /\ capacity \in [Tables -> Nat \cup {Deleted}]
    /\ rows \in [Reservations -> Row]
    /\ entries \in [Entries -> Entry]
    /\ request \in [Workers -> Request]
    /\ origin \in [Reservations -> Entries \cup {NoEntry}]
    /\ raced \subseteq Reservations
    /\ restored \subseteq Entries

Init ==
    /\ capacity \in [Tables -> Capacities]
    /\ rows = [r \in Reservations |-> Absent("none")]
    /\ entries = [e \in Entries |-> AbsentEntry("none")]
    /\ request = [w \in Workers |-> Idle]
    /\ origin = [r \in Reservations |-> NoEntry]
    /\ raced = {}
    /\ restored = {}

(***************************************************************************)
(* Tables, time and overlap.                                               *)
(***************************************************************************)

Exists(r) == rows[r].status \notin NoRow
Holds(r) == rows[r].status \in ActiveStatuses

\* Two rows are closer than the buffer, or overlap when it is 0.
Near(a, b, buffer) == a.start < b.end + buffer /\ a.end > b.start - buffer
Overlap(a, b) == Near(a, b, 0)

Taken(t, row, buffer) ==
    \E q \in Reservations : Holds(q) /\ rows[q].table = t /\ Near(rows[q], row, buffer)
Candidates(party) == {t \in Tables : capacity[t] >= party}
FreeTables(party, row, buffer) ==
    {t \in Candidates(party) : ~Taken(t, row, buffer)}

\* order_by("capacity", "name")
Before(t, u) ==
    \/ capacity[t] < capacity[u]
    \/ capacity[t] = capacity[u] /\ t < u
FirstFree(t, party, row, buffer) ==
    /\ t \in FreeTables(party, row, buffer)
    /\ \A u \in FreeTables(party, row, buffer) \ {t} : Before(t, u)

LockedByNone(T) == FALSE \* faulty variant: no select_for_update
\* A booking transaction keeps the candidate tables locked until it commits.
LockedByOthers(T) == \E w \in Workers : request[w].locks \cap T # {}

\* The request's next state; every other request's check is now stale.
Overtake(w, next) ==
    request' = [v \in Workers |->
                  IF v = w THEN next ELSE [request[v] EXCEPT !.fresh = FALSE]]
Answer(w) == request' = [request EXCEPT ![w] = Idle]
Serving(w, op) == request[w].op = op
Unused(r) ==
    rows[r].status = "none" /\ \A w \in Workers : request[w].id # r

NewRow(status, t, start, duration) ==
    [status |-> status, table |-> t, start |-> start, end |-> start + duration]

(***************************************************************************)
(* Booking: book_reservation and convert_waitlist_entry.                   *)
(***************************************************************************)

\* Waits for other bookings' locks, then takes the first free table, if any,
\* and keeps the candidates locked.  The settings, read once, give the buffer
\* and the default duration.
AssignTable(w, r, e, party, start, duration, buffer) ==
    LET row == NewRow("confirmed", NoTable, start, duration) IN
    /\ request[w] = Idle
    /\ Unused(r)
    /\ ~LockedByOthers(Candidates(party))
    /\ \E t \in Tables :
         /\ FirstFree(t, party, row, buffer)
         /\ Overtake(w, [Idle EXCEPT !.op = "assigned", !.id = r, !.entry = e,
                                     !.row = [row EXCEPT !.table = t],
                                     !.locks = Candidates(party)])
    /\ UNCHANGED <<capacity, rows, waitVars, raced>>

\* The policy check before it (Availability.tla, PolicyAllows) only refuses.
Book(w, r, party, start, duration, buffer) ==
    AssignTable(w, r, NoEntry, party, start, duration, buffer)

ConvertibleUnlessGone(e) == entries[e].status \notin NoRow \* faulty variant: no re-check
\* The status is read again under the entry's lock.
Convertible(e) == entries[e].status = "waiting"
EntryLocked(e) == \E w \in Workers : Serving(w, "assigned") /\ request[w].entry = e

ConvertEntry(w, r, e, party, start, duration, buffer) ==
    /\ ~EntryLocked(e)
    /\ Convertible(e)
    /\ AssignTable(w, r, e, party, start, duration, buffer)

\* The insert and, for a conversion, the entry's update commit together.
CommitBooking(w) ==
    LET r == request[w].id
        e == request[w].entry IN
    /\ Serving(w, "assigned")
    /\ rows' = [rows EXCEPT ![r] = request[w].row]
    /\ origin' = [origin EXCEPT ![r] = e]
    /\ entries' = [x \in Entries |->
                     IF x = e THEN [status |-> "notified", reservation |-> r]
                     ELSE entries[x]]
    /\ Overtake(w, Idle)
    /\ UNCHANGED <<capacity, raced, restored>>

(***************************************************************************)
(* Staff: ReservationViewSet, and the guest's own cancellation.            *)
(***************************************************************************)

\* A check misses what a booking has chosen and not yet inserted.
Fresh == ~\E w \in Workers : Serving(w, "assigned")
Begin(w, op, r, row) ==
    request' = [request EXCEPT ![w] =
                  [Idle EXCEPT !.op = op, !.id = r, !.row = row, !.fresh = Fresh]]

\* ReservationSerializer.validate: no lock, no buffer, no capacity.
StaffMayPlace(r, row) ==
    row.table # NoTable =>
      /\ capacity[row.table] # Deleted
      /\ \A q \in Reservations \ {r} :
           Holds(q) /\ rows[q].table = row.table => ~Overlap(rows[q], row)

BeginCreate(w, r, t, start, duration) ==
    LET row == NewRow("pending", t, start, duration) IN
    /\ request[w] = Idle
    /\ Unused(r)
    /\ StaffMayPlace(r, row)
    /\ Begin(w, "create", r, row)
    /\ UNCHANGED <<capacity, rows, waitVars, raced>>

\* end_time is read-only: the new row keeps the old one.
BeginUpdate(w, r, t, start) ==
    LET row == [rows[r] EXCEPT !.table = t, !.start = start] IN
    /\ request[w] = Idle
    /\ Exists(r)
    /\ StaffMayPlace(r, row)
    /\ Begin(w, "update", r, row)
    /\ UNCHANGED <<capacity, rows, waitVars, raced>>

\* Reservation.save computes the end of a new row.  The default duration is
\* read again, and may have been edited since the check.
Savable(req, row) ==
    \/ req.op \in {"create", "update"} /\ row = req.row
    \/ /\ req.op = "create"
       /\ \E d \in Durations :
            row = NewRow(req.row.status, req.row.table, req.row.start, d)

\* The check constraint and the foreign key.
Accepted(row) ==
    /\ row.end > row.start
    /\ row.table # NoTable => capacity[row.table] # Deleted

\* All columns are written; a row deleted meanwhile is inserted again.
FinishWrite(w, row) ==
    LET r == request[w].id IN
    /\ Savable(request[w], row)
    /\ Accepted(row)
    /\ rows' = [rows EXCEPT ![r] = row]
    /\ raced' = IF request[w].fresh /\ row = request[w].row
                THEN raced \ {r} ELSE raced \cup {r}
    /\ Overtake(w, Idle)
    /\ UNCHANGED <<capacity, waitVars>>

\* IntegrityError: the request fails, nothing is written.
WriteFails(w, row) ==
    /\ Savable(request[w], row)
    /\ ~Accepted(row)
    /\ Answer(w)
    /\ UNCHANGED <<capacity, rows, waitVars, raced>>

\* Faulty variant: only a completed reservation is refused.
MayBecomeUnlessCompleted(from, to) ==
    from # "completed" /\ to \in {"seated", "no_show", "cancelled", "completed"}

\* _transition: from which statuses each is reached.
MayBecome(from, to) ==
    \/ to \in {"seated", "no_show"} /\ from \in {"pending", "confirmed"}
    \/ to = "cancelled" /\ from \in ActiveStatuses
    \/ to = "completed" /\ from = "seated"

BeginTransition(w, r, to) ==
    /\ request[w] = Idle
    /\ Exists(r)
    /\ MayBecome(rows[r].status, to)
    /\ Begin(w, "transition", r, [Absent("none") EXCEPT !.status = to])
    /\ UNCHANGED <<capacity, rows, waitVars, raced>>

\* Only the status column is written, and only to a row that is there.
FinishTransition(w) ==
    LET r == request[w].id IN
    /\ Serving(w, "transition")
    /\ IF Exists(r)
       THEN /\ rows' = [rows EXCEPT ![r].status = request[w].row.status]
            /\ raced' = IF request[w].fresh THEN raced ELSE raced \cup {r}
            /\ Overtake(w, Idle)
       ELSE Answer(w) /\ UNCHANGED <<rows, raced>>
    /\ UNCHANGED <<capacity, waitVars>>

\* The entry that points at the row is unlinked (SET_NULL).
DestroyReservation(r) ==
    /\ Exists(r)
    /\ rows' = [rows EXCEPT ![r] = Absent("deleted")]
    /\ raced' = raced \ {r}
    /\ entries' = [e \in Entries |->
                     IF entries[e].reservation = r
                     THEN [entries[e] EXCEPT !.reservation = NoReservation]
                     ELSE entries[e]]
    /\ request' = [w \in Workers |-> [request[w] EXCEPT !.fresh = FALSE]]
    /\ UNCHANGED <<capacity, origin, restored>>

(***************************************************************************)
(* The waitlist.                                                           *)
(***************************************************************************)

\* join_waitlist and WaitlistViewSet.create.
JoinWaitlist(e) ==
    /\ entries[e].status = "none"
    /\ entries' = [entries EXCEPT ![e].status = "waiting"]
    /\ UNCHANGED <<capacity, rows, request, origin, raced, restored>>

\* WaitlistViewSet.update: the copy read now is written back in full.
BeginEditEntry(w, e) ==
    /\ request[w] = Idle
    /\ entries[e].status \notin NoRow
    /\ request' = [request EXCEPT ![w] =
                     [Idle EXCEPT !.op = "edit", !.entry = e, !.copy = entries[e]]]
    /\ UNCHANGED <<capacity, rows, waitVars, raced>>

\* The foreign key refuses a copy whose reservation is gone.
FinishEditEntry(w) ==
    LET e == request[w].entry
        copy == request[w].copy IN
    /\ Serving(w, "edit")
    /\ ~EntryLocked(e)
    /\ Answer(w)
    /\ IF copy.reservation # NoReservation => Exists(copy.reservation)
       THEN /\ entries' = [entries EXCEPT ![e] = copy]
            /\ restored' = IF copy.status = "waiting" /\ entries[e].status # "waiting"
                           THEN restored \cup {e} ELSE restored
       ELSE UNCHANGED <<entries, restored>>
    /\ UNCHANGED <<capacity, rows, origin, raced>>

DestroyEntry(e) ==
    /\ entries[e].status \notin NoRow
    /\ ~EntryLocked(e)
    /\ entries' = [entries EXCEPT ![e] = AbsentEntry("deleted")]
    /\ UNCHANGED <<capacity, rows, request, origin, raced, restored>>

(***************************************************************************)
(* Tables.                                                                 *)
(***************************************************************************)

\* Create, update or deactivate; a write waits for the row's lock.
EditTable(t, c) ==
    /\ ~LockedByOthers({t})
    /\ capacity' = [capacity EXCEPT ![t] = c]
    /\ UNCHANGED <<rows, waitVars, request, raced>>

\* Its reservations stay, without a table (SET_NULL).
DestroyTable(t) ==
    /\ ~LockedByOthers({t})
    /\ capacity' = [capacity EXCEPT ![t] = Deleted]
    /\ rows' = [r \in Reservations |->
                  IF rows[r].table = t THEN [rows[r] EXCEPT !.table = NoTable]
                  ELSE rows[r]]
    /\ request' = [w \in Workers |-> [request[w] EXCEPT !.fresh = FALSE]]
    /\ UNCHANGED <<waitVars, raced>>

(***************************************************************************)
(* The specification.                                                      *)
(***************************************************************************)

Booking(w) ==
    \/ \E r \in Reservations, party \in Parties, start \in Times,
          duration \in Durations, buffer \in Buffers :
         \/ Book(w, r, party, start, duration, buffer)
         \/ \E e \in Entries : ConvertEntry(w, r, e, party, start, duration, buffer)
    \/ CommitBooking(w)

Staff(w) ==
    \/ \E r \in Reservations, t \in Tables \cup {NoTable}, start \in Times :
         \/ \E duration \in Durations : BeginCreate(w, r, t, start, duration)
         \/ BeginUpdate(w, r, t, start)
    \/ \E row \in {request[w].row} \cup
                  {[request[w].row EXCEPT !.end = request[w].row.start + d] : d \in Durations} :
         FinishWrite(w, row) \/ WriteFails(w, row)
    \/ \E r \in Reservations, to \in FinalStatuses \cup {"seated"} : BeginTransition(w, r, to)
    \/ FinishTransition(w)
    \/ \E e \in Entries : BeginEditEntry(w, e)
    \/ FinishEditEntry(w)

Next ==
    \/ \E w \in Workers : Booking(w) \/ Staff(w)
    \/ \E r \in Reservations : DestroyReservation(r)
    \/ \E e \in Entries : JoinWaitlist(e) \/ DestroyEntry(e)
    \/ \E t \in Tables : DestroyTable(t) \/ \E c \in Capacities : EditTable(t, c)

Spec == Init /\ [][Next]_vars

(***************************************************************************)
(* Properties.                                                             *)
(***************************************************************************)

\* Two reservations that hold one table at the same time: one of them was last
\* written by staff, who lock nothing, after somebody else had overtaken the
\* overlap check.  Bookings and conversions never do it (services.py).
NoDoubleBooking ==
    \A a, b \in Reservations :
      (/\ a # b /\ Holds(a) /\ Holds(b)
       /\ rows[a].table # NoTable /\ rows[a].table = rows[b].table
       /\ Overlap(rows[a], rows[b]))
      => a \in raced \/ b \in raced

\* A waitlist entry becomes one reservation, however many conversions are sent
\* at once (convert_waitlist_entry), unless a stale edit of the entry has put
\* it back to waiting.
ConvertedOnce ==
    \A a, b \in Reservations :
      a # b /\ origin[a] = origin[b] /\ origin[a] # NoEntry => origin[a] \in restored

\* A reservation that is over, or gone, comes back only by the stale write of
\* an unlocked request (_transition, ReservationViewSet.update).
OverUnlessOvertaken ==
    [][\A r \in Reservations :
         rows[r].status \in FinalStatuses \cup {"deleted"} /\ rows'[r].status \in ActiveStatuses
         => r \in raced']_vars
=============================================================================
