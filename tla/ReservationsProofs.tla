------------------------- MODULE ReservationsProofs -------------------------
(***************************************************************************)
(* Theorems about Reservations, for every number of tables, reservations,  *)
(* waitlist entries and workers, and all times, durations and buffers.     *)
(***************************************************************************)
EXTENDS Availability, TLAPS

USE TimeAssumption, TableAssumption, NullAssumption

\* What a request is about is there to be written.
Addressed(req) ==
    /\ req.op \in {"assigned", "create", "update", "transition"} => req.id \in Reservations
    /\ req.op = "edit" => req.entry \in Entries

Typed == TypeOK /\ \A w \in Workers : Addressed(request[w])

LEMMA IdleTyped == Idle \in Request /\ Addressed(Idle) /\ Absent("none") \in Row
<1>1. Absent("none") \in Row
  BY DEF Absent, Row, NoRow
<1>2. AbsentEntry("none") \in Entry
  BY DEF AbsentEntry, Entry, NoRow
<1>3. QED
  BY <1>1, <1>2 DEF Idle, Request, Addressed

\* A request that has been overtaken differs from what it was in `fresh` only.
LEMMA OvertakenRequests ==
    ASSUME Typed, NEW w \in Workers, NEW next \in Request, Addressed(next),
           Overtake(w, next)
    PROVE  /\ request' \in [Workers -> Request]
           /\ \A v \in Workers : Addressed(request'[v])
           /\ request'[w] = next
           /\ \A v \in Workers \ {w} :
                /\ ~request'[v].fresh
                /\ request'[v].op = request[v].op /\ request'[v].id = request[v].id
                /\ request'[v].row = request[v].row /\ request'[v].locks = request[v].locks
                /\ request'[v].entry = request[v].entry /\ request'[v].copy = request[v].copy
<1>1. request'[w] = next
  BY DEF Overtake
<1>2. ASSUME NEW v \in Workers \ {w}
      PROVE  /\ request'[v] \in Request /\ ~request'[v].fresh
             /\ request'[v].op = request[v].op /\ request'[v].id = request[v].id
             /\ request'[v].row = request[v].row /\ request'[v].locks = request[v].locks
             /\ request'[v].entry = request[v].entry /\ request'[v].copy = request[v].copy
  <2>1. request[v] \in Request
    BY DEF Typed, TypeOK
  <2>2. request'[v] = [request[v] EXCEPT !.fresh = FALSE]
    BY DEF Overtake
  <2>3. QED
    BY <2>1, <2>2 DEF Request
<1>3. request' = [v \in Workers |-> request'[v]]
  BY DEF Overtake
<1>4. QED
  BY <1>1, <1>2, <1>3 DEF Typed, Addressed

\* The same for a step after which nobody's check counts any more.
LEMMA AllOvertaken ==
    ASSUME Typed, request' = [w \in Workers |-> [request[w] EXCEPT !.fresh = FALSE]]
    PROVE  /\ request' \in [Workers -> Request]
           /\ \A v \in Workers : Addressed(request'[v])
           /\ \A v \in Workers :
                /\ ~request'[v].fresh
                /\ request'[v].op = request[v].op /\ request'[v].id = request[v].id
                /\ request'[v].row = request[v].row /\ request'[v].locks = request[v].locks
                /\ request'[v].entry = request[v].entry /\ request'[v].copy = request[v].copy
<1>1. ASSUME NEW v \in Workers
      PROVE  /\ request'[v] \in Request /\ ~request'[v].fresh
             /\ request'[v].op = request[v].op /\ request'[v].id = request[v].id
             /\ request'[v].row = request[v].row /\ request'[v].locks = request[v].locks
             /\ request'[v].entry = request[v].entry /\ request'[v].copy = request[v].copy
  <2>1. request[v] \in Request
    BY DEF Typed, TypeOK
  <2>2. QED
    BY <2>1 DEF Request
<1>2. request' = [v \in Workers |-> request'[v]]
  OBVIOUS
<1>3. QED
  BY <1>1, <1>2 DEF Typed, Addressed

\* A booking that has chosen its table.
Assigned(r, e, row, T) ==
    [Idle EXCEPT !.op = "assigned", !.id = r, !.entry = e, !.row = row, !.locks = T]

LEMMA AssignedRequest ==
    ASSUME NEW r \in Reservations, NEW e \in Entries \cup {NoEntry},
           NEW row \in Row, NEW T \in SUBSET Tables
    PROVE  /\ Assigned(r, e, row, T) \in Request
           /\ Addressed(Assigned(r, e, row, T))
           /\ Assigned(r, e, row, T).op = "assigned"
           /\ Assigned(r, e, row, T).id = r
           /\ Assigned(r, e, row, T).entry = e
           /\ Assigned(r, e, row, T).row = row
           /\ Assigned(r, e, row, T).locks = T
           /\ ~Assigned(r, e, row, T).fresh
BY IdleTyped DEF Assigned, Idle, Request, Addressed

\* A booking step chooses a table that nobody else has locked, and on which no
\* reservation of that time is to be seen.
LEMMA AssignTableChooses ==
    ASSUME NEW w \in Workers, NEW r \in Reservations, NEW e \in Entries \cup {NoEntry},
           NEW party \in Parties, NEW start \in Times, NEW duration \in Durations,
           NEW buffer \in Buffers, AssignTable(w, r, e, party, start, duration, buffer)
    PROVE  \E t \in Tables :
             LET row == NewRow("confirmed", t, start, duration)
             IN /\ Overtake(w, Assigned(r, e, row, Candidates(party)))
                /\ t \in Candidates(party) /\ ~Taken(t, row, buffer)
                /\ row \in Row
<1>1. PICK t \in Tables :
        /\ FirstFree(t, party, NewRow("confirmed", NoTable, start, duration), buffer)
        /\ Overtake(w, Assigned(r, e, [NewRow("confirmed", NoTable, start, duration)
                                         EXCEPT !.table = t], Candidates(party)))
  BY DEF AssignTable, Assigned
<1>2. [NewRow("confirmed", NoTable, start, duration) EXCEPT !.table = t]
        = NewRow("confirmed", t, start, duration)
  BY DEF NewRow
<1>3. t \in Candidates(party) /\ ~Taken(t, NewRow("confirmed", t, start, duration), buffer)
  BY <1>1 DEF FirstFree, FreeTables, Taken, Near, NewRow
<1>4. NewRow("confirmed", t, start, duration) \in Row
  BY DEF NewRow, Row, ActiveStatuses
<1>5. QED
  BY <1>1, <1>2, <1>3, <1>4

LEMMA BegunRequests ==
    ASSUME Typed, NEW w \in Workers, NEW r \in Reservations, NEW row \in Row,
           NEW op \in {"create", "update", "transition"}, Begin(w, op, r, row)
    PROVE  /\ request' \in [Workers -> Request]
           /\ \A v \in Workers : Addressed(request'[v])
           /\ request'[w].op = op /\ request'[w].id = r /\ request'[w].row = row
           /\ request'[w].locks = {} /\ request'[w].fresh = Fresh
           /\ \A v \in Workers \ {w} : request'[v] = request[v]
<1> DEFINE next == [Idle EXCEPT !.op = op, !.id = r, !.row = row, !.fresh = Fresh]
<1>1. Fresh \in BOOLEAN
  BY DEF Fresh
<1>2. /\ next \in Request /\ Addressed(next)
      /\ next.op = op /\ next.id = r /\ next.row = row /\ next.locks = {} /\ next.fresh = Fresh
  BY <1>1, IdleTyped DEF Idle, Request, Addressed
<1>3. request' = [request EXCEPT ![w] = next]
  BY DEF Begin
<1> HIDE DEF next
<1>4. QED
  BY <1>2, <1>3 DEF Typed, TypeOK

\* The state stays well-typed, and every request names what it writes.
THEOREM TypeCorrect == Spec => []Typed
<1>1. Init => Typed
  <2>1. AbsentEntry("none") \in Entry
    BY DEF AbsentEntry, Entry, NoRow
  <2>2. QED
    BY <2>1, IdleTyped DEF Init, Typed, TypeOK
<1>2. Typed /\ [Next]_vars => Typed'
  <2> SUFFICES ASSUME Typed, [Next]_vars
               PROVE  Typed'
    OBVIOUS
  <2> USE DEF waitVars
  <2>1. ASSUME NEW w \in Workers, Booking(w)
        PROVE  Typed'
    <3>1. ASSUME NEW r \in Reservations, NEW party \in Parties, NEW start \in Times,
                 NEW duration \in Durations, NEW buffer \in Buffers,
                 NEW e \in Entries \cup {NoEntry},
                 AssignTable(w, r, e, party, start, duration, buffer)
          PROVE  Typed'
      <4>1. PICK t \in Tables :
              LET row == NewRow("confirmed", t, start, duration)
              IN  Overtake(w, Assigned(r, e, row, Candidates(party))) /\ row \in Row
        BY <3>1, AssignTableChooses
      <4> DEFINE next == Assigned(r, e, NewRow("confirmed", t, start, duration), Candidates(party))
      <4>2. Candidates(party) \in SUBSET Tables
        BY DEF Candidates
      <4>3. next \in Request /\ Addressed(next)
        BY <4>1, <4>2, AssignedRequest
      <4>4. Overtake(w, next)
        BY <4>1
      <4> HIDE DEF next
      <4>5. request' \in [Workers -> Request] /\ \A v \in Workers : Addressed(request'[v])
        BY <4>3, <4>4, OvertakenRequests
      <4>6. QED
        BY <3>1, <4>5 DEF AssignTable, Typed, TypeOK
    <3>2. CASE CommitBooking(w)
      <4>1. request[w] \in Request /\ Addressed(request[w]) /\ request[w].op = "assigned"
        BY <3>2 DEF CommitBooking, Serving, Typed, TypeOK
      <4>2. /\ request[w].id \in Reservations /\ request[w].row \in Row
            /\ request[w].entry \in Entries \cup {NoEntry}
        BY <4>1 DEF Request, Addressed
      <4>3. [status |-> "notified", reservation |-> request[w].id] \in Entry
        BY <4>2 DEF Entry
      <4>4. /\ rows' \in [Reservations -> Row]
            /\ entries' \in [Entries -> Entry]
            /\ origin' \in [Reservations -> Entries \cup {NoEntry}]
        BY <3>2, <4>2, <4>3 DEF CommitBooking, Typed, TypeOK
      <4>5. Overtake(w, Idle)
        BY <3>2 DEF CommitBooking
      <4>6. request' \in [Workers -> Request] /\ \A v \in Workers : Addressed(request'[v])
        BY <4>5, IdleTyped, OvertakenRequests
      <4>7. QED
        BY <3>2, <4>4, <4>6 DEF CommitBooking, Typed, TypeOK
    <3>3. QED
      BY <2>1, <3>1, <3>2 DEF Booking, Book, ConvertEntry
  <2>2. ASSUME NEW w \in Workers, Staff(w)
        PROVE  Typed'
    <3>1. ASSUME NEW r \in Reservations, NEW t \in Tables \cup {NoTable}, NEW start \in Times,
                 NEW duration \in Durations, BeginCreate(w, r, t, start, duration)
          PROVE  Typed'
      <4>1. NewRow("pending", t, start, duration) \in Row
        BY DEF NewRow, Row, ActiveStatuses
      <4>2. QED
        BY <3>1, <4>1, BegunRequests DEF BeginCreate, Typed, TypeOK
    <3>2. ASSUME NEW r \in Reservations, NEW t \in Tables \cup {NoTable}, NEW start \in Times,
                 BeginUpdate(w, r, t, start)
          PROVE  Typed'
      <4>1. rows[r] \in Row
        BY DEF Typed, TypeOK
      <4>2. [rows[r] EXCEPT !.table = t, !.start = start] \in Row
        BY <4>1 DEF Row
      <4>3. QED
        BY <3>2, <4>2, BegunRequests DEF BeginUpdate, Typed, TypeOK
    <3>3. ASSUME NEW row, FinishWrite(w, row)
          PROVE  Typed'
      <4>1. /\ request[w] \in Request /\ Addressed(request[w])
            /\ request[w].op \in {"create", "update"}
        BY <3>3 DEF FinishWrite, Savable, Typed, TypeOK
      <4>2. request[w].id \in Reservations /\ request[w].row \in Row
        BY <4>1 DEF Request, Addressed
      <4>3. row \in Row
        <5>1. CASE row = request[w].row
          BY <4>2, <5>1
        <5>2. ASSUME NEW d \in Durations,
                     row = NewRow(request[w].row.status, request[w].row.table,
                                  request[w].row.start, d)
              PROVE  row \in Row
          BY <4>2, <5>2 DEF NewRow, Row
        <5>3. QED
          BY <3>3, <5>1, <5>2 DEF FinishWrite, Savable
      <4>4. Overtake(w, Idle)
        BY <3>3 DEF FinishWrite
      <4>5. request' \in [Workers -> Request] /\ \A v \in Workers : Addressed(request'[v])
        BY <4>4, IdleTyped, OvertakenRequests
      <4>6. rows' \in [Reservations -> Row]
        BY <3>3, <4>2, <4>3 DEF FinishWrite, Typed, TypeOK
      <4>7. raced' \subseteq Reservations
        BY <3>3, <4>2 DEF FinishWrite, Typed, TypeOK
      <4>8. QED
        BY <3>3, <4>5, <4>6, <4>7 DEF FinishWrite, Typed, TypeOK
    <3>4. ASSUME NEW row, WriteFails(w, row)
          PROVE  Typed'
      BY <3>4, IdleTyped DEF WriteFails, Answer, Typed, TypeOK
    <3>5. ASSUME NEW r \in Reservations, NEW to \in FinalStatuses \cup {"seated"},
                 BeginTransition(w, r, to)
          PROVE  Typed'
      <4>1. [Absent("none") EXCEPT !.status = to] \in Row
        BY IdleTyped DEF Row, ActiveStatuses
      <4>2. QED
        BY <3>5, <4>1, BegunRequests DEF BeginTransition, Typed, TypeOK
    <3>6. CASE FinishTransition(w)
      <4>1. /\ request[w] \in Request /\ Addressed(request[w])
            /\ request[w].op = "transition"
        BY <3>6 DEF FinishTransition, Serving, Typed, TypeOK
      <4>2. request[w].id \in Reservations /\ request[w].row \in Row
        BY <4>1 DEF Request, Addressed
      <4>3. CASE Exists(request[w].id)
        <5>1. Overtake(w, Idle)
          BY <3>6, <4>3 DEF FinishTransition
        <5>2. request' \in [Workers -> Request] /\ \A v \in Workers : Addressed(request'[v])
          BY <5>1, IdleTyped, OvertakenRequests
        <5>3. rows' = [rows EXCEPT ![request[w].id].status = request[w].row.status]
          BY <3>6, <4>3 DEF FinishTransition
        <5>4. rows' \in [Reservations -> Row]
          BY <4>2, <5>3 DEF Typed, TypeOK, Row
        <5>5. raced' \subseteq Reservations
          BY <3>6, <4>2, <4>3 DEF FinishTransition, Typed, TypeOK
        <5>6. QED
          BY <3>6, <5>2, <5>4, <5>5 DEF FinishTransition, Typed, TypeOK
      <4>4. CASE ~Exists(request[w].id)
        BY <3>6, <4>4, IdleTyped DEF FinishTransition, Answer, Typed, TypeOK
      <4>5. QED
        BY <4>3, <4>4
    <3>7. ASSUME NEW e \in Entries, BeginEditEntry(w, e)
          PROVE  Typed'
      <4> DEFINE next == [Idle EXCEPT !.op = "edit", !.entry = e, !.copy = entries[e]]
      <4>1. entries[e] \in Entry
        BY DEF Typed, TypeOK
      <4>2. next \in Request /\ Addressed(next)
        BY <4>1, IdleTyped DEF Idle, Request, Addressed
      <4>3. request' = [request EXCEPT ![w] = next]
        BY <3>7 DEF BeginEditEntry
      <4> HIDE DEF next
      <4>4. QED
        BY <3>7, <4>2, <4>3 DEF BeginEditEntry, Typed, TypeOK
    <3>8. CASE FinishEditEntry(w)
      <4>1. /\ request[w] \in Request /\ Addressed(request[w])
            /\ request[w].op = "edit"
        BY <3>8 DEF FinishEditEntry, Serving, Typed, TypeOK
      <4>2. request[w].entry \in Entries /\ request[w].copy \in Entry
        BY <4>1 DEF Request, Addressed
      <4>3. request' \in [Workers -> Request] /\ \A v \in Workers : Addressed(request'[v])
        BY <3>8, IdleTyped DEF FinishEditEntry, Answer, Typed, TypeOK
      <4>4. entries' \in [Entries -> Entry] /\ restored' \subseteq Entries
        BY <3>8, <4>2 DEF FinishEditEntry, Typed, TypeOK
      <4>5. QED
        BY <3>8, <4>3, <4>4 DEF FinishEditEntry, Typed, TypeOK
    <3>9. QED
      BY <2>2, <3>1, <3>2, <3>3, <3>4, <3>5, <3>6, <3>7, <3>8 DEF Staff
  <2>3. ASSUME NEW r \in Reservations, DestroyReservation(r)
        PROVE  Typed'
    <3>1. Absent("deleted") \in Row
      BY DEF Absent, Row, NoRow
    <3>2. rows' \in [Reservations -> Row] /\ raced' \subseteq Reservations
      BY <2>3, <3>1 DEF DestroyReservation, Typed, TypeOK
    <3>3. entries' \in [Entries -> Entry]
      BY <2>3 DEF DestroyReservation, Typed, TypeOK, Entry
    <3>4. request' \in [Workers -> Request] /\ \A v \in Workers : Addressed(request'[v])
      BY <2>3, AllOvertaken DEF DestroyReservation
    <3>5. QED
      BY <2>3, <3>2, <3>3, <3>4 DEF DestroyReservation, Typed, TypeOK
  <2>4. ASSUME NEW e \in Entries, JoinWaitlist(e) \/ DestroyEntry(e)
        PROVE  Typed'
    <3>1. AbsentEntry("deleted") \in Entry
      BY DEF AbsentEntry, Entry, NoRow
    <3>2. entries' \in [Entries -> Entry]
      BY <2>4, <3>1 DEF JoinWaitlist, DestroyEntry, Typed, TypeOK, Entry
    <3>3. QED
      BY <2>4, <3>2 DEF JoinWaitlist, DestroyEntry, Typed, TypeOK
  <2>5. ASSUME NEW t \in Tables, DestroyTable(t)
        PROVE  Typed'
    <3>1. rows' \in [Reservations -> Row]
      BY <2>5 DEF DestroyTable, Typed, TypeOK, Row
    <3>2. request' \in [Workers -> Request] /\ \A v \in Workers : Addressed(request'[v])
      BY <2>5, AllOvertaken DEF DestroyTable
    <3>3. QED
      BY <2>5, <3>1, <3>2 DEF DestroyTable, Typed, TypeOK
  <2>6. ASSUME NEW t \in Tables, NEW c \in Capacities, EditTable(t, c)
        PROVE  Typed'
    BY <2>6 DEF EditTable, Typed, TypeOK
  <2>7. CASE UNCHANGED vars
    BY <2>7 DEF vars, Typed, TypeOK
  <2>8. QED
    BY <2>1, <2>2, <2>3, <2>4, <2>5, <2>6, <2>7 DEF Next
<1>3. QED
  BY <1>1, <1>2, PTL DEF Spec

LEMMA OverlapIsMutual ==
    ASSUME NEW a \in Row, NEW b \in Row
    PROVE  Overlap(a, b) <=> Overlap(b, a)
BY DEF Row, Overlap, Near

LEMMA OverlapIsNear ==
    ASSUME NEW a \in Row, NEW b \in Row, NEW buffer \in Buffers, Overlap(a, b)
    PROVE  Near(a, b, buffer)
BY DEF Row, Overlap, Near

Clear(q, row) == Holds(q) /\ rows[q].table = row.table => ~Overlap(rows[q], row)

\* A booking that has chosen its table and not yet inserted its row.
ChoiceHolds(w) ==
    request[w].op = "assigned" =>
      /\ request[w].row.table \in request[w].locks
      /\ \A q \in Reservations \ raced : Clear(q, request[w].row)

\* A staff request whose check nothing has overtaken.
CheckHolds(w) ==
    request[w].fresh =>
      /\ \A v \in Workers : request[v].op # "assigned"
      /\ request[w].op \in {"create", "update"} /\ request[w].row.table # NoTable =>
           \A q \in Reservations \ {request[w].id} : Clear(q, request[w].row)
      /\ request[w].op = "transition" =>
           MayBecome(rows[request[w].id].status, request[w].row.status)

LocksApart == \A v, w \in Workers : v # w => request[v].locks \cap request[w].locks = {}

BookingInv ==
    /\ \A w \in Workers : ChoiceHolds(w) /\ CheckHolds(w)
    /\ LocksApart
    /\ NoDoubleBooking

\* Staff requests begin with a check of their own and lock nothing.
LEMMA BeginKeepsBookings ==
    ASSUME Typed, BookingInv, NEW w \in Workers, NEW r \in Reservations, NEW row \in Row,
           NEW op \in {"create", "update", "transition"}, Begin(w, op, r, row),
           UNCHANGED <<rows, raced>>,
           op # "transition" /\ row.table # NoTable =>
             \A q \in Reservations \ {r} : Clear(q, row),
           op = "transition" => MayBecome(rows[r].status, row.status)
    PROVE  BookingInv'
<1>1. /\ request'[w].op = op /\ request'[w].id = r /\ request'[w].row = row
      /\ request'[w].locks = {} /\ request'[w].fresh = Fresh
      /\ \A v \in Workers \ {w} : request'[v] = request[v]
  BY BegunRequests
<1>2. LocksApart'
  BY <1>1 DEF BookingInv, LocksApart
<1>3. ASSUME NEW v \in Workers
      PROVE  ChoiceHolds(v)'
  <2>1. CASE v = w
    BY <1>1, <2>1 DEF ChoiceHolds
  <2>2. CASE v # w
    BY <1>1, <2>2 DEF BookingInv, ChoiceHolds, Clear, Holds
  <2>3. QED
    BY <2>1, <2>2
<1>4. ASSUME NEW v \in Workers
      PROVE  CheckHolds(v)'
  <2>1. CASE v = w
    BY <1>1, <2>1 DEF CheckHolds, Fresh, Serving, Clear, Holds
  <2>2. CASE v # w
    BY <1>1, <2>2 DEF BookingInv, CheckHolds, Clear, Holds
  <2>3. QED
    BY <2>1, <2>2
<1>5. NoDoubleBooking'
  BY DEF BookingInv, NoDoubleBooking, Holds
<1>6. QED
  BY <1>2, <1>3, <1>4, <1>5 DEF BookingInv

\* A booking's choice stays good up to its insert because of the lock on its table
\* (ChoiceHolds, LocksApart), a staff check until anything else is written
\* (CheckHolds).
LEMMA BookingKept == Spec => []BookingInv
<1>1. Init => BookingInv
  BY DEF Init, BookingInv, ChoiceHolds, CheckHolds, LocksApart, NoDoubleBooking,
         Idle, Absent, Holds, ActiveStatuses
<1>2. Typed /\ BookingInv /\ [Next]_vars => BookingInv'
  <2> SUFFICES ASSUME Typed, BookingInv, [Next]_vars
               PROVE  BookingInv'
    OBVIOUS
  <2> USE DEF waitVars
  <2>1. ASSUME NEW w \in Workers, Booking(w)
        PROVE  BookingInv'
    <3>1. ASSUME NEW r \in Reservations, NEW party \in Parties, NEW start \in Times,
                 NEW duration \in Durations, NEW buffer \in Buffers,
                 NEW e \in Entries \cup {NoEntry},
                 AssignTable(w, r, e, party, start, duration, buffer)
          PROVE  BookingInv'
      <4>1. PICK t \in Tables :
              LET row == NewRow("confirmed", t, start, duration)
              IN /\ Overtake(w, Assigned(r, e, row, Candidates(party)))
                 /\ t \in Candidates(party) /\ ~Taken(t, row, buffer)
                 /\ row \in Row
        BY <3>1, AssignTableChooses
      <4> DEFINE row == NewRow("confirmed", t, start, duration)
                 next == Assigned(r, e, row, Candidates(party))
      <4>2. /\ next \in Request /\ Addressed(next) /\ next.op = "assigned"
            /\ next.row = row /\ next.locks = Candidates(party) /\ ~next.fresh
        BY <4>1, AssignedRequest DEF Candidates
      <4>3. Overtake(w, next) /\ row \in Row /\ row.table = t /\ t \in Candidates(party)
        BY <4>1 DEF NewRow
      <4>4. \A q \in Reservations : Clear(q, row)
        BY <4>1, <4>3, OverlapIsNear DEF Clear, Taken, Typed, TypeOK
      <4> HIDE DEF next, row
      <4>5. /\ request'[w] = next
            /\ \A v \in Workers : ~request'[v].fresh
            /\ \A v \in Workers \ {w} :
                 /\ request'[v].op = request[v].op /\ request'[v].row = request[v].row
                 /\ request'[v].locks = request[v].locks
        BY <4>2, <4>3, OvertakenRequests
      <4>6. rows' = rows /\ raced' = raced /\ ~LockedByOthers(Candidates(party))
        BY <3>1 DEF AssignTable
      <4>7. LocksApart'
        BY <4>2, <4>5, <4>6 DEF BookingInv, LocksApart, LockedByOthers
      <4>8. ASSUME NEW v \in Workers
            PROVE  ChoiceHolds(v)'
        <5>1. CASE v = w
          BY <4>2, <4>3, <4>4, <4>5, <4>6, <5>1 DEF ChoiceHolds, Clear, Holds
        <5>2. CASE v # w
          BY <4>5, <4>6, <5>2 DEF BookingInv, ChoiceHolds, Clear, Holds
        <5>3. QED
          BY <5>1, <5>2
      <4>9. NoDoubleBooking'
        BY <4>6 DEF BookingInv, NoDoubleBooking, Holds
      <4>10. QED
        BY <4>5, <4>7, <4>8, <4>9 DEF BookingInv, CheckHolds
    <3>2. CASE CommitBooking(w)
      <4> DEFINE r == request[w].id
                 row == request[w].row
      <4>1. /\ request[w] \in Request /\ Addressed(request[w]) /\ request[w].op = "assigned"
            /\ Overtake(w, Idle) /\ rows' = [rows EXCEPT ![r] = row] /\ raced' = raced
        BY <3>2 DEF CommitBooking, Serving, Typed, TypeOK
      <4>2. r \in Reservations /\ row \in Row
        BY <4>1 DEF Request, Addressed
      <4>3. /\ row.table \in request[w].locks
            /\ \A q \in Reservations \ raced : Clear(q, row)
        BY <4>1 DEF BookingInv, ChoiceHolds
      <4>4. rows'[r] = row /\ \A q \in Reservations \ {r} : rows'[q] = rows[q]
        BY <4>1, <4>2 DEF Typed, TypeOK
      <4>5. /\ request'[w] = Idle
            /\ \A v \in Workers : ~request'[v].fresh
            /\ \A v \in Workers \ {w} :
                 /\ request'[v].op = request[v].op /\ request'[v].row = request[v].row
                 /\ request'[v].locks = request[v].locks
        BY <4>1, IdleTyped, OvertakenRequests DEF Idle
      <4>6. LocksApart'
        BY <4>5 DEF BookingInv, LocksApart, Idle
      <4>7. ASSUME NEW v \in Workers
            PROVE  ChoiceHolds(v)'
        <5>1. CASE v = w
          BY <4>5, <5>1 DEF ChoiceHolds, Idle
        <5>2. CASE v # w
          <6> SUFFICES ASSUME request[v].op = "assigned"
                       PROVE  ChoiceHolds(v)'
            BY <4>5, <5>2 DEF ChoiceHolds
          <6>1. /\ request[v].row.table \in request[v].locks
                /\ \A q \in Reservations \ raced : Clear(q, request[v].row)
            BY DEF BookingInv, ChoiceHolds
          <6>2. row.table # request[v].row.table
            BY <4>3, <5>2, <6>1 DEF BookingInv, LocksApart
          <6>3. QED
            BY <4>1, <4>4, <4>5, <5>2, <6>1, <6>2 DEF ChoiceHolds, Clear, Holds
        <5>3. QED
          BY <5>1, <5>2
      <4>8. NoDoubleBooking'
        <5> SUFFICES ASSUME NEW a \in Reservations, NEW b \in Reservations, a # b,
                            Holds(a)', Holds(b)',
                            rows'[a].table # NoTable, rows'[a].table = rows'[b].table,
                            Overlap(rows'[a], rows'[b]),
                            a \notin raced, b \notin raced
                     PROVE  FALSE
          BY <4>1 DEF NoDoubleBooking
        <5>1. CASE a = r
          BY <4>2, <4>3, <4>4, <5>1, OverlapIsMutual DEF Clear, Holds, Typed, TypeOK
        <5>2. CASE b = r
          BY <4>3, <4>4, <5>2 DEF Clear, Holds
        <5>3. CASE a # r /\ b # r
          BY <4>4, <5>3 DEF BookingInv, NoDoubleBooking, Holds
        <5>4. QED
          BY <5>1, <5>2, <5>3
      <4>9. QED
        BY <4>5, <4>6, <4>7, <4>8 DEF BookingInv, CheckHolds
    <3>3. QED
      BY <2>1, <3>1, <3>2 DEF Booking, Book, ConvertEntry
  <2>2. ASSUME NEW w \in Workers, Staff(w)
        PROVE  BookingInv'
    <3>1. ASSUME NEW r \in Reservations, NEW t \in Tables \cup {NoTable}, NEW start \in Times,
                 NEW duration \in Durations, BeginCreate(w, r, t, start, duration)
          PROVE  BookingInv'
      <4>1. NewRow("pending", t, start, duration) \in Row
        BY DEF NewRow, Row, ActiveStatuses
      <4>2. QED
        BY <3>1, <4>1, BeginKeepsBookings DEF BeginCreate, StaffMayPlace, Clear
    <3>2. ASSUME NEW r \in Reservations, NEW t \in Tables \cup {NoTable}, NEW start \in Times,
                 BeginUpdate(w, r, t, start)
          PROVE  BookingInv'
      <4>1. rows[r] \in Row
        BY DEF Typed, TypeOK
      <4>2. [rows[r] EXCEPT !.table = t, !.start = start] \in Row
        BY <4>1 DEF Row
      <4>3. QED
        BY <3>2, <4>2, BeginKeepsBookings DEF BeginUpdate, StaffMayPlace, Clear
    <3>3. ASSUME NEW row, FinishWrite(w, row)
          PROVE  BookingInv'
      <4> DEFINE r == request[w].id
      <4>1. /\ request[w] \in Request /\ Addressed(request[w])
            /\ request[w].op \in {"create", "update"}
            /\ Overtake(w, Idle) /\ rows' = [rows EXCEPT ![r] = row]
            /\ raced' = IF request[w].fresh /\ row = request[w].row
                        THEN raced \ {r} ELSE raced \cup {r}
        BY <3>3 DEF FinishWrite, Savable, Typed, TypeOK
      <4>2. r \in Reservations /\ request[w].row \in Row
        BY <4>1 DEF Request, Addressed
      <4>3. rows'[r] = row /\ \A q \in Reservations \ {r} : rows'[q] = rows[q]
        BY <4>1, <4>2 DEF Typed, TypeOK
      <4>4. /\ request'[w] = Idle
            /\ \A v \in Workers : ~request'[v].fresh
            /\ \A v \in Workers \ {w} :
                 /\ request'[v].op = request[v].op /\ request'[v].row = request[v].row
                 /\ request'[v].locks = request[v].locks
        BY <4>1, IdleTyped, OvertakenRequests DEF Idle
      <4>5. LocksApart'
        BY <4>4 DEF BookingInv, LocksApart, Idle
      <4>6. CASE request[w].fresh /\ row = request[w].row
        <5>1. /\ \A v \in Workers : request[v].op # "assigned"
              /\ row.table # NoTable => \A q \in Reservations \ {r} : Clear(q, row)
          BY <4>1, <4>6 DEF BookingInv, CheckHolds
        <5>2. \A v \in Workers : ChoiceHolds(v)'
          BY <4>4, <5>1 DEF ChoiceHolds, Idle
        <5>3. NoDoubleBooking'
          <6> SUFFICES ASSUME NEW a \in Reservations, NEW b \in Reservations, a # b,
                              Holds(a)', Holds(b)',
                              rows'[a].table # NoTable, rows'[a].table = rows'[b].table,
                              Overlap(rows'[a], rows'[b]),
                              a \notin raced', b \notin raced'
                       PROVE  FALSE
            BY DEF NoDoubleBooking
          <6>1. CASE a = r
            BY <4>2, <4>3, <4>6, <5>1, <6>1, OverlapIsMutual DEF Clear, Holds, Typed, TypeOK
          <6>2. CASE b = r
            BY <4>3, <5>1, <6>2 DEF Clear, Holds
          <6>3. CASE a # r /\ b # r
            BY <4>1, <4>3, <6>3 DEF BookingInv, NoDoubleBooking, Holds
          <6>4. QED
            BY <6>1, <6>2, <6>3
        <5>4. QED
          BY <4>4, <4>5, <5>2, <5>3 DEF BookingInv, CheckHolds
      <4>7. CASE ~(request[w].fresh /\ row = request[w].row)
        <5>1. raced' = raced \cup {r}
          BY <4>1, <4>7
        <5>2. \A v \in Workers : ChoiceHolds(v)'
          BY <4>3, <4>4, <5>1 DEF BookingInv, ChoiceHolds, Clear, Holds, Idle
        <5>3. NoDoubleBooking'
          BY <4>3, <5>1 DEF BookingInv, NoDoubleBooking, Holds
        <5>4. QED
          BY <4>4, <4>5, <5>2, <5>3 DEF BookingInv, CheckHolds
      <4>8. QED
        BY <4>6, <4>7
    <3>4. ASSUME UNCHANGED <<rows, raced>>,
                 NEW next, request' = [request EXCEPT ![w] = next],
                 next.op \in {"idle", "edit"}, next.locks = {}, ~next.fresh
          PROVE  BookingInv'
      <4>1. request'[w] = next /\ \A v \in Workers \ {w} : request'[v] = request[v]
        BY <3>4 DEF Typed, TypeOK
      <4>2. \A v \in Workers : ChoiceHolds(v)'
        BY <3>4, <4>1 DEF BookingInv, ChoiceHolds, Clear, Holds
      <4>3. \A v \in Workers : CheckHolds(v)'
        BY <3>4, <4>1 DEF BookingInv, CheckHolds, Clear, Holds
      <4>4. LocksApart'
        BY <3>4, <4>1 DEF BookingInv, LocksApart
      <4>5. QED
        BY <3>4, <4>2, <4>3, <4>4 DEF BookingInv, NoDoubleBooking, Holds
    <3>5. ASSUME Answer(w), UNCHANGED <<rows, raced>>
          PROVE  BookingInv'
      <4>1. request' = [request EXCEPT ![w] = Idle]
        BY <3>5 DEF Answer
      <4>2. Idle.op = "idle" /\ Idle.locks = {} /\ ~Idle.fresh
        BY DEF Idle
      <4>3. QED
        BY <3>4, <3>5, <4>1, <4>2
    <3>6. ASSUME NEW r \in Reservations, NEW to \in FinalStatuses \cup {"seated"},
                 BeginTransition(w, r, to)
          PROVE  BookingInv'
      <4> DEFINE row == [Absent("none") EXCEPT !.status = to]
      <4>1. row \in Row /\ row.status = to
        BY IdleTyped DEF Row, ActiveStatuses
      <4>2. Begin(w, "transition", r, row) /\ MayBecome(rows[r].status, to)
            /\ UNCHANGED <<rows, raced>>
        BY <3>6 DEF BeginTransition
      <4> HIDE DEF row
      <4>3. QED
        BY <4>1, <4>2, BeginKeepsBookings
    <3>7. CASE FinishTransition(w)
      <4> DEFINE r == request[w].id
                 to == request[w].row.status
      <4>1. /\ request[w] \in Request /\ Addressed(request[w])
            /\ request[w].op = "transition"
        BY <3>7 DEF FinishTransition, Serving, Typed, TypeOK
      <4>2. r \in Reservations
        BY <4>1 DEF Addressed
      <4>3. CASE Exists(r)
        <5>1. /\ Overtake(w, Idle) /\ rows' = [rows EXCEPT ![r].status = to]
              /\ raced' = IF request[w].fresh THEN raced ELSE raced \cup {r}
          BY <3>7, <4>3 DEF FinishTransition
        <5>2. /\ rows'[r].status = to /\ rows'[r].table = rows[r].table
              /\ rows'[r].start = rows[r].start /\ rows'[r].end = rows[r].end
              /\ \A q \in Reservations \ {r} : rows'[q] = rows[q]
          BY <4>2, <5>1 DEF Typed, TypeOK, Row
        <5>3. /\ request'[w] = Idle
              /\ \A v \in Workers : ~request'[v].fresh
              /\ \A v \in Workers \ {w} :
                   /\ request'[v].op = request[v].op /\ request'[v].row = request[v].row
                   /\ request'[v].locks = request[v].locks
          BY <5>1, IdleTyped, OvertakenRequests DEF Idle
        <5>4. LocksApart'
          BY <5>3 DEF BookingInv, LocksApart, Idle
        <5>5. request[w].fresh =>
                /\ \A v \in Workers : request[v].op # "assigned"
                /\ Holds(r)
          BY <4>1 DEF BookingInv, CheckHolds, MayBecome, Holds, ActiveStatuses
        <5>6. \A q \in Reservations \ raced' :
                 Holds(q)' => /\ Holds(q) /\ rows'[q].table = rows[q].table
                              /\ rows'[q].start = rows[q].start /\ rows'[q].end = rows[q].end
          BY <5>1, <5>2, <5>5 DEF Holds
        <5>7. \A v \in Workers : ChoiceHolds(v)'
          BY <5>1, <5>3, <5>6
          DEF BookingInv, ChoiceHolds, Clear, Overlap, Near, Idle
        <5>8. NoDoubleBooking'
          BY <5>1, <5>6 DEF BookingInv, NoDoubleBooking, Overlap, Near
        <5>9. QED
          BY <5>3, <5>4, <5>7, <5>8 DEF BookingInv, CheckHolds
      <4>4. CASE ~Exists(r)
        BY <3>5, <3>7, <4>4 DEF FinishTransition
      <4>5. QED
        BY <4>3, <4>4
    <3>8. ASSUME NEW e \in Entries, BeginEditEntry(w, e)
          PROVE  BookingInv'
      <4> DEFINE next == [Idle EXCEPT !.op = "edit", !.entry = e, !.copy = entries[e]]
      <4>1. next.op = "edit" /\ next.locks = {} /\ ~next.fresh
        BY DEF Idle
      <4>2. request' = [request EXCEPT ![w] = next] /\ UNCHANGED <<rows, raced>>
        BY <3>8 DEF BeginEditEntry
      <4> HIDE DEF next
      <4>3. QED
        BY <3>4, <4>1, <4>2
    <3>9. QED
      BY <2>2, <3>1, <3>2, <3>3, <3>5, <3>6, <3>7, <3>8
      DEF Staff, WriteFails, FinishEditEntry
  <2>3. ASSUME NEW r \in Reservations, DestroyReservation(r)
        PROVE  BookingInv'
    <3>1. /\ ~Holds(r)' /\ \A q \in Reservations \ {r} : rows'[q] = rows[q]
          /\ raced' = raced \ {r}
      BY <2>3 DEF DestroyReservation, Typed, TypeOK, Holds, Absent, ActiveStatuses
    <3>2. \A v \in Workers :
            /\ ~request'[v].fresh
            /\ request'[v].op = request[v].op /\ request'[v].row = request[v].row
            /\ request'[v].locks = request[v].locks
      BY <2>3, AllOvertaken DEF DestroyReservation
    <3>3. \A v \in Workers : ChoiceHolds(v)'
      BY <3>1, <3>2 DEF BookingInv, ChoiceHolds, Clear, Holds
    <3>4. LocksApart' /\ NoDoubleBooking'
      BY <3>1, <3>2 DEF BookingInv, LocksApart, NoDoubleBooking, Holds
    <3>5. QED
      BY <3>2, <3>3, <3>4 DEF BookingInv, CheckHolds
  <2>4. ASSUME UNCHANGED <<rows, raced, request>>
        PROVE  BookingInv'
    BY <2>4 DEF BookingInv, ChoiceHolds, CheckHolds, LocksApart, NoDoubleBooking, Clear, Holds
  <2>5. ASSUME NEW t \in Tables, DestroyTable(t)
        PROVE  BookingInv'
    <3>1. /\ raced' = raced
          /\ \A q \in Reservations :
               /\ rows'[q].status = rows[q].status
               /\ rows'[q].start = rows[q].start /\ rows'[q].end = rows[q].end
               /\ rows'[q].table = IF rows[q].table = t THEN NoTable ELSE rows[q].table
      BY <2>5 DEF DestroyTable, Typed, TypeOK, Row
    <3>2. \A v \in Workers :
            /\ ~request'[v].fresh
            /\ request'[v].op = request[v].op /\ request'[v].row = request[v].row
            /\ request'[v].locks = request[v].locks /\ request[v].locks \subseteq Tables
      BY <2>5, AllOvertaken DEF DestroyTable, Typed, TypeOK, Request
    <3>3. \A v \in Workers : ChoiceHolds(v)'
      BY <3>1, <3>2 DEF BookingInv, ChoiceHolds, Clear, Holds, Overlap, Near
    <3>4. LocksApart' /\ NoDoubleBooking'
      BY <3>1, <3>2 DEF BookingInv, LocksApart, NoDoubleBooking, Holds, Overlap, Near
    <3>5. QED
      BY <3>2, <3>3, <3>4 DEF BookingInv, CheckHolds
  <2>6. QED
    BY <2>1, <2>2, <2>3, <2>4, <2>5
    DEF Next, JoinWaitlist, DestroyEntry, EditTable, vars
<1>3. QED
  BY <1>1, <1>2, TypeCorrect, PTL DEF Spec

\* No table is held twice at one time, unless one of the two reservations was
\* last written by a staff request that another request had overtaken: part of
\* BookingInv.
THEOREM NoTableHeldTwice == Spec => []NoDoubleBooking
<1>1. BookingInv => NoDoubleBooking
  BY DEF BookingInv
<1>2. QED
  BY <1>1, BookingKept, PTL

\* A request for a new row has it to itself, and an update that nothing has
\* overtaken leaves the status as it found it.
Owns(w) ==
    /\ request[w].op \in {"assigned", "create"} =>
         /\ rows[request[w].id].status = "none"
         /\ \A v \in Workers \ {w} : request[v].id # request[w].id
    /\ request[w].fresh /\ request[w].op = "update" =>
         request[w].row.status = rows[request[w].id].status

OwnInv == \A w \in Workers : Owns(w)

\* A request that ends, or goes on to a waitlist entry, disturbs no other.
LEMMA EndKeepsOwners ==
    ASSUME Typed, OwnInv, NEW w \in Workers,
           request'[w].op \in {"idle", "edit"}, ~request'[w].fresh,
           request'[w].id = NoReservation,
           \A v \in Workers \ {w} :
             /\ request'[v].op = request[v].op /\ request'[v].id = request[v].id
             /\ request'[v].row = request[v].row
             /\ request'[v].fresh => request[v].fresh /\ rows' = rows,
           \A q \in Reservations \ {request[w].id} : rows'[q] = rows[q]
    PROVE  OwnInv'
<1> SUFFICES ASSUME NEW v \in Workers
             PROVE  Owns(v)'
  BY DEF OwnInv
<1>1. CASE v = w
  BY <1>1 DEF Owns
<1>2. CASE v # w
  <2>1. Owns(v)
    BY DEF OwnInv
  <2>2. request[v].op \in {"assigned", "create"} => request[v].id \in Reservations
    BY DEF Typed, Addressed
  <2>3. QED
    BY <1>2, <2>1, <2>2 DEF Owns
<1>3. QED
  BY <1>1, <1>2

LEMMA BeginKeepsOwners ==
    ASSUME Typed, OwnInv, NEW w \in Workers, NEW r \in Reservations, NEW row \in Row,
           NEW op \in {"create", "update", "transition"}, Begin(w, op, r, row),
           rows' = rows,
           op = "create" => Unused(r),
           op # "create" => Exists(r),
           op = "update" => row.status = rows[r].status
    PROVE  OwnInv'
<1>1. /\ request'[w].op = op /\ request'[w].id = r /\ request'[w].row = row
      /\ \A v \in Workers \ {w} : request'[v] = request[v]
  BY BegunRequests
<1> SUFFICES ASSUME NEW v \in Workers
             PROVE  Owns(v)'
  BY DEF OwnInv
<1>2. CASE v = w
  BY <1>1, <1>2 DEF Owns, Unused
<1>3. CASE v # w
  <2>1. Owns(v)
    BY DEF OwnInv
  <2>2. request[v].op \in {"assigned", "create"} => r # request[v].id
    BY <2>1 DEF Owns, Unused, Exists, NoRow
  <2>3. QED
    BY <1>1, <1>3, <2>1, <2>2 DEF Owns
<1>4. QED
  BY <1>2, <1>3

\* A reservation that is over, or gone, comes back only by the stale write of
\* an unlocked request: a booking inserts a row of its own (Owns), and a check
\* that still holds has seen the status it overwrites (CheckHolds, Owns).
THEOREM OverStaysOver == Spec => OverUnlessOvertaken
<1>1. Init => OwnInv
  BY DEF Init, OwnInv, Owns, Idle
<1>2. Typed /\ OwnInv /\ [Next]_vars => OwnInv'
  <2> SUFFICES ASSUME Typed, OwnInv, [Next]_vars
               PROVE  OwnInv'
    OBVIOUS
  <2> USE DEF waitVars
  <2>1. Idle.op = "idle" /\ Idle.id = NoReservation /\ ~Idle.fresh
    BY DEF Idle
  <2>2. ASSUME NEW w \in Workers, Overtake(w, Idle),
               \A q \in Reservations \ {request[w].id} : rows'[q] = rows[q]
        PROVE  OwnInv'
    <3>1. /\ request'[w] = Idle
          /\ \A v \in Workers \ {w} :
               /\ ~request'[v].fresh
               /\ request'[v].op = request[v].op /\ request'[v].id = request[v].id
               /\ request'[v].row = request[v].row
      BY <2>2, IdleTyped, OvertakenRequests
    <3>2. QED
      BY <2>1, <2>2, <3>1, EndKeepsOwners
  <2>3. ASSUME NEW w \in Workers, NEW next, request' = [request EXCEPT ![w] = next],
               next.op \in {"idle", "edit"}, next.id = NoReservation, ~next.fresh,
               rows' = rows
        PROVE  OwnInv'
    <3>1. request'[w] = next /\ \A v \in Workers \ {w} : request'[v] = request[v]
      BY <2>3 DEF Typed, TypeOK
    <3>2. QED
      BY <2>3, <3>1, EndKeepsOwners
  <2>4. ASSUME NEW w \in Workers, Answer(w), rows' = rows
        PROVE  OwnInv'
    <3>1. request' = [request EXCEPT ![w] = Idle]
      BY <2>4 DEF Answer
    <3>2. QED
      BY <2>1, <2>3, <2>4, <3>1
  <2>5. ASSUME NEW w \in Workers, NEW r \in Reservations, NEW party \in Parties,
               NEW start \in Times, NEW duration \in Durations, NEW buffer \in Buffers,
               NEW e \in Entries \cup {NoEntry},
               AssignTable(w, r, e, party, start, duration, buffer)
        PROVE  OwnInv'
    <3>1. PICK t \in Tables :
            LET row == NewRow("confirmed", t, start, duration)
            IN  Overtake(w, Assigned(r, e, row, Candidates(party))) /\ row \in Row
      BY <2>5, AssignTableChooses
    <3> DEFINE next == Assigned(r, e, NewRow("confirmed", t, start, duration), Candidates(party))
    <3>2. /\ next \in Request /\ Addressed(next)
          /\ next.op = "assigned" /\ next.id = r /\ ~next.fresh
      BY <3>1, AssignedRequest DEF Candidates
    <3>3. Overtake(w, next)
      BY <3>1
    <3> HIDE DEF next
    <3>4. /\ request'[w] = next
          /\ \A v \in Workers \ {w} :
               /\ ~request'[v].fresh
               /\ request'[v].op = request[v].op /\ request'[v].id = request[v].id
      BY <3>2, <3>3, OvertakenRequests
    <3>5. rows' = rows /\ Unused(r)
      BY <2>5 DEF AssignTable
    <3>6. ASSUME NEW v \in Workers
          PROVE  Owns(v)'
      <4>1. CASE v = w
        BY <3>2, <3>4, <3>5, <4>1 DEF Owns, Unused
      <4>2. CASE v # w
        BY <3>2, <3>4, <3>5, <4>2 DEF OwnInv, Owns, Unused
      <4>3. QED
        BY <4>1, <4>2
    <3>7. QED
      BY <3>6 DEF OwnInv
  <2>6. ASSUME NEW w \in Workers, CommitBooking(w)
        PROVE  OwnInv'
    BY <2>2, <2>6 DEF CommitBooking, Typed, TypeOK
  <2>7. ASSUME NEW w \in Workers, NEW r \in Reservations, NEW t \in Tables \cup {NoTable},
               NEW start \in Times, NEW duration \in Durations,
               BeginCreate(w, r, t, start, duration)
        PROVE  OwnInv'
    <3>1. NewRow("pending", t, start, duration) \in Row
      BY DEF NewRow, Row, ActiveStatuses
    <3>2. QED
      BY <2>7, <3>1, BeginKeepsOwners DEF BeginCreate
  <2>8. ASSUME NEW w \in Workers, NEW r \in Reservations, NEW t \in Tables \cup {NoTable},
               NEW start \in Times, BeginUpdate(w, r, t, start)
        PROVE  OwnInv'
    <3>1. rows[r] \in Row
      BY DEF Typed, TypeOK
    <3> DEFINE row == [rows[r] EXCEPT !.table = t, !.start = start]
    <3>2. row \in Row /\ row.status = rows[r].status
      BY <3>1 DEF Row
    <3>3. Begin(w, "update", r, row) /\ Exists(r) /\ rows' = rows
      BY <2>8 DEF BeginUpdate
    <3> HIDE DEF row
    <3>4. QED
      BY <3>2, <3>3, BeginKeepsOwners
  <2>9. ASSUME NEW w \in Workers, NEW row, FinishWrite(w, row)
        PROVE  OwnInv'
    BY <2>2, <2>9 DEF FinishWrite, Typed, TypeOK
  <2>10. ASSUME NEW w \in Workers, NEW r \in Reservations,
                NEW to \in FinalStatuses \cup {"seated"}, BeginTransition(w, r, to)
         PROVE  OwnInv'
    <3>1. [Absent("none") EXCEPT !.status = to] \in Row
      BY IdleTyped DEF Row, ActiveStatuses
    <3>2. QED
      BY <2>10, <3>1, BeginKeepsOwners DEF BeginTransition
  <2>11. ASSUME NEW w \in Workers, FinishTransition(w)
         PROVE  OwnInv'
    BY <2>2, <2>4, <2>11 DEF FinishTransition, Typed, TypeOK
  <2>12. ASSUME NEW w \in Workers, NEW e \in Entries, BeginEditEntry(w, e)
         PROVE  OwnInv'
    <3> DEFINE next == [Idle EXCEPT !.op = "edit", !.entry = e, !.copy = entries[e]]
    <3>1. next.op = "edit" /\ next.id = NoReservation /\ ~next.fresh
      BY DEF Idle
    <3>2. request' = [request EXCEPT ![w] = next] /\ rows' = rows
      BY <2>12 DEF BeginEditEntry
    <3> HIDE DEF next
    <3>3. QED
      BY <2>3, <3>1, <3>2
  <2>13. ASSUME request' = [w \in Workers |-> [request[w] EXCEPT !.fresh = FALSE]],
                \A r \in Reservations :
                  rows[r].status = "none" => rows'[r].status = "none"
         PROVE  OwnInv'
    <3>1. \A w \in Workers :
            /\ ~request'[w].fresh
            /\ request'[w].op = request[w].op /\ request'[w].id = request[w].id
      BY <2>13, AllOvertaken
    <3>2. ASSUME NEW w \in Workers
          PROVE  Owns(w)'
      <4>1. request[w].op \in {"assigned", "create"} => request[w].id \in Reservations
        BY DEF Typed, Addressed
      <4>2. QED
        BY <2>13, <3>1, <4>1 DEF OwnInv, Owns
    <3>3. QED
      BY <3>2 DEF OwnInv
  <2>14. ASSUME UNCHANGED <<rows, request>>
         PROVE  OwnInv'
    BY <2>14 DEF OwnInv, Owns
  <2>15. ASSUME NEW r \in Reservations, DestroyReservation(r)
         PROVE  OwnInv'
    BY <2>13, <2>15 DEF DestroyReservation, Exists, NoRow, Typed, TypeOK
  <2>16. ASSUME NEW t \in Tables, DestroyTable(t)
         PROVE  OwnInv'
    BY <2>13, <2>16 DEF DestroyTable, Typed, TypeOK, Row
  <2>17. ASSUME NEW w \in Workers, Booking(w) \/ Staff(w)
         PROVE  OwnInv'
    BY <2>4, <2>5, <2>6, <2>7, <2>8, <2>9, <2>10, <2>11, <2>12, <2>17
    DEF Booking, Book, ConvertEntry, Staff, WriteFails, FinishEditEntry
  <2>18. QED
    BY <2>14, <2>15, <2>16, <2>17 DEF Next, JoinWaitlist, DestroyEntry, EditTable, vars
<1>3. Typed /\ BookingInv /\ OwnInv /\ [Next]_vars =>
        [\A r \in Reservations :
           rows[r].status \in FinalStatuses \cup {"deleted"} /\ rows'[r].status \in ActiveStatuses
           => r \in raced']_vars
  <2> SUFFICES ASSUME Typed, BookingInv, OwnInv, Next, NEW r \in Reservations,
                      rows[r].status \in FinalStatuses \cup {"deleted"},
                      rows'[r].status \in ActiveStatuses
               PROVE  r \in raced'
    OBVIOUS
  <2> USE DEF waitVars
  <2>1. /\ rows[r].status \notin ActiveStatuses \cup {"none"}
        /\ rows'[r] # rows[r] /\ rows'[r].status # rows[r].status
    BY DEF FinalStatuses, ActiveStatuses
  <2>2. ASSUME NEW w \in Workers, CommitBooking(w)
        PROVE  r \in raced'
    <3>1. request[w].id = r
      BY <2>1, <2>2 DEF CommitBooking, Typed, TypeOK
    <3>2. rows[r].status = "none"
      BY <2>2, <3>1 DEF CommitBooking, Serving, OwnInv, Owns
    <3>3. QED
      BY <2>1, <3>2
  <2>3. ASSUME NEW w \in Workers, NEW row, FinishWrite(w, row)
        PROVE  r \in raced'
    <3>1. request[w].id = r /\ rows'[r] = row
      BY <2>1, <2>3 DEF FinishWrite, Typed, TypeOK
    <3>2. SUFFICES ASSUME request[w].fresh, row = request[w].row
                   PROVE  FALSE
      BY <2>3, <3>1 DEF FinishWrite
    <3>3. request[w].op \in {"create", "update"}
      BY <2>3 DEF FinishWrite, Savable
    <3>4. QED
      BY <2>1, <3>1, <3>2, <3>3 DEF OwnInv, Owns
  <2>4. ASSUME NEW w \in Workers, FinishTransition(w)
        PROVE  r \in raced'
    <3>1. request[w].id = r /\ Exists(r) /\ request[w].op = "transition"
      BY <2>1, <2>4 DEF FinishTransition, Serving, Typed, TypeOK
    <3>2. ~request[w].fresh
      BY <2>1, <3>1 DEF BookingInv, CheckHolds, MayBecome, ActiveStatuses
    <3>3. QED
      BY <2>4, <3>1, <3>2 DEF FinishTransition
  <2>5. ASSUME rows' = rows
        PROVE  r \in raced'
    BY <2>1, <2>5
  <2>6. ASSUME NEW q \in Reservations, DestroyReservation(q)
        PROVE  r \in raced'
    BY <2>1, <2>6 DEF DestroyReservation, Absent, ActiveStatuses, Typed, TypeOK
  <2>7. ASSUME NEW t \in Tables, DestroyTable(t)
        PROVE  r \in raced'
    <3>1. rows[r] \in Row /\ rows'[r] = IF rows[r].table = t
                                        THEN [rows[r] EXCEPT !.table = NoTable] ELSE rows[r]
      BY <2>7 DEF DestroyTable, Typed, TypeOK
    <3>2. QED
      BY <2>1, <3>1 DEF Row
  <2>8. ASSUME NEW w \in Workers, Booking(w)
        PROVE  r \in raced'
    <3>1. CASE CommitBooking(w)
      BY <2>2, <3>1
    <3>2. ASSUME NEW q \in Reservations, NEW party \in Parties, NEW start \in Times,
                 NEW duration \in Durations, NEW buffer \in Buffers,
                 NEW e \in Entries \cup {NoEntry},
                 AssignTable(w, q, e, party, start, duration, buffer)
          PROVE  rows' = rows
      BY <3>2 DEF AssignTable
    <3>3. QED
      BY <2>5, <2>8, <3>1, <3>2 DEF Booking, Book, ConvertEntry
  <2>9. ASSUME NEW w \in Workers, Staff(w)
        PROVE  r \in raced'
    BY <2>3, <2>4, <2>5, <2>9
    DEF Staff, BeginCreate, BeginUpdate, WriteFails, BeginTransition, BeginEditEntry,
        FinishEditEntry
  <2>10. QED
    BY <2>5, <2>6, <2>7, <2>8, <2>9 DEF Next, JoinWaitlist, DestroyEntry, EditTable
<1>4. QED
  BY <1>1, <1>2, <1>3, TypeCorrect, BookingKept, PTL DEF Spec, OverUnlessOvertaken

\* The conversion of an entry holds its lock, so that it stays the only one and
\* the entry stays waiting; an edit holds a copy of an entry that was there.
Converts(w) ==
    /\ request[w].op = "assigned" /\ request[w].entry \in Entries =>
         /\ entries[request[w].entry].status = "waiting"
         /\ \A v \in Workers \ {w} :
              request[v].op = "assigned" => request[v].entry # request[w].entry
    /\ request[w].op = "edit" => request[w].copy.status \notin NoRow

\* An entry that was converted waits again only after a stale edit.
Converted(a) ==
    origin[a] \in Entries \ restored => entries[origin[a]].status \notin {"waiting", "none"}

EntryInv ==
    /\ \A w \in Workers : Converts(w)
    /\ \A a \in Reservations : Converted(a)
    /\ ConvertedOnce

\* What changes no entry's status and ends or begins a request about none.
LEMMA RequestKeepsEntries ==
    ASSUME Typed, EntryInv, NEW w \in Workers,
           request'[w].op \notin {"assigned", "edit"},
           \A v \in Workers \ {w} :
             /\ request'[v].op = request[v].op /\ request'[v].entry = request[v].entry
             /\ request'[v].copy = request[v].copy,
           \A e \in Entries : entries'[e].status = entries[e].status,
           UNCHANGED <<origin, restored>>
    PROVE  EntryInv'
<1>1. ASSUME NEW v \in Workers
      PROVE  Converts(v)'
  <2>1. CASE v = w
    BY <2>1 DEF Converts
  <2>2. CASE v # w
    BY <2>2 DEF EntryInv, Converts
  <2>3. QED
    BY <2>1, <2>2
<1>2. \A a \in Reservations : Converted(a)'
  BY DEF EntryInv, Converted
<1>3. ConvertedOnce'
  BY DEF EntryInv, ConvertedOnce
<1>4. QED
  BY <1>1, <1>2, <1>3 DEF EntryInv

\* A waitlist entry becomes one reservation, unless a stale edit has put it back
\* to waiting (ConvertedOnce): its status is read under its lock, and the
\* conversion holds the lock until it has written the status (Converts).
THEOREM OneReservationPerEntry == Spec => []ConvertedOnce
<1>1. Init => EntryInv
  BY DEF Init, EntryInv, Converts, Converted, ConvertedOnce, Idle
<1>2. Typed /\ EntryInv /\ [Next]_vars => EntryInv'
  <2> SUFFICES ASSUME Typed, EntryInv, [Next]_vars
               PROVE  EntryInv'
    OBVIOUS
  <2> USE DEF waitVars
  <2>1. Idle.op = "idle"
    BY DEF Idle
  <2>2. ASSUME NEW w \in Workers, Overtake(w, Idle), UNCHANGED waitVars
        PROVE  EntryInv'
    BY <2>1, <2>2, IdleTyped, OvertakenRequests, RequestKeepsEntries
  <2>3. ASSUME NEW w \in Workers, Answer(w), UNCHANGED waitVars
        PROVE  EntryInv'
    <3>1. request'[w] = Idle /\ \A v \in Workers \ {w} : request'[v] = request[v]
      BY <2>3 DEF Answer, Typed, TypeOK
    <3>2. QED
      BY <2>1, <2>3, <3>1, RequestKeepsEntries
  <2>4. ASSUME NEW w \in Workers, NEW r \in Reservations, NEW row \in Row,
               NEW op \in {"create", "update", "transition"}, Begin(w, op, r, row),
               UNCHANGED waitVars
        PROVE  EntryInv'
    BY <2>4, BegunRequests, RequestKeepsEntries
  <2>5. ASSUME NEW w \in Workers, NEW r \in Reservations, NEW party \in Parties,
               NEW start \in Times, NEW duration \in Durations, NEW buffer \in Buffers,
               NEW e \in Entries \cup {NoEntry},
               AssignTable(w, r, e, party, start, duration, buffer),
               e \in Entries => ~EntryLocked(e) /\ Convertible(e)
        PROVE  EntryInv'
    <3>1. PICK t \in Tables :
            LET row == NewRow("confirmed", t, start, duration)
            IN  Overtake(w, Assigned(r, e, row, Candidates(party))) /\ row \in Row
      BY <2>5, AssignTableChooses
    <3> DEFINE next == Assigned(r, e, NewRow("confirmed", t, start, duration), Candidates(party))
    <3>2. next \in Request /\ Addressed(next) /\ next.op = "assigned" /\ next.entry = e
      BY <3>1, AssignedRequest DEF Candidates
    <3>3. Overtake(w, next)
      BY <3>1
    <3> HIDE DEF next
    <3>4. /\ request'[w] = next
          /\ \A v \in Workers \ {w} :
               /\ request'[v].op = request[v].op /\ request'[v].entry = request[v].entry
               /\ request'[v].copy = request[v].copy
      BY <3>2, <3>3, OvertakenRequests
    <3>5. /\ UNCHANGED <<entries, origin, restored>>
          /\ e \in Entries =>
               /\ entries[e].status = "waiting"
               /\ \A v \in Workers : request[v].op = "assigned" => request[v].entry # e
      BY <2>5 DEF AssignTable, EntryLocked, Convertible, Serving
    <3>6. ASSUME NEW v \in Workers
          PROVE  Converts(v)'
      <4>1. CASE v = w
        BY <3>2, <3>4, <3>5, <4>1 DEF Converts
      <4>2. CASE v # w
        BY <3>2, <3>4, <3>5, <4>2 DEF EntryInv, Converts
      <4>3. QED
        BY <4>1, <4>2
    <3>7. (\A a \in Reservations : Converted(a)') /\ ConvertedOnce'
      BY <3>5 DEF EntryInv, Converted, ConvertedOnce
    <3>8. QED
      BY <3>6, <3>7 DEF EntryInv
  <2>6. ASSUME NEW w \in Workers, CommitBooking(w)
        PROVE  EntryInv'
    <3> DEFINE r == request[w].id
               e == request[w].entry
    <3>1. /\ request[w].op = "assigned" /\ r \in Reservations
          /\ e \in Entries \cup {NoEntry} /\ Overtake(w, Idle)
      BY <2>6 DEF CommitBooking, Serving, Typed, TypeOK, Addressed, Request
    <3>2. /\ request'[w] = Idle
          /\ \A v \in Workers \ {w} :
               /\ request'[v].op = request[v].op /\ request'[v].entry = request[v].entry
               /\ request'[v].copy = request[v].copy
      BY <3>1, IdleTyped, OvertakenRequests
    <3>3. /\ origin'[r] = e /\ \A a \in Reservations \ {r} : origin'[a] = origin[a]
          /\ \A x \in Entries \ {e} : entries'[x] = entries[x]
          /\ e \in Entries => entries'[e].status = "notified"
          /\ restored' = restored
      BY <2>6, <3>1 DEF CommitBooking, Typed, TypeOK
    <3>4. e \in Entries => entries[e].status = "waiting"
      BY <3>1 DEF EntryInv, Converts
    <3>5. ASSUME NEW v \in Workers
          PROVE  Converts(v)'
      <4>1. CASE v = w
        BY <2>1, <3>2, <4>1 DEF Converts
      <4>2. CASE v # w
        BY <2>1, <3>1, <3>2, <3>3, <4>2 DEF EntryInv, Converts
      <4>3. QED
        BY <4>1, <4>2
    <3>6. \A a \in Reservations : Converted(a)'
      BY <3>3 DEF EntryInv, Converted
    <3>7. ConvertedOnce'
      <4>1. \A a \in Reservations \ {r} :
              origin[a] = e /\ e # NoEntry => e \in restored
        BY <3>1, <3>4 DEF EntryInv, Converted
      <4>2. QED
        BY <3>3, <4>1 DEF EntryInv, ConvertedOnce
    <3>8. QED
      BY <3>5, <3>6, <3>7 DEF EntryInv
  <2>7. ASSUME NEW w \in Workers, NEW e \in Entries, BeginEditEntry(w, e)
        PROVE  EntryInv'
    <3> DEFINE next == [Idle EXCEPT !.op = "edit", !.entry = e, !.copy = entries[e]]
    <3>1. next.op = "edit" /\ next.copy = entries[e] /\ entries[e].status \notin NoRow
      BY <2>7 DEF Idle, BeginEditEntry
    <3>2. request' = [request EXCEPT ![w] = next] /\ UNCHANGED <<entries, origin, restored>>
      BY <2>7 DEF BeginEditEntry
    <3> HIDE DEF next
    <3>3. request'[w] = next /\ \A v \in Workers \ {w} : request'[v] = request[v]
      BY <3>2 DEF Typed, TypeOK
    <3>4. \A v \in Workers : Converts(v)'
      BY <3>1, <3>2, <3>3 DEF EntryInv, Converts
    <3>5. (\A a \in Reservations : Converted(a)') /\ ConvertedOnce'
      BY <3>2 DEF EntryInv, Converted, ConvertedOnce
    <3>6. QED
      BY <3>4, <3>5 DEF EntryInv
  <2>8. ASSUME NEW w \in Workers, FinishEditEntry(w)
        PROVE  EntryInv'
    <3> DEFINE e == request[w].entry
               copy == request[w].copy
    <3>1. /\ request[w].op = "edit" /\ e \in Entries /\ ~EntryLocked(e)
          /\ copy.status \notin NoRow /\ Answer(w) /\ origin' = origin
      BY <2>8 DEF FinishEditEntry, Serving, Typed, Addressed, EntryInv, Converts
    <3>2. request'[w] = Idle /\ \A v \in Workers \ {w} : request'[v] = request[v]
      BY <3>1 DEF Answer, Typed, TypeOK
    <3>3. CASE UNCHANGED <<entries, restored>>
      BY <2>3, <3>1, <3>3
    <3>4. CASE /\ entries' = [entries EXCEPT ![e] = copy]
               /\ restored' = IF copy.status = "waiting" /\ entries[e].status # "waiting"
                              THEN restored \cup {e} ELSE restored
      <4>1. entries'[e] = copy /\ \A x \in Entries \ {e} : entries'[x] = entries[x]
        BY <3>1, <3>4 DEF Typed, TypeOK
      <4>2. \A v \in Workers : request[v].op = "assigned" => request[v].entry # e
        BY <3>1 DEF EntryLocked, Serving
      <4>3. ASSUME NEW v \in Workers
            PROVE  Converts(v)'
        <5>1. CASE v = w
          BY <2>1, <3>2, <5>1 DEF Converts
        <5>2. CASE v # w
          BY <2>1, <3>2, <4>1, <4>2, <5>2 DEF EntryInv, Converts
        <5>3. QED
          BY <5>1, <5>2
      <4>4. restored \subseteq restored'
        BY <3>4
      <4>5. ASSUME NEW a \in Reservations
            PROVE  Converted(a)'
        <5>1. Converted(a)
          BY DEF EntryInv
        <5>2. QED
          BY <3>1, <3>4, <4>1, <4>4, <5>1 DEF Converted, NoRow
      <4>6. ConvertedOnce'
        BY <3>1, <4>4 DEF EntryInv, ConvertedOnce
      <4>7. QED
        BY <4>3, <4>5, <4>6 DEF EntryInv
    <3>5. QED
      BY <2>8, <3>3, <3>4 DEF FinishEditEntry
  <2>9. ASSUME NEW e \in Entries, JoinWaitlist(e) \/ DestroyEntry(e)
        PROVE  EntryInv'
    <3>1. /\ \A x \in Entries \ {e} : entries'[x] = entries[x]
          /\ UNCHANGED <<request, origin, restored>>
          /\ \A v \in Workers : request[v].op = "assigned" => request[v].entry # e
      BY <2>9 DEF JoinWaitlist, DestroyEntry, EntryLocked, Serving, EntryInv, Converts,
                  Typed, TypeOK
    <3>2. entries[e].status # "none" => entries'[e].status = "deleted"
      BY <2>9 DEF JoinWaitlist, DestroyEntry, AbsentEntry, Typed, TypeOK
    <3>3. \A v \in Workers : Converts(v)'
      BY <3>1 DEF EntryInv, Converts
    <3>4. ASSUME NEW a \in Reservations
          PROVE  Converted(a)'
      <4>1. Converted(a)
        BY DEF EntryInv
      <4>2. QED
        BY <3>1, <3>2, <4>1 DEF Converted
    <3>5. ConvertedOnce'
      BY <3>1 DEF EntryInv, ConvertedOnce
    <3>6. QED
      BY <3>3, <3>4, <3>5 DEF EntryInv
  <2>10. ASSUME request' = [w \in Workers |-> [request[w] EXCEPT !.fresh = FALSE]],
                \A e \in Entries : entries'[e].status = entries[e].status,
                UNCHANGED <<origin, restored>>
         PROVE  EntryInv'
    <3>1. \A v \in Workers :
            /\ request'[v].op = request[v].op /\ request'[v].entry = request[v].entry
            /\ request'[v].copy = request[v].copy
      BY <2>10, AllOvertaken
    <3>2. ASSUME NEW v \in Workers
          PROVE  Converts(v)'
      <4>1. Converts(v)
        BY DEF EntryInv
      <4>2. QED
        BY <2>10, <3>1, <4>1 DEF Converts
    <3>3. (\A a \in Reservations : Converted(a)') /\ ConvertedOnce'
      BY <2>10 DEF EntryInv, Converted, ConvertedOnce
    <3>4. QED
      BY <3>2, <3>3 DEF EntryInv
  <2>11. ASSUME NEW r \in Reservations, DestroyReservation(r)
         PROVE  EntryInv'
    BY <2>10, <2>11 DEF DestroyReservation, Typed, TypeOK, Entry
  <2>12. ASSUME NEW t \in Tables, DestroyTable(t)
         PROVE  EntryInv'
    BY <2>10, <2>12 DEF DestroyTable
  <2>13. ASSUME UNCHANGED <<entries, origin, restored, request>>
         PROVE  EntryInv'
    BY <2>13 DEF EntryInv, Converts, Converted, ConvertedOnce
  <2>14. ASSUME NEW w \in Workers, Booking(w)
         PROVE  EntryInv'
    BY <2>5, <2>6, <2>14 DEF Booking, Book, ConvertEntry
  <2>15. ASSUME NEW w \in Workers, NEW r \in Reservations
         PROVE  /\ \A t \in Tables \cup {NoTable}, start \in Times :
                     /\ \A duration \in Durations :
                          BeginCreate(w, r, t, start, duration) => EntryInv'
                     /\ BeginUpdate(w, r, t, start) => EntryInv'
                /\ \A to \in FinalStatuses \cup {"seated"} :
                     BeginTransition(w, r, to) => EntryInv'
    <3>1. ASSUME NEW t \in Tables \cup {NoTable}, NEW start \in Times, NEW duration \in Durations,
                 BeginCreate(w, r, t, start, duration)
          PROVE  EntryInv'
      <4>1. NewRow("pending", t, start, duration) \in Row
        BY DEF NewRow, Row, ActiveStatuses
      <4>2. QED
        BY <2>4, <3>1, <4>1 DEF BeginCreate
    <3>2. ASSUME NEW t \in Tables \cup {NoTable}, NEW start \in Times, BeginUpdate(w, r, t, start)
          PROVE  EntryInv'
      <4>1. rows[r] \in Row
        BY DEF Typed, TypeOK
      <4>2. [rows[r] EXCEPT !.table = t, !.start = start] \in Row
        BY <4>1 DEF Row
      <4>3. QED
        BY <2>4, <3>2, <4>2 DEF BeginUpdate
    <3>3. ASSUME NEW to \in FinalStatuses \cup {"seated"}, BeginTransition(w, r, to)
          PROVE  EntryInv'
      <4>1. [Absent("none") EXCEPT !.status = to] \in Row
        BY IdleTyped DEF Row, ActiveStatuses
      <4>2. QED
        BY <2>4, <3>3, <4>1 DEF BeginTransition
    <3>4. QED
      BY <3>1, <3>2, <3>3
  <2>16. ASSUME NEW w \in Workers, NEW row, FinishWrite(w, row) \/ WriteFails(w, row)
         PROVE  EntryInv'
    BY <2>2, <2>3, <2>16 DEF FinishWrite, WriteFails
  <2>17. ASSUME NEW w \in Workers, FinishTransition(w)
         PROVE  EntryInv'
    BY <2>2, <2>3, <2>17 DEF FinishTransition
  <2>18. ASSUME NEW w \in Workers, Staff(w)
         PROVE  EntryInv'
    BY <2>7, <2>8, <2>15, <2>16, <2>17, <2>18 DEF Staff
  <2>19. QED
    BY <2>9, <2>11, <2>12, <2>13, <2>14, <2>18 DEF Next, EditTable, vars
<1>3. EntryInv => ConvertedOnce
  BY DEF EntryInv
<1>4. QED
  BY <1>1, <1>2, <1>3, TypeCorrect, PTL DEF Spec

(***************************************************************************)
(* What a guest is offered.                                                *)
(***************************************************************************)

\* A moment of a day belongs to its date.
LEMMA MomentOfDay ==
    ASSUME NEW length \in Nat \ {0}, NEW date \in Int, NEW s \in Int,
           date * length <= s, s < date * length + length
    PROVE  s \div length = date
OBVIOUS

\* Dates are numbers.
LEMMA DatesAreNumbers ==
    ASSUME NEW date \in Dates
    PROVE  date \in Int /\ DayLength \in Nat \ {0} /\ date * DayLength \in Int
<1>1. DayLength \in Nat \ {0}
  BY SettingAssumption
<1>2. PICK t \in Times : date = t \div DayLength
  BY DEF Dates, Date
<1>3. date \in Int
  BY <1>1, <1>2
<1>4. QED
  BY <1>1, <1>3

\* Every start time of the grid lies in the opening hours of its date, and so
\* does the end of a reservation that begins then.
LEMMA GridTimes ==
    ASSUME NEW setting \in SettingChoices, NEW date \in Dates,
           NEW hours \in OpeningHours, NEW duration \in Durations,
           NEW s \in Grid(setting, date, hours, duration)
    PROVE  /\ s \in Int /\ Date(s) = date
           /\ date * DayLength + hours.open <= s
           /\ s + duration <= date * DayLength + hours.close
<1> DEFINE day == date * DayLength
<1>1. /\ date \in Int /\ DayLength \in Nat \ {0} /\ day \in Int
      /\ duration \in Nat \ {0}
  BY DatesAreNumbers
<1>2. hours.open \in Nat /\ hours.close \in Nat /\ hours.close <= DayLength
  BY HoursAssumption
<1>3. /\ s \in (day + hours.open)..(day + hours.close)
      /\ s + duration <= day + hours.close
  BY DEF Grid
<1> HIDE DEF day
<1>4. /\ s \in Int /\ day + hours.open <= s
      /\ day <= s /\ s < day + DayLength
  BY <1>1, <1>2, <1>3
<1>5. Date(s) = date
  BY <1>1, <1>4, MomentOfDay DEF Date, day
<1>6. QED
  BY <1>3, <1>4, <1>5 DEF day

\* Whatever conflicts with a slot of the grid is among the rows that the query
\* for the whole day fetches.
LEMMA FetchedSuffices ==
    ASSUME TypeOK, NEW setting \in SettingChoices, NEW date \in Dates,
           NEW hours \in OpeningHours, NEW party \in Parties,
           NEW duration \in Durations,
           NEW s \in Grid(setting, date, hours, duration), NEW t \in Candidates(party)
    PROVE  (\E row \in Fetched(setting, date, hours, party) :
              /\ row.table = t
              /\ Near(row, [start |-> s, end |-> s + duration], setting.buffer))
           <=> Taken(t, NewRow("confirmed", NoTable, s, duration), setting.buffer)
<1> DEFINE slot == [start |-> s, end |-> s + duration]
           whole == [start |-> date * DayLength + hours.open,
                     end |-> date * DayLength + hours.close]
           new == NewRow("confirmed", NoTable, s, duration)
<1>1. /\ s \in Int /\ duration \in Nat /\ setting.buffer \in Nat
      /\ date * DayLength \in Int /\ hours.open \in Nat /\ hours.close \in Nat
      /\ whole.start \in Int /\ whole.end \in Int
      /\ whole.start <= s /\ s + duration <= whole.end
  BY GridTimes, DatesAreNumbers, HoursAssumption, SettingAssumption DEF Setting
<1>2. new.start = s /\ new.end = s + duration /\ slot.start = s /\ slot.end = s + duration
  BY DEF NewRow
<1>3. ASSUME NEW q \in Reservations
      PROVE  /\ Near(rows[q], slot, setting.buffer) <=> Near(rows[q], new, setting.buffer)
             /\ Near(rows[q], slot, setting.buffer) => Near(rows[q], whole, setting.buffer)
  <2>1. rows[q].start \in Nat /\ rows[q].end \in Nat
    BY DEF TypeOK, Row
  <2> HIDE DEF slot, whole, new
  <2>2. QED
    BY <1>1, <1>2, <2>1 DEF Near
<1>4. Fetched(setting, date, hours, party) =
        {rows[q] : q \in {r \in Reservations :
           /\ Holds(r) /\ rows[r].table \in Candidates(party)
           /\ Near(rows[r], whole, setting.buffer)}}
  BY DEF Fetched
<1> HIDE DEF slot, whole, new
<1>5. (\E row \in Fetched(setting, date, hours, party) :
         row.table = t /\ Near(row, slot, setting.buffer))
      <=> Taken(t, new, setting.buffer)
  BY <1>3, <1>4 DEF Taken
<1>6. QED
  BY <1>5 DEF slot, new

\* In every reachable state the times offered to a party are exactly the times
\* of the grid at which booking would accept it: the query for the whole day
\* loses no conflict, and both read the same policy.
THEOREM OfferIsBookable == Spec => []OfferedIsBookable
<1>1. Typed => OfferedIsBookable
  <2> SUFFICES ASSUME TypeOK, NEW setting \in SettingChoices,
                      NEW blackouts \in SUBSET Dates, NEW date \in Dates,
                      NEW hours \in OpeningHours, NEW party \in Parties,
                      NEW duration \in Durations, NEW now \in Times,
                      party <= setting.maxParty
               PROVE  AvailableSlots(setting, blackouts, date, hours, party, duration, now) =
                        {s \in Grid(setting, date, hours, duration) :
                           /\ PolicyAllows(setting, blackouts, party, s, now)
                           /\ FreeTables(party, NewRow("confirmed", NoTable, s, duration),
                                         setting.buffer) # {}}
    BY DEF Typed, OfferedIsBookable
  <2> DEFINE Conflict(t, s) ==
               \E row \in Fetched(setting, date, hours, party) :
                 /\ row.table = t
                 /\ Near(row, [start |-> s, end |-> s + duration], setting.buffer)
             InTime(s) == now + setting.minAdvance <= s /\ s <= now + setting.maxAdvance
             new(s) == NewRow("confirmed", NoTable, s, duration)
  <2>1. ASSUME NEW s \in Grid(setting, date, hours, duration)
        PROVE  (\E t \in Candidates(party) : ~Conflict(t, s))
               <=> FreeTables(party, new(s), setting.buffer) # {}
    <3>1. \A t \in Candidates(party) : Conflict(t, s) <=> Taken(t, new(s), setting.buffer)
      BY FetchedSuffices
    <3> HIDE DEF Conflict, new
    <3>2. QED
      BY <3>1 DEF FreeTables
  <2>2. ASSUME NEW s \in Grid(setting, date, hours, duration)
        PROVE  PolicyAllows(setting, blackouts, party, s, now)
               <=> InTime(s) /\ date \notin blackouts
    <3>1. Date(s) = date /\ s \in Int
      BY GridTimes
    <3>2. now \in Nat /\ setting.minAdvance \in Nat /\ setting.maxAdvance \in Nat
      BY SettingAssumption DEF Setting
    <3>3. QED
      BY <3>1, <3>2 DEF PolicyAllows
  <2>3. AvailableSlots(setting, blackouts, date, hours, party, duration, now) =
          IF date \in blackouts THEN {}
          ELSE {s \in Grid(setting, date, hours, duration) :
                  InTime(s) /\ \E t \in Candidates(party) : ~Conflict(t, s)}
    BY DEF AvailableSlots
  <2> HIDE DEF Conflict, InTime, new
  <2>4. AvailableSlots(setting, blackouts, date, hours, party, duration, now) =
          {s \in Grid(setting, date, hours, duration) :
             /\ PolicyAllows(setting, blackouts, party, s, now)
             /\ FreeTables(party, new(s), setting.buffer) # {}}
    BY <2>1, <2>2, <2>3
  <2>5. QED
    BY <2>4 DEF new
<1>2. QED
  BY <1>1, TypeCorrect, PTL
=============================================================================
