--------------------------- MODULE MCReservations ---------------------------
(* Instances of Reservations for TLC. *)
EXTENDS Availability, TLC

\* Days of one unit, so that a reservation may last past midnight.
MCHours == {[open |-> 0, close |-> 1]}
MCSettings == {[buffer |-> 0, interval |-> 1, minAdvance |-> 0, maxAdvance |-> 2, maxParty |-> 1],
               [buffer |-> 1, interval |-> 1, minAdvance |-> 1, maxAdvance |-> 1, maxParty |-> 2]}

\* Workers and reservations are interchangeable.
Symmetry == Permutations(Workers) \cup Permutations(Reservations)

\* No check of the code tells pending from confirmed, nor one final status
\* from another, and each final status is reached from what is reached by
\* cancelling: states that differ only in these have the same futures.
Class(status) ==
    IF status \in FinalStatuses THEN "over"
    ELSE IF status \in {"pending", "confirmed"} THEN "booked" ELSE status
Blurred(row) == [row EXCEPT !.status = Class(@)]
View ==
    <<capacity, [r \in Reservations |-> Blurred(rows[r])], entries,
      [w \in Workers |-> [request[w] EXCEPT !.row = Blurred(@)]], origin, raced, restored>>

\* Bound: once a waitlist entry exists, all reservations start at 0; without
\* one they start at all Times.
WaitlistAtZero ==
    (\E e \in Entries : entries[e].status # "none") =>
      /\ \A r \in Reservations : rows[r].start = 0
      /\ \A w \in Workers : request[w].row.start = 0
=============================================================================
