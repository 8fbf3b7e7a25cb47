------------------------------- MODULE Shifts -------------------------------
(***************************************************************************)
(* Who works a shift: shift swaps, time off, and what a manager's edits    *)
(* and a member's deactivation do to them (employees/services.py,          *)
(* employees/views.py).  When a shift is, is in Recurring.                 *)
(*                                                                         *)
(* Deciding a request locks its row and reads it again: one step.  Asking  *)
(* for a swap checks and then creates without a lock, and a manager's edit *)
(* of a shift writes back every column it read: two steps each.            *)
(***************************************************************************)
EXTENDS Membership

CONSTANTS
    Shifts,   \* EmployeeShift keys
    NoShift,  \* a request about no shift
    Gone,     \* in place of the holder of a deleted shift
    Swaps,    \* ShiftSwapRequest keys
    Leaves,   \* TimeOffRequest keys
    Workers   \* web workers

ASSUME NullAssumption == NoShift \notin Shifts /\ Gone \notin Members \cup {Nobody}

\* Rows of different tables are different things.
ASSUME KeysAssumption == Swaps \cap Leaves = {}

VARIABLES
    holder,    \* EmployeeShift.membership; Nobody while there is none yet
    swaps,     \* the ShiftSwapRequest rows
    leaves,    \* the TimeOffRequest rows
    request,   \* what each worker has read and checked and is about to write
    disturbed, \* history: swaps raced when created, or whose shift a manager's
               \* edit or a disturbed swap has since given away
    late       \* history: swaps and leaves of or for somebody inactive by then

vars == <<holder, swaps, leaves, request, disturbed, late, memberVars>>

Statuses == {"none", "pending", "approved", "rejected", "cancelled"}
Swap == [status : Statuses, shift : Shifts \cup {NoShift},
         requester : Members \cup {Nobody}, target : Members \cup {Nobody}]
NoSwap == [status |-> "none", shift |-> NoShift, requester |-> Nobody, target |-> Nobody]
Leave == [status : Statuses, member : Members \cup {Nobody}]
NoLeave == [status |-> "none", member |-> Nobody]

\* `member` is who asks, or whom an edit gives the shift to; `fresh` is history:
\* no holder or swap of the shift has changed since the check.
Request == [op : {"idle", "swap", "leave", "edit"}, shift : Shifts \cup {NoShift},
            member : Members \cup {Nobody}, target : Members \cup {Nobody},
            fresh : BOOLEAN]
Idle == [op |-> "idle", shift |-> NoShift, member |-> Nobody, target |-> Nobody,
         fresh |-> FALSE]
Asked(op, h, m, target) ==
    [op |-> op, shift |-> h, member |-> m, target |-> target, fresh |-> TRUE]

TypeOK ==
    /\ MembershipTypeOK
    /\ holder \in [Shifts -> Members \cup {Nobody, Gone}]
    /\ swaps \in [Swaps -> Swap]
    /\ leaves \in [Leaves -> Leave]
    /\ request \in [Workers -> Request]
    /\ disturbed \subseteq Swaps
    /\ late \subseteq Swaps \cup Leaves

Init ==
    /\ MembershipInit
    /\ holder = [h \in Shifts |-> Nobody]
    /\ swaps = [x \in Swaps |-> NoSwap]
    /\ leaves = [l \in Leaves |-> NoLeave]
    /\ request = [w \in Workers |-> Idle]
    /\ disturbed = {}
    /\ late = {}

Exists(h) == holder[h] \in Members
Pending(x) == swaps[x].status = "pending"
PendingFor(h) == {x \in Swaps : Pending(x) /\ swaps[x].shift = h}
Inactive(M) == \E m \in M : m # Nobody /\ ~active[m]

Begin(w, asked) ==
    /\ request[w] = Idle
    /\ request' = [request EXCEPT ![w] = asked]
    /\ UNCHANGED <<holder, swaps, leaves, disturbed, late, memberVars>>
Serving(w, op) == request[w].op = op

\* Worker w (or nobody, when w is not one) answers; what others have checked
\* about shift h is now out of date.
Answer(w, h) ==
    request' = [v \in Workers |->
                  IF v = w THEN Idle
                  ELSE [request[v] EXCEPT !.fresh = @ /\ request[v].shift # h]]

(***************************************************************************)
(* Managers and the shifts.                                                *)
(***************************************************************************)

\* Nothing asks whether the member is active.
CreateShift(h, m) ==
    /\ holder[h] = Nobody
    /\ holder' = [holder EXCEPT ![h] = m]
    /\ Answer(Nobody, h)
    /\ UNCHANGED <<swaps, leaves, disturbed, late, memberVars>>

\* A PUT or PATCH; without a new member it writes back the one it has read.
BeginEditShift(w, h, m) ==
    /\ Exists(h)
    /\ Begin(w, Asked("edit", h, m, Nobody))

\* save() inserts the row again when it is gone.
FinishEditShift(w) ==
    LET h == request[w].shift
        m == request[w].member
    IN /\ Serving(w, "edit")
       /\ holder' = [holder EXCEPT ![h] = m]
       /\ disturbed' = IF holder[h] = m THEN disturbed ELSE disturbed \cup PendingFor(h)
       /\ Answer(w, h)
       /\ UNCHANGED <<swaps, leaves, late, memberVars>>

\* The swap requests of a shift go with it.
DestroyShift(h) ==
    LET gone == {x \in Swaps : swaps[x].shift = h}
    IN /\ Exists(h)
       /\ holder' = [holder EXCEPT ![h] = Gone]
       /\ swaps' = [x \in Swaps |-> IF x \in gone THEN NoSwap ELSE swaps[x]]
       /\ disturbed' = disturbed \ gone
       /\ late' = late \ gone
       /\ Answer(Nobody, h)
       /\ UNCHANGED <<leaves, memberVars>>

(***************************************************************************)
(* Shift swaps.                                                            *)
(***************************************************************************)

MayRequestSwapTwice(m, h) == holder[h] = m \* faulty variant: no look at the pending
MayRequestSwap(m, h) == holder[h] = m /\ PendingFor(h) = {}

\* The target is any member of the business, or open.
BeginRequestSwap(w, m, h, target) ==
    /\ Admissible(m)
    /\ MayRequestSwap(m, h)
    /\ Begin(w, Asked("swap", h, m, target))

\* The insert fails when the shift is gone by now.
FinishRequestSwap(w, x) ==
    LET r == request[w]
    IN /\ Serving(w, "swap")
       /\ Exists(r.shift)
       /\ swaps[x] = NoSwap
       /\ swaps' = [swaps EXCEPT ![x] = [status |-> "pending", shift |-> r.shift,
                                         requester |-> r.member, target |-> r.target]]
       /\ disturbed' = IF r.fresh THEN disturbed ELSE disturbed \cup {x}
       /\ late' = IF Inactive({r.member, r.target}) THEN late \cup {x} ELSE late
       /\ Answer(w, r.shift)
       /\ UNCHANGED <<holder, leaves, memberVars>>

Refuse(w) ==
    /\ request[w] # Idle
    /\ Answer(w, NoShift)
    /\ UNCHANGED <<holder, swaps, leaves, disturbed, late, memberVars>>

FinalTarget(x, chosen) == IF chosen # Nobody THEN chosen ELSE swaps[x].target

\* Nothing asks whether the shift is still the requester's.
ApproveShiftSwap(x, chosen) ==
    LET h == swaps[x].shift
        target == FinalTarget(x, chosen)
    IN /\ Pending(x)
       /\ target # Nobody
       /\ holder' = [holder EXCEPT ![h] = target]
       /\ swaps' = [swaps EXCEPT
             ![x] = [@ EXCEPT !.status = "approved", !.target = target]]
       /\ disturbed' = IF x \in disturbed THEN disturbed \cup PendingFor(h) ELSE disturbed
       /\ Answer(Nobody, h)
       /\ UNCHANGED <<leaves, late, memberVars>>

RejectShiftSwap(x) ==
    /\ Pending(x)
    /\ swaps' = [swaps EXCEPT ![x].status = "rejected"]
    /\ Answer(Nobody, swaps[x].shift)
    /\ UNCHANGED <<holder, leaves, disturbed, late, memberVars>>

(***************************************************************************)
(* Time off.                                                               *)
(***************************************************************************)

BeginTimeOff(w, m) ==
    /\ Admissible(m)
    /\ Begin(w, Asked("leave", NoShift, m, Nobody))

FinishTimeOff(w, l) ==
    LET m == request[w].member
    IN /\ Serving(w, "leave")
       /\ leaves[l] = NoLeave
       /\ leaves' = [leaves EXCEPT ![l] = [status |-> "pending", member |-> m]]
       /\ late' = IF Inactive({m}) THEN late \cup {l} ELSE late
       /\ Answer(w, NoShift)
       /\ UNCHANGED <<holder, swaps, disturbed, memberVars>>

\* approve_time_off and reject_time_off
DecideTimeOff(l, status) ==
    /\ leaves[l].status = "pending"
    /\ leaves' = [leaves EXCEPT ![l].status = status]
    /\ UNCHANGED <<holder, swaps, request, disturbed, late, memberVars>>

(***************************************************************************)
(* Deactivation.                                                           *)
(***************************************************************************)

MootForRequester(x, m) == \* faulty variant: swaps with m as the target stay
    Pending(x) /\ m = swaps[x].requester
Moot(x, m) == Pending(x) /\ m \in {swaps[x].requester, swaps[x].target}

HandleMembershipDeactivation(m) ==
    /\ HandlerRuns(m)
    /\ swaps' = [x \in Swaps |->
                   IF Moot(x, m) THEN [swaps[x] EXCEPT !.status = "cancelled"] ELSE swaps[x]]
    /\ leaves' = [l \in Leaves |->
                    IF leaves[l] = [status |-> "pending", member |-> m]
                    THEN [leaves[l] EXCEPT !.status = "cancelled"] ELSE leaves[l]]
    /\ UNCHANGED <<holder, request, disturbed, late>>

Deactivate(m) ==
    /\ SaveInactive(m)
    /\ UNCHANGED <<holder, swaps, leaves, request, disturbed, late>>
Reactivate(m) ==
    /\ SaveActive(m)
    /\ UNCHANGED <<holder, swaps, leaves, request, disturbed, late>>
CrashBeforeHandler(m) ==
    /\ HandlerLost(m)
    /\ UNCHANGED <<holder, swaps, leaves, request, disturbed, late>>

(***************************************************************************)
(* The system.                                                             *)
(***************************************************************************)

Serve(w) ==
    \/ FinishEditShift(w) \/ Refuse(w)
    \/ \E x \in Swaps : FinishRequestSwap(w, x)
    \/ \E l \in Leaves : FinishTimeOff(w, l)
    \/ \E m \in Members :
         \/ BeginTimeOff(w, m)
         \/ \E h \in Shifts : \/ \E chosen \in {m, holder[h]} : BeginEditShift(w, h, chosen)
                              \/ \E target \in Members \cup {Nobody} :
                                   BeginRequestSwap(w, m, h, target)

Decide ==
    \/ \E x \in Swaps : \/ RejectShiftSwap(x)
                        \/ \E m \in Members \cup {Nobody} : ApproveShiftSwap(x, m)
    \/ \E l \in Leaves : DecideTimeOff(l, "approved") \/ DecideTimeOff(l, "rejected")

Next ==
    \/ \E w \in Workers : Serve(w)
    \/ Decide
    \/ \E h \in Shifts : DestroyShift(h) \/ \E m \in Members : CreateShift(h, m)
    \/ \E m \in Members :
         \/ Deactivate(m) \/ Reactivate(m)
         \/ HandleMembershipDeactivation(m) \/ CrashBeforeHandler(m)

Spec == Init /\ [][Next]_vars

(***************************************************************************)
(* Properties.                                                             *)
(***************************************************************************)

\* A pending swap gives away a shift its requester still has, and no other
\* request is pending for it, unless the request raced another one when it was
\* created, or a manager's edit or such a raced request has reassigned the
\* shift since (approve_shift_swap does not look again).
SwapTakesFromRequester ==
    \A x \in Swaps : Pending(x) /\ x \notin disturbed =>
      /\ holder[swaps[x].shift] = swaps[x].requester
      /\ PendingFor(swaps[x].shift) \ disturbed = {x}

\* Nothing is left to decide that names somebody whose deactivation has been
\* handled, unless it was asked for when they were inactive already (a request
\* let in before, or a swap with somebody who had left).
DeactivatedHasNothingPending ==
    \A m \in Members : Settled(m) =>
      /\ \A x \in Swaps :
           Pending(x) /\ m \in {swaps[x].requester, swaps[x].target} => x \in late
      /\ \A l \in Leaves : leaves[l] = [status |-> "pending", member |-> m] => l \in late

\* The docstring of approve_shift_swap: a target chosen on approval must match
\* the one the request already has.
TargetMustMatch ==
    [][\A x \in Swaps : swaps[x].target # Nobody /\ swaps'[x].status = "approved"
                        => swaps'[x].target = swaps[x].target]_vars
==============================================================================
