----------------------------- MODULE Membership -----------------------------
(***************************************************************************)
(* The memberships of one business (core/models.py, core/permissions.py)   *)
(* and their deactivation (employees/signals.py).  Saving a membership as  *)
(* inactive commits before the post_save handler resolves what it leaves   *)
(* dangling (a script or a shell saves without a transaction around it):   *)
(* two steps, with requests in between, and a crash in between loses the   *)
(* second one for good, because no later save is a True -> False           *)
(* transition.                                                             *)
(***************************************************************************)
EXTENDS Integers

CONSTANTS
    Members,  \* BusinessMembership keys
    Nobody    \* no membership

ASSUME MemberAssumption == Nobody \notin Members

VARIABLES
    active,     \* BusinessMembership.is_active
    cascading,  \* members saved as inactive whose handler has not run
    abandoned   \* history: inactive members whose handler was lost in a crash

memberVars == <<active, cascading, abandoned>>

MembershipTypeOK ==
    /\ active \in [Members -> BOOLEAN]
    /\ cascading \subseteq Members
    /\ abandoned \subseteq Members

MembershipInit ==
    /\ active = [m \in Members |-> TRUE]
    /\ cascading = {}
    /\ abandoned = {}

\* HasBusinessRole lets a request in; the services do not look again.
Admissible(m) == active[m]

\* The handler has had its turn since m was deactivated.
Settled(m) == ~active[m] /\ m \notin cascading \cup abandoned

\* Bound: a member is not deactivated again while a handler is still to run.
SaveInactive(m) ==
    /\ active[m] /\ m \notin cascading
    /\ active' = [active EXCEPT ![m] = FALSE]
    /\ cascading' = cascading \cup {m}
    /\ UNCHANGED abandoned

SaveActive(m) ==
    /\ ~active[m]
    /\ active' = [active EXCEPT ![m] = TRUE]
    /\ abandoned' = abandoned \ {m}
    /\ UNCHANGED cascading

HandlerRuns(m) ==
    /\ m \in cascading
    /\ cascading' = cascading \ {m}
    /\ UNCHANGED <<active, abandoned>>

HandlerLost(m) ==
    /\ m \in cascading
    /\ cascading' = cascading \ {m}
    /\ abandoned' = IF active[m] THEN abandoned ELSE abandoned \cup {m}
    /\ UNCHANGED active
==============================================================================
