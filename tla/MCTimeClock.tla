---------------------------- MODULE MCTimeClock ----------------------------
(* Instances of TimeClock for TLC. *)
EXTENDS TimeClock, TLC

Fence(enabled, places) == [enabled |-> enabled, places |-> places]
\* No fence applies; the location's and the business-wide one differ.
MCFences == {[location |-> Fence(FALSE, {}), business |-> Fence(FALSE, {})],
             [location |-> Fence(TRUE, {"door"}), business |-> Fence(TRUE, {"yard"})]}
MCPeriods == {[from |-> 0, to |-> 3]}

Symmetry == Permutations(ClockWorkers) \cup Permutations(Entries)

\* No action and no property looks at the record of a refused attempt, nor at
\* whether a closed entry was opened lateEntries.
View == <<now, active, entries, {log \in logs : log.passed}, stubs, admitted, cascading,
          abandoned, {i \in lateEntries : entries[i].status = "clocked_in"}>>
=============================================================================
