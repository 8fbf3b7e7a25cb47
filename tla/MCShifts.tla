------------------------------ MODULE MCShifts ------------------------------
(* Instances of Shifts for TLC. *)
EXTENDS Shifts, TLC

\* Members, workers and request keys are interchangeable.
Symmetry == Permutations(Members) \cup Permutations(Workers) \cup Permutations(Swaps)

\* No action and no invariant looks at a decided request, at the history of
\* one, or at the `fresh` of anything but a swap about to be created.
Over(row) == row.status \notin {"none", "pending"}
View ==
    <<holder,
      [x \in Swaps |-> IF Over(swaps[x]) THEN [NoSwap EXCEPT !.shift = swaps[x].shift,
                                                             !.status = "over"] ELSE swaps[x]],
      [l \in Leaves |-> IF Over(leaves[l]) THEN "over" ELSE leaves[l]],
      [w \in Workers |-> [request[w] EXCEPT !.fresh = @ /\ Serving(w, "swap")]],
      {x \in disturbed : Pending(x)},
      {x \in Swaps \cap late : Pending(x)}, {l \in Leaves \cap late : ~Over(leaves[l])},
      memberVars>>
=============================================================================
