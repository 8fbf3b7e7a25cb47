------------------------------- MODULE MCBills -------------------------------
(* Instances of Bills for TLC.  No symmetry: liveness is checked too. *)
EXTENDS Bills, TLC
==============================================================================
