--------------------------- MODULE MCSubscription ---------------------------
(* Instances of Subscription for TLC.  No symmetry: liveness is checked too. *)
EXTENDS Subscription, TLC
=============================================================================
