---------------------------- MODULE MCGiftCards ----------------------------
(* Instances of GiftCards for TLC. *)
EXTENDS GiftCards, TLC

\* Workers are interchangeable.
Symmetry == Permutations(Workers)
=============================================================================
