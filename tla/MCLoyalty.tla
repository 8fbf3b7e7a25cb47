----------------------------- MODULE MCLoyalty -----------------------------
(* Instances of Loyalty for TLC. *)
EXTENDS Loyalty, TLC

Low == [silver |-> 1, gold |-> 2, platinum |-> 3]
High == [silver |-> 2, gold |-> 3, platinum |-> 4]

TwoSettings == {Low, High}
=============================================================================
