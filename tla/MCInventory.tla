---------------------------- MODULE MCInventory ----------------------------
(* Instances of Inventory for TLC. *)
EXTENDS Inventory, TLC

ChangesByOneOrTwo == {-2, -1, 1}
=============================================================================
