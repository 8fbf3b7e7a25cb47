---------------------------- MODULE MCInvoicing ----------------------------
(* Instances of Invoicing for TLC.  No symmetry: liveness is checked too. *)
EXTENDS Invoicing, TLC
=============================================================================
