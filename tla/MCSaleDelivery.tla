--------------------------- MODULE MCSaleDelivery ---------------------------
(***************************************************************************)
(* An instance of SaleDelivery for TLC.  No symmetry: the run checks        *)
(* liveness, and Enqueue takes the copies in a fixed order.                *)
(***************************************************************************)
EXTENDS SaleDelivery, TLC
=============================================================================
