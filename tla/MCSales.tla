------------------------------ MODULE MCSales ------------------------------
(***************************************************************************)
(* An instance of Sales for TLC.                                           *)
(***************************************************************************)
EXTENDS Sales, TLC

Interchangeable == Permutations(Tenants) \cup Permutations(AttendantIds)
                   \cup Permutations(ProductIds) \cup Permutations(SaleIds)
                   \cup Permutations(Requests)
=============================================================================
