------------------------------ MODULE MCCharges ------------------------------
(***************************************************************************)
(* Instances of Charges for TLC.                                           *)
(***************************************************************************)
EXTENDS Charges, TLC

(* Two sales of one customer for one amount: adoption cannot tell them     *)
(* apart.                                                                  *)
SameCustomer == [s \in Sales |-> "customer"]

(* Every sale has a customer or an amount of its own. *)
OwnCustomer == [s \in Sales |-> s]

Interchangeable == Permutations(ChargeIds) \cup Permutations(Sales)
                   \cup Permutations(Requests) \cup Permutations(Deliveries)
                   \cup Permutations(TimerPasses)
=============================================================================
