------------------------------ MODULE MCPayouts ------------------------------
(***************************************************************************)
(* Instances of Payouts for TLC.                                           *)
(***************************************************************************)
EXTENDS Payouts, TLC

Interchangeable == Permutations(Attendants) \cup Permutations(PayoutIds)
                   \cup Permutations(Workers) \cup Permutations(Drills)
                   \cup Permutations(Triggers) \cup Permutations(Handlers)
=============================================================================
