----------------------------- MODULE MCDailyClose -----------------------------
(***************************************************************************)
(* Instances of DailyClose for TLC.                                         *)
(***************************************************************************)
EXTENDS DailyClose, TLC

CONSTANTS a1, a2, s1, s2

(* One attendant makes every sale. *)
OneSeller == [s \in Sales |-> a1]

(* Each has a sale of their own: the ledger of a day has two rows. *)
TwoSellers == (s1 :> a1) @@ (s2 :> a2)

(* KES 120 at 3.33% is 399.6 cents: rounded up, it would pay a shilling    *)
(* more.                                                                   *)
Totals == [s \in Sales |-> 12000]

Interchangeable == Permutations(Sales) \cup Permutations(Workers)
=============================================================================
