----------------------------- MODULE ChargeLedger -----------------------------
(***************************************************************************)
(* What the Payments service promises POS about a sale, whatever happens   *)
(* between it and Daraja: the sale is opened for payment, settled or failed*)
(* once and for good, and settling it produces one ledger effect of its    *)
(* own, in the same instant.  An open sale may be abandoned, and opened    *)
(* again.                                                                  *)
(***************************************************************************)
CONSTANTS
    Sales,
    ChargeIds   \* what names a ledger effect

VARIABLES
    state,      \* state[s]: how far the payment of sale s has come
    credit      \* credit[s]: the ledger effects produced for sale s

vars == <<state, credit>>

States == {"none", "open", "paid", "failed"}

TypeOK ==
    /\ state \in [Sales -> States]
    /\ credit \in [Sales -> SUBSET ChargeIds]

Init ==
    /\ state = [s \in Sales |-> "none"]
    /\ credit = [s \in Sales |-> {}]

Open(s) ==
    /\ state[s] = "none"
    /\ state' = [state EXCEPT ![s] = "open"]
    /\ UNCHANGED credit

Settle(s) ==
    /\ state[s] = "open"
    /\ state' = [state EXCEPT ![s] = "paid"]
    /\ \E c \in ChargeIds :
          /\ \A t \in Sales : c \notin credit[t]
          /\ credit' = [credit EXCEPT ![s] = {c}]

Fail(s) ==
    /\ state[s] = "open"
    /\ state' = [state EXCEPT ![s] = "failed"]
    /\ UNCHANGED credit

(* An operator gives up on several open sales at once. *)
Abandon(S) ==
    /\ \A s \in S : state[s] = "open"
    /\ state' = [s \in Sales |-> IF s \in S THEN "none" ELSE state[s]]
    /\ UNCHANGED credit

Next ==
    \/ \E s \in Sales : Open(s) \/ Settle(s) \/ Fail(s)
    \/ \E S \in SUBSET Sales : Abandon(S)

Spec == Init /\ [][Next]_vars

(* The promise itself: a sale has a ledger effect exactly when it is paid, *)
(* and never two.                                                          *)
OneEffectWhenPaid ==
    \A s \in Sales :
        /\ credit[s] # {} <=> state[s] = "paid"
        /\ \A c, d \in credit[s] : c = d
=============================================================================
