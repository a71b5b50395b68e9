--------------------------------- MODULE Mpesa ---------------------------------
(***************************************************************************)
(* What the Payments service may rely on, whichever MpesaAdapter it runs   *)
(* with: an acknowledged payment was initiated, a rejected one never is    *)
(* ("A definite answer: nothing was initiated"), and any other answer says *)
(* nothing ("provider state UNKNOWN").  What a callback or a query reports *)
(* is what the customer did, so no two reports of a payment disagree.      *)
(***************************************************************************)
CONSTANT Payments   \* the stkPush and b2cPayment calls

VARIABLES
    made,      \* the payments M-Pesa has initiated
    told,      \* what the caller of each was answered
    outcome,   \* what came of each
    heard      \* the outcomes Payments was told of, by callback or by query

Outcomes == {"paid", "declined"}
Answers == {"ack", "rejected", "unknown"}

Init ==
    /\ made = {}
    /\ told = [p \in Payments |-> "none"]
    /\ outcome = [p \in Payments |-> "none"]
    /\ heard = {}

(* M-Pesa takes up payments, also long after their callers gave up, and    *)
(* customers act.                                                          *)
Proceed ==
    /\ made' \in SUBSET Payments
    /\ made \subseteq made'
    /\ \A p \in made' \ made : told[p] # "rejected"
    /\ outcome' \in [Payments -> Outcomes \cup {"none"}]
    /\ \A p \in Payments :
          /\ outcome[p] # "none" => outcome'[p] = outcome[p]
          /\ outcome'[p] # "none" => p \in made'
    /\ UNCHANGED <<told, heard>>

Answer(p) ==
    /\ told[p] = "none"
    /\ \E answer \in Answers :
          /\ answer = "ack" => p \in made
          /\ answer = "rejected" => p \notin made
          /\ told' = [told EXCEPT ![p] = answer]
    /\ UNCHANGED <<made, outcome, heard>>

Report(p) ==
    /\ outcome[p] # "none"
    /\ heard' = heard \cup {<<p, outcome[p]>>}
    /\ UNCHANGED <<made, told, outcome>>

Next == Proceed \/ \E p \in Payments : Answer(p) \/ Report(p)

Spec == Init /\ [][Next]_<<made, told, outcome, heard>>
=============================================================================
