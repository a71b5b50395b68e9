-------------------------------- MODULE SaleBook --------------------------------
(***************************************************************************)
(* What POST /sales promises (I1): under one Idempotency-Key of a tenant   *)
(* there is at most one sale, every client that sends the key with the same*)
(* body is told of that sale in the same words, and one that sends it with *)
(* another body is refused.                                                *)
(***************************************************************************)
CONSTANTS Scopes, Bodies, Responses, Conflict, NULL

VARIABLES
    entry,    \* the body first written under each key, and the response to it
    answer    \* the last answer a client was given

Entries == [body: Bodies, response: Responses]

Init ==
    /\ entry = [k \in Scopes |-> NULL]
    /\ answer = NULL

Write(k) ==
    /\ entry[k] = NULL
    /\ \E e \in Entries :
          /\ \A j \in Scopes : entry[j] # NULL => entry[j].response # e.response
          /\ entry' = [entry EXCEPT ![k] = e]
    /\ UNCHANGED answer

Answer(k) ==
    /\ entry[k] # NULL
    /\ \E body \in Bodies :
          answer' = [key |-> k, body |-> body, response |->
              IF body = entry[k].body THEN entry[k].response ELSE Conflict]
    /\ UNCHANGED entry

Next == \E k \in Scopes : Write(k) \/ Answer(k)

Spec == Init /\ [][Next]_<<entry, answer>>
=============================================================================
