------------------------------- MODULE FakeMpesa -------------------------------
(***************************************************************************)
(* FakeAdapter and the stub-server around it: the M-Pesa of the tests and  *)
(* of the k6 runs.  The amount decides what comes of a payment, and the    *)
(* callbacks it calls for are queued and flushed by a timer.               *)
(***************************************************************************)
EXTENDS Integers, Sequences

CONSTANTS
    Payments,   \* the stkPush and b2cPayment calls
    Flushes,    \* bound: flushes of the timer that run at the same time
    Delay,      \* delayedCallbackMs, in ticks
    MaxClock    \* bound on the clock

ASSUME FakeAssumption ==
    /\ Delay \in Nat \ {0}
    /\ MaxClock \in Nat

VARIABLES
    clock,
    record,    \* the maps stk and b2c: scenario, result, and when it is due
    pending,   \* the callbacks queued, as the payments they report
    flush,     \* the callbacks each running flush has still to deliver
    delivered  \* the payments a callback of which was delivered

fake == <<record, pending, flush, delivered>>

Scenarios == <<"success", "cancelled", "insufficient_funds", "timeout",
               "duplicate_callback", "delayed_callback">>

NoRecord == [scenario |-> "none", result |-> "none", due |-> 0]

-----------------------------------------------------------------------------
(* Amounts: minor units to the adapter, whole shillings on the wire.       *)

MinorToKes(amount) == amount \div 100

IsWhole(amount) == amount % 100 = 0

(* The last two digits of the shilling amount choose the scenario.         *)
ScenarioFor(kes) ==
    LET suffix == kes % 100 IN IF suffix <= 5 THEN Scenarios[suffix + 1] ELSE "success"

ResultOf(scenario) ==
    CASE scenario = "timeout" -> "none"
      [] scenario \in {"cancelled", "insufficient_funds"} -> "declined"
      [] OTHER -> "paid"

DueOf(scenario) == IF scenario = "delayed_callback" THEN clock + Delay ELSE clock

CallbacksOf(p, scenario) ==
    CASE scenario = "timeout" -> <<>>
      [] scenario = "duplicate_callback" -> <<p, p>>
      [] OTHER -> <<p>>

-----------------------------------------------------------------------------
(* stkPush and b2cPayment: the attempt is recorded, in a timeout scenario  *)
(* too, and its callbacks are queued.                                      *)
Initiate(p, kes) ==
    LET scenario == ScenarioFor(kes) IN
    /\ record' = [record EXCEPT ![p] =
           [scenario |-> scenario, result |-> ResultOf(scenario), due |-> DueOf(scenario)]]
    /\ pending' = pending \o CallbacksOf(p, scenario)
    /\ UNCHANGED <<flush, delivered>>

HasActed(p) == record[p].result # "none" /\ record[p].due <= clock

(* What stkQuery answers of push p.                                        *)
StkQuery(p) == IF HasActed(p) THEN record[p].result ELSE "pending"

(* resolveTimeout: a drill decides what came of a payment that timed out,  *)
(* and whether a late callback says so.  Only pushes can be resolved.      *)
ResolveTimeout(p) ==
    /\ record[p].scenario = "timeout" /\ record[p].result = "none"
    /\ \E result \in {"paid", "declined"}, late \in {<<>>, <<p>>} :
          /\ record' = [record EXCEPT ![p].result = result, ![p].due = clock]
          /\ pending' = pending \o late
    /\ UNCHANGED <<clock, flush, delivered>>

-----------------------------------------------------------------------------
(* deliverPending, by the stub-server's timer: it takes what is due out of *)
(* the queue before it awaits the first delivery.                          *)

IsDue(p) == record[p].due <= clock

(* The entries of s that are in S, in their order: filter.                 *)
Kept(s, S) ==
    LET kept[i \in 0..Len(s)] ==
            IF i = 0 THEN <<>>
            ELSE IF s[i] \in S THEN Append(kept[i - 1], s[i]) ELSE kept[i - 1]
    IN  kept[Len(s)]

Due == {p \in Payments : IsDue(p)}

Take(f) ==
    LET due == Kept(pending, Due) IN
    /\ flush[f] = <<>> /\ due # <<>>
    /\ flush' = [flush EXCEPT ![f] = due]
    /\ pending' = Kept(pending, Payments \ Due)
    /\ UNCHANGED <<clock, record, delivered>>

(* Mutant: what was taken is removed from the queue only once the last of  *)
(* it is delivered, by emptying the queue.                                 *)
DeliverThenClear(f) ==
    /\ flush[f] # <<>>
    /\ delivered' = delivered \cup {Head(flush[f])}
    /\ flush' = [flush EXCEPT ![f] = Tail(@)]
    /\ pending' = IF Len(flush[f]) = 1 THEN <<>> ELSE pending
    /\ UNCHANGED <<clock, record>>

(* Payments answers the callback with a 2xx.                               *)
Deliver(f) ==
    /\ flush[f] # <<>>
    /\ delivered' = delivered \cup {Head(flush[f])}
    /\ flush' = [flush EXCEPT ![f] = Tail(@)]
    /\ UNCHANGED <<clock, record, pending>>

(* Payments answers with an error or not at all, and deliver throws: the   *)
(* rest of the flush is gone with it.                                      *)
DeliverFails(f) ==
    /\ flush[f] # <<>>
    /\ flush' = [flush EXCEPT ![f] = <<>>]
    /\ UNCHANGED <<clock, record, pending, delivered>>

Tick ==
    /\ clock < MaxClock
    /\ clock' = clock + 1
    /\ UNCHANGED fake

FakeInit ==
    /\ clock = 0
    /\ record = [p \in Payments |-> NoRecord]
    /\ pending = <<>>
    /\ flush = [f \in Flushes |-> <<>>]
    /\ delivered = {}
=============================================================================
