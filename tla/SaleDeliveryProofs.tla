-------------------------- MODULE SaleDeliveryProofs --------------------------
(***************************************************************************)
(* The way from a settled charge to a PAID sale, for any sales, payers,    *)
(* relays, workers and copies: a sale is shown PAID only when Payments has *)
(* settled it, and no settled sale's event is lost but by the retention    *)
(* period.                                                                 *)
(***************************************************************************)
EXTENDS SaleDelivery, TLAPS

IsEvent(c) == \E s \in Sales : c \in credit[s]

(* What ChargeLedger promises: an effect when paid, and no other's.        *)
EffectsAreOwn ==
    /\ Payments!OneEffectWhenPaid
    /\ \A s, t \in Sales : \A c \in credit[s] : c \in credit[t] => s = t

IsPaidBy(c) == \E s \in Sales : c \in credit[s] /\ sales[s].status = "PAID"

(* An event that POS has applied, or that is in the queue, in the DLQ, or  *)
(* was dropped at the end of its retention.                                *)
IsSafe(c) ==
    \/ IsPaidBy(c)
    \/ \E n \in Copies : queue[<<c, n>>].at \in {"queued", "dead", "expired"}

(* A relay sends rows of the outbox, and marks one that is safe; so every  *)
(* row that is marked is.                                                  *)
RelaysSend ==
    /\ \A r \in Relays : /\ \A c \in relay[r].batch : IsEvent(c)
                         /\ relay[r].pc = "mark" =>
                               \E c \in relay[r].batch : relay[r].row = c /\ IsSafe(c)
    /\ \A c \in published : IsEvent(c) /\ IsSafe(c)

(* The messages there are, and those a worker holds, are rows of the outbox.*)
MessagesAreEvents ==
    /\ \A m \in Messages : queue[m].at # "unsent" => IsEvent(m[1])
    /\ \A w \in Workers : \A m \in worker[w].batch : queue[m].at # "unsent"

(* A worker acks what POS has applied.                                     *)
WorkersApply ==
    \A w \in Workers : worker[w].pc = "ack" =>
        \E m \in worker[w].batch : worker[w].msg = m /\ IsPaidBy(m[1])

(* A sale is paid by an event of its own.                                  *)
SalesArePaidByEvents ==
    \A s \in Sales : /\ sales[s].status = "PAID" <=> sales[s].event # NULL
                     /\ sales[s].event # NULL => sales[s].event \in credit[s]

IInv ==
    /\ TypeOK
    /\ EffectsAreOwn
    /\ RelaysSend
    /\ MessagesAreEvents
    /\ WorkersApply
    /\ SalesArePaidByEvents

-----------------------------------------------------------------------------
(* What the invariant says of the properties. *)

LEMMA SaleOfEvent ==
    ASSUME IInv, NEW s \in Sales, NEW c \in credit[s]
    PROVE  SaleOf(c) = s
BY DEF IInv, EffectsAreOwn, SaleOf

LEMMA IInvSettled == IInv => PaidWasSettled
<1> SUFFICES ASSUME IInv, NEW s \in Sales, sales[s].status = "PAID"
             PROVE  payment[s] = "paid" /\ sales[s].event \in credit[s]
  BY DEF PaidWasSettled
<1>1. sales[s].event \in credit[s]
  BY DEF IInv, SalesArePaidByEvents
<1> QED BY <1>1 DEF IInv, EffectsAreOwn, Payments!OneEffectWhenPaid

LEMMA IInvNotLost == IInv => NoSaleLost
<1> SUFFICES ASSUME IInv, NEW s \in Sales, payment[s] = "paid", sales[s].status # "PAID"
             PROVE  \E c \in credit[s] :
                       \/ c \notin published
                       \/ \E n \in Copies : queue[<<c, n>>].at \in {"queued", "dead", "expired"}
  BY DEF NoSaleLost
<1>1. PICK c \in credit[s] : TRUE
  BY DEF IInv, EffectsAreOwn, Payments!OneEffectWhenPaid
<1>2. c \in ChargeIds /\ IsEvent(c)
  BY <1>1 DEF IInv, TypeOK, Payments!TypeOK, IsEvent
<1>3. CASE c \in published
  <2>1. IsSafe(c) /\ ~IsPaidBy(c)
    BY <1>1, <1>2, <1>3 DEF IInv, RelaysSend, IsPaidBy, EffectsAreOwn
  <2> QED BY <1>1, <2>1 DEF IsSafe
<1> QED BY <1>1, <1>3

-----------------------------------------------------------------------------
(* The invariant holds at first.                                           *)
LEMMA InitIInv == Init => IInv
<1> SUFFICES ASSUME Init PROVE IInv
  OBVIOUS
<1> USE DEF Init, Payments!Init
<1>1. Payments!TypeOK
  BY DEF Payments!TypeOK, Payments!States
<1>2. RelaysOK
  BY DEF RelaysOK, RelayStates, IdleRelay
<1>3. QueueOK
  BY ConstantsAssumption DEF QueueOK
<1>4. PayersOK
  BY DEF PayersOK, IdlePayer
<1>5. WorkersOK
  BY DEF WorkersOK, WorkerStates, IdleWorker
<1>6. EffectsAreOwn
  BY DEF EffectsAreOwn, Payments!OneEffectWhenPaid
<1>7. RelaysSend
  BY DEF RelaysSend, IdleRelay, IsEvent
<1>8. MessagesAreEvents /\ WorkersApply
  BY DEF MessagesAreEvents, WorkersApply, IdleWorker
<1>9. SalesArePaidByEvents
  BY DEF SalesArePaidByEvents
<1> QED BY <1>1, <1>2, <1>3, <1>4, <1>5, <1>6, <1>7, <1>8, <1>9 DEF IInv, TypeOK

-----------------------------------------------------------------------------
(* Payments. *)

(* A step of the ledger: effects are added, none twice.                    *)
LEMMA LedgerStep ==
    ASSUME Payments!TypeOK, EffectsAreOwn, Payments!Next \/ UNCHANGED payments
    PROVE  /\ Payments!TypeOK' /\ EffectsAreOwn'
           /\ \A s \in Sales : credit[s] \subseteq credit'[s]
           /\ \A s \in Sales : \A c \in credit'[s] : c \in credit[s] \/ ~IsEvent(c)
<1> USE DEF Payments!TypeOK, Payments!States
<1>1. CASE UNCHANGED payments
  BY <1>1 DEF payments, EffectsAreOwn, Payments!OneEffectWhenPaid
<1>2. ASSUME NEW s \in Sales, Payments!Open(s) \/ Payments!Fail(s)
      PROVE  Payments!TypeOK' /\ EffectsAreOwn' /\ UNCHANGED credit
  BY <1>2 DEF Payments!Open, Payments!Fail, EffectsAreOwn, Payments!OneEffectWhenPaid
<1>3. ASSUME NEW S \in SUBSET Sales, Payments!Abandon(S)
      PROVE  Payments!TypeOK' /\ EffectsAreOwn' /\ UNCHANGED credit
  BY <1>3 DEF Payments!Abandon, EffectsAreOwn, Payments!OneEffectWhenPaid
<1>4. ASSUME NEW s \in Sales, Payments!Settle(s)
      PROVE  /\ Payments!TypeOK' /\ EffectsAreOwn'
             /\ \A t \in Sales : credit[t] \subseteq credit'[t]
             /\ \A t \in Sales : \A c \in credit'[t] : c \in credit[t] \/ ~IsEvent(c)
  <2>1. PICK c \in ChargeIds : /\ \A t \in Sales : c \notin credit[t]
                               /\ credit' = [credit EXCEPT ![s] = {c}]
    BY <1>4 DEF Payments!Settle
  <2>2. payment' = [payment EXCEPT ![s] = "paid"] /\ payment[s] = "open"
    BY <1>4 DEF Payments!Settle
  <2>3. credit[s] = {}
    BY <2>2 DEF EffectsAreOwn, Payments!OneEffectWhenPaid
  <2>4. \A t \in Sales : credit'[t] = IF t = s THEN {c} ELSE credit[t]
    BY <2>1
  <2>5. Payments!TypeOK'
    BY <2>1, <2>2
  <2>6. Payments!OneEffectWhenPaid'
    BY <2>2, <2>4 DEF EffectsAreOwn, Payments!OneEffectWhenPaid
  <2>7. EffectsAreOwn'
    BY <2>1, <2>4, <2>6 DEF EffectsAreOwn
  <2> QED BY <2>1, <2>3, <2>4, <2>5, <2>7 DEF IsEvent
<1> QED BY <1>1, <1>2, <1>3, <1>4 DEF Payments!Next

(* What is an event, paid by one, or safe, stays so; the rest of the       *)
(* invariant says of relays, messages and workers that it is.              *)
LEMMA StaysSafe ==
    ASSUME \A s \in Sales : credit[s] \subseteq credit'[s],
           \A s \in Sales : sales[s].status = "PAID" => sales'[s].status = "PAID",
           \A n \in Copies, c \in ChargeIds :
               queue[<<c, n>>].at \in {"queued", "dead", "expired"} =>
                   \/ queue'[<<c, n>>].at \in {"queued", "dead", "expired"}
                   \/ IsPaidBy(c)
    PROVE  /\ \A c : IsEvent(c) => IsEvent(c)'
           /\ \A c : IsPaidBy(c) => IsPaidBy(c)'
           /\ \A c \in ChargeIds : IsSafe(c) => IsSafe(c)'
<1>1. \A c : IsEvent(c) => IsEvent(c)'
  BY DEF IsEvent
<1>2. \A c : IsPaidBy(c) => IsPaidBy(c)'
  BY DEF IsPaidBy
<1>3. \A c \in ChargeIds : IsSafe(c) => IsSafe(c)'
  BY <1>2 DEF IsSafe
<1> QED BY <1>1, <1>2, <1>3

(* The ids of rows and of messages are charge ids.                         *)
LEMMA EventIsCharge ==
    ASSUME Payments!TypeOK, NEW c, IsEvent(c)
    PROVE  c \in ChargeIds
BY DEF Payments!TypeOK, IsEvent

LEMMA PaymentsStep ==
    ASSUME IInv, Payments!Next \/ UNCHANGED payments, calls' \in SUBSET calls,
           UNCHANGED <<outbox, sqs, sales, payer, worker>>
    PROVE  IInv'
<1>0. /\ UNCHANGED <<published, relay, queue, redriven, sales, payer, worker>>
      /\ Payments!TypeOK /\ RelaysOK /\ WorkersOK /\ PayersOK /\ QueueOK
  BY DEF outbox, sqs, IInv, TypeOK
<1>1. /\ Payments!TypeOK' /\ EffectsAreOwn'
      /\ \A s \in Sales : credit[s] \subseteq credit'[s]
  BY LedgerStep DEF IInv, TypeOK
<1>2. /\ \A c : IsEvent(c) => IsEvent(c)'
      /\ \A c : IsPaidBy(c) => IsPaidBy(c)'
      /\ \A c \in ChargeIds : IsSafe(c) => IsSafe(c)'
  BY <1>0, <1>1, StaysSafe
<1>3. TypeOK'
  BY <1>0, <1>1 DEF TypeOK, RelaysOK, QueueOK, PayersOK, WorkersOK
<1>4. RelaysSend'
  BY <1>0, <1>2, EventIsCharge DEF IInv, RelaysSend
<1>5. MessagesAreEvents' /\ WorkersApply'
  BY <1>0, <1>2 DEF IInv, MessagesAreEvents, WorkersApply
<1>6. SalesArePaidByEvents'
  BY <1>0, <1>1 DEF IInv, SalesArePaidByEvents
<1> QED BY <1>1, <1>3, <1>4, <1>5, <1>6 DEF IInv

LEMMA ServeCallStep ==
    ASSUME IInv, NEW s \in Sales, ServeCall(s)
    PROVE  IInv'
<1>1. calls' \in SUBSET calls /\ UNCHANGED <<outbox, sqs, sales, payer, worker>>
  BY DEF ServeCall
<1>2. Payments!Next \/ UNCHANGED payments
  BY DEF ServeCall, Payments!Next
<1> QED BY <1>1, <1>2, PaymentsStep

LEMMA OwnAccordStep ==
    ASSUME IInv,
           \/ \E s \in Sales : Resolve(s)
           \/ \E S \in SUBSET Sales : GiveUp(S)
    PROVE  IInv'
<1>1. calls' \in SUBSET calls /\ UNCHANGED <<outbox, sqs, sales, payer, worker>>
  BY DEF Resolve, GiveUp, pos
<1>2. Payments!Next
  BY DEF Resolve, GiveUp, Payments!Next
<1> QED BY <1>1, <1>2, PaymentsStep

-----------------------------------------------------------------------------
(* POST /sales/:id/pay. *)

(* A payer writes a charge id at most: the status and the event stay.      *)
LEMMA PayerOnlyStep ==
    ASSUME IInv, PayersOK', UNCHANGED <<payments, outbox, sqs, worker>>,
           \A s \in Sales : sales'[s].status = sales[s].status /\ sales'[s].event = sales[s].event
    PROVE  IInv'
<1>0. /\ UNCHANGED <<payment, credit, published, relay, queue, redriven, worker>>
      /\ Payments!TypeOK /\ RelaysOK /\ WorkersOK /\ QueueOK
  BY DEF payments, outbox, sqs, IInv, TypeOK
<1>1. \A c : (IsEvent(c)' <=> IsEvent(c)) /\ (IsPaidBy(c)' <=> IsPaidBy(c)) /\ (IsSafe(c)' <=> IsSafe(c))
  BY <1>0 DEF IsEvent, IsPaidBy, IsSafe
<1>2. TypeOK'
  BY <1>0 DEF TypeOK, RelaysOK, QueueOK, WorkersOK, Payments!TypeOK
<1>3. EffectsAreOwn'
  BY <1>0 DEF IInv, EffectsAreOwn, Payments!OneEffectWhenPaid
<1>4. RelaysSend' /\ MessagesAreEvents' /\ WorkersApply'
  BY <1>0, <1>1 DEF IInv, RelaysSend, MessagesAreEvents, WorkersApply
<1>5. SalesArePaidByEvents'
  BY <1>0 DEF IInv, SalesArePaidByEvents
<1> QED BY <1>2, <1>3, <1>4, <1>5 DEF IInv

LEMMA PayerStepKeeps ==
    ASSUME IInv, NEW h \in Payers, PayerStep(h)
    PROVE  IInv'
<1>0. PayersOK
  BY DEF IInv, TypeOK
<1>1. ASSUME NEW s \in Sales, StartPay(h, s)
      PROVE  IInv'
  <2>1. PayersOK' /\ UNCHANGED <<payments, outbox, sqs, sales, worker>>
    BY <1>0, <1>1 DEF StartPay, PayersOK
  <2> QED BY <2>1, PayerOnlyStep
<1>2. CASE Accepted(h)
  <2>1. PayersOK' /\ UNCHANGED <<payments, outbox, sqs, sales, worker>>
    BY <1>0, <1>2 DEF Accepted, PayersOK
  <2> QED BY <2>1, PayerOnlyStep
<1>3. CASE StoreCharge(h)
  <2>1. PayersOK' /\ UNCHANGED <<payments, outbox, sqs, worker>>
    BY <1>0, <1>3 DEF StoreCharge, PayersOK, IdlePayer, Charged
  <2>2. \A s \in Sales : sales'[s].status = sales[s].status /\ sales'[s].event = sales[s].event
    BY <1>0, <1>3 DEF StoreCharge, PayersOK, Charged
  <2> QED BY <2>1, <2>2, PayerOnlyStep
<1>4. CASE EndPay(h)
  <2>1. PayersOK' /\ UNCHANGED <<payments, outbox, sqs, sales, worker>>
    BY <1>0, <1>4 DEF EndPay, PayersOK, IdlePayer
  <2> QED BY <2>1, PayerOnlyStep
<1> QED BY <1>1, <1>2, <1>3, <1>4 DEF PayerStep

-----------------------------------------------------------------------------
(* relayOnce. *)

(* A relay's step that sends at most: the queue only gains messages of     *)
(* rows of the outbox.                                                     *)
LEMMA RelayOnlyStep ==
    ASSUME IInv, RelaysOK', QueueOK', UNCHANGED <<payments, redriven, pos>>,
           \A m \in Messages : \/ queue'[m] = queue[m]
                              \/ /\ queue[m].at = "unsent" /\ queue'[m].at = "queued"
                                 /\ IsEvent(m[1]),
           \A r \in Relays :
               \/ relay'[r] = relay[r]
               \/ /\ \A c \in relay'[r].batch : IsEvent(c)
                  /\ relay'[r].pc = "mark" =>
                        \E c \in relay'[r].batch : relay'[r].row = c /\ IsSafe(c)',
           \A c \in published' : c \in published \/ (IsEvent(c) /\ IsSafe(c))
    PROVE  IInv'
<1>0. /\ UNCHANGED <<payment, credit, redriven, sales, calls, payer, worker>>
      /\ Payments!TypeOK /\ PayersOK /\ WorkersOK /\ QueueOK
  BY DEF payments, pos, IInv, TypeOK
<1>1. \A c : (IsEvent(c)' <=> IsEvent(c)) /\ (IsPaidBy(c)' <=> IsPaidBy(c))
  BY <1>0 DEF IsEvent, IsPaidBy
<1>2. \A c \in ChargeIds : IsSafe(c) => IsSafe(c)'
  BY <1>1 DEF IsSafe, Messages
<1>3. \A c : IsEvent(c) => c \in ChargeIds
  BY <1>0, EventIsCharge
<1>4. TypeOK'
  BY <1>0 DEF TypeOK, Payments!TypeOK, PayersOK, WorkersOK
<1>5. EffectsAreOwn' /\ SalesArePaidByEvents'
  BY <1>0 DEF IInv, EffectsAreOwn, Payments!OneEffectWhenPaid, SalesArePaidByEvents
<1>6. RelaysSend'
  <2>1. ASSUME NEW r \in Relays
        PROVE  /\ \A c \in relay'[r].batch : IsEvent(c)'
               /\ relay'[r].pc = "mark" =>
                     \E c \in relay'[r].batch : relay'[r].row = c /\ IsSafe(c)'
    <3>1. CASE relay'[r] = relay[r]
      <4>1. /\ \A c \in relay[r].batch : IsEvent(c)
            /\ relay[r].pc = "mark" => \E c \in relay[r].batch : relay[r].row = c /\ IsSafe(c)
        BY DEF IInv, RelaysSend
      <4>2. relay[r].pc = "mark" => \E c \in relay[r].batch : relay[r].row = c /\ IsSafe(c)'
        BY <1>2, <1>3, <4>1
      <4> QED BY <1>1, <3>1, <4>1, <4>2
    <3>2. CASE relay'[r] # relay[r]
      BY <1>1, <3>2
    <3> QED BY <3>1, <3>2
  <2>2. ASSUME NEW c \in published'
        PROVE  IsEvent(c)' /\ IsSafe(c)'
    <3>1. IsEvent(c) /\ IsSafe(c)
      BY DEF IInv, RelaysSend
    <3> QED BY <1>1, <1>2, <1>3, <3>1
  <2> QED BY <2>1, <2>2 DEF RelaysSend
<1>7. MessagesAreEvents'
  BY <1>0, <1>1 DEF IInv, MessagesAreEvents, WorkersOK, WorkerStates
<1>8. WorkersApply'
  BY <1>0, <1>1 DEF IInv, WorkersApply
<1> QED BY <1>4, <1>5, <1>6, <1>7, <1>8 DEF IInv

(* What a relay has left is what it had, and it rests with nothing left.   *)
LEMMA RestType ==
    ASSUME RelaysOK, NEW r \in Relays, relay[r].pc # "idle", NEW c
    PROVE  /\ Rest(r, c) \in RelayStates
           /\ Rest(r, c).batch \subseteq relay[r].batch
           /\ (Rest(r, c).pc = "idle") = (Rest(r, c).batch = {})
           /\ Rest(r, c).pc # "mark"
<1>1. relay[r].batch \in SUBSET ChargeIds /\ relay[r].batch # {}
  BY DEF RelaysOK, RelayStates
<1>2. CASE relay[r].batch = {c}
  BY <1>1, <1>2 DEF Rest, IdleRelay, RelayStates
<1>3. CASE relay[r].batch # {c}
  <2>1. relay[r].batch \ {c} # {}
    BY <1>1, <1>3
  <2> QED BY <1>1, <1>3, <2>1 DEF Rest, IdleRelay, RelayStates
<1> QED BY <1>2, <1>3

(* A send puts one copy of the event on the queue.                         *)
LEMMA EnqueueEffect ==
    ASSUME QueueOK, NEW c \in ChargeIds, Enqueue(c)
    PROVE  /\ queue' \in [Messages -> [at: {"unsent", "queued", "dead", "deleted", "expired"},
                                      receives: 0..MaxReceives]]
           /\ \A m \in Messages :
                 \/ queue'[m] = queue[m]
                 \/ queue[m].at = "unsent" /\ queue'[m].at = "queued" /\ m[1] = c
           /\ \E n \in Copies : queue'[<<c, n>>].at = "queued"
<1>1. PICK n \in Copies : /\ queue[<<c, n>>].at = "unsent"
                          /\ queue' = [queue EXCEPT ![<<c, n>>].at = "queued"]
  BY DEF Enqueue
<1>2. <<c, n>> \in Messages
  BY DEF Messages
<1> HIDE DEF Messages
<1>3. queue'[<<c, n>>].at = "queued"
  BY <1>1, <1>2 DEF QueueOK
<1>4. \A m \in Messages : m # <<c, n>> => queue'[m] = queue[m]
  BY <1>1, <1>2 DEF QueueOK
<1>5. queue' \in [Messages -> [at: {"unsent", "queued", "dead", "deleted", "expired"},
                              receives: 0..MaxReceives]]
  BY <1>1, <1>2 DEF QueueOK
<1> QED BY <1>1, <1>3, <1>4, <1>5

LEMMA StartRelayStep ==
    ASSUME IInv, NEW r \in Relays, StartRelay(r)
    PROVE  IInv'
<1> DEFINE state == [relay[r] EXCEPT !.pc = "send", !.batch = Outbox \ published]
<1>0. RelaysOK /\ QueueOK /\ Payments!TypeOK
  BY DEF IInv, TypeOK
<1>1. /\ relay' = [relay EXCEPT ![r] = state]
      /\ UNCHANGED <<payments, published, queue, redriven, pos>>
  BY <1>0 DEF StartRelay, sqs, RelaysOK
<1>2. \A c \in Outbox : IsEvent(c) /\ c \in ChargeIds
  BY <1>0, EventIsCharge DEF Outbox, IsEvent
<1>3. state \in RelayStates /\ state.pc = "send" /\ state.batch = Outbox \ published
  BY <1>0, <1>2 DEF RelaysOK, RelayStates
<1>4. state.batch # {}
  BY <1>3 DEF StartRelay
<1> HIDE DEF state
<1>5. \A q \in Relays : relay'[q] = IF q = r THEN state ELSE relay[q]
  BY <1>0, <1>1 DEF RelaysOK
<1>6. RelaysOK'
  BY <1>0, <1>1, <1>3, <1>4, <1>5 DEF RelaysOK
<1>7. QueueOK'
  BY <1>0, <1>1 DEF QueueOK
<1>8. \A q \in Relays :
         \/ relay'[q] = relay[q]
         \/ /\ \A c \in relay'[q].batch : IsEvent(c)
            /\ relay'[q].pc # "mark"
  BY <1>2, <1>3, <1>5
<1> QED BY <1>1, <1>6, <1>7, <1>8, RelayOnlyStep

(* A row that was sent is safe: its message is on the queue.               *)
LEMMA SendStep ==
    ASSUME IInv, NEW r \in Relays, NEW c \in ChargeIds, Send(r, c)
    PROVE  IInv'
<1> DEFINE state == [relay[r] EXCEPT !.pc = "mark", !.row = c]
<1>0. RelaysOK /\ QueueOK
  BY DEF IInv, TypeOK
<1>1. /\ relay' = [relay EXCEPT ![r] = state] /\ c \in relay[r].batch
      /\ UNCHANGED <<payments, published, redriven, pos>>
  BY <1>0 DEF Send, RelaysOK
<1>2. /\ queue' \in [Messages -> [at: {"unsent", "queued", "dead", "deleted", "expired"},
                                  receives: 0..MaxReceives]]
      /\ \A m \in Messages :
            \/ queue'[m] = queue[m]
            \/ queue[m].at = "unsent" /\ queue'[m].at = "queued" /\ m[1] = c
      /\ \E n \in Copies : queue'[<<c, n>>].at = "queued"
  BY <1>0, EnqueueEffect DEF Send
<1>3. \A d \in relay[r].batch : IsEvent(d)
  BY DEF IInv, RelaysSend
<1>4. state \in RelayStates /\ state.pc = "mark" /\ state.batch = relay[r].batch /\ state.row = c
  BY <1>0 DEF RelaysOK, RelayStates
<1> HIDE DEF state
<1>5. \A q \in Relays : relay'[q] = IF q = r THEN state ELSE relay[q]
  BY <1>0, <1>1 DEF RelaysOK
<1>6. RelaysOK'
  BY <1>0, <1>1, <1>4, <1>5 DEF RelaysOK
<1>7. QueueOK'
  BY <1>0, <1>1, <1>2 DEF QueueOK
<1>8. IsSafe(c)'
  BY <1>2 DEF IsSafe
<1>9. \A q \in Relays :
         \/ relay'[q] = relay[q]
         \/ /\ \A d \in relay'[q].batch : IsEvent(d)
            /\ \E d \in relay'[q].batch : relay'[q].row = d /\ IsSafe(d)'
  BY <1>1, <1>3, <1>4, <1>5, <1>8
<1>10. \A m \in Messages : \/ queue'[m] = queue[m]
                           \/ /\ queue[m].at = "unsent" /\ queue'[m].at = "queued"
                              /\ IsEvent(m[1])
  BY <1>1, <1>2, <1>3
<1> QED BY <1>1, <1>6, <1>7, <1>9, <1>10, RelayOnlyStep

(* A relay that goes on to its next row, or ends.                          *)
LEMMA RelayGoesOn ==
    ASSUME IInv, NEW r \in Relays, NEW state \in RelayStates,
           state.batch \subseteq relay[r].batch, state.pc # "mark",
           (state.pc = "idle") = (state.batch = {}),
           relay' = [relay EXCEPT ![r] = state],
           published' \subseteq ChargeIds,
           \A c \in published' : c \in published \/ (IsEvent(c) /\ IsSafe(c)),
           QueueOK',
           \A m \in Messages : \/ queue'[m] = queue[m]
                              \/ /\ queue[m].at = "unsent" /\ queue'[m].at = "queued"
                                 /\ IsEvent(m[1]),
           UNCHANGED <<payments, redriven, pos>>
    PROVE  IInv'
<1>0. RelaysOK
  BY DEF IInv, TypeOK
<1>1. \A q \in Relays : relay'[q] = IF q = r THEN state ELSE relay[q]
  BY <1>0 DEF RelaysOK
<1>2. RelaysOK'
  BY <1>0, <1>1 DEF RelaysOK
<1>3. \A c \in relay[r].batch : IsEvent(c)
  BY DEF IInv, RelaysSend
<1>4. \A q \in Relays :
         \/ relay'[q] = relay[q]
         \/ /\ \A c \in relay'[q].batch : IsEvent(c)
            /\ relay'[q].pc # "mark"
  BY <1>1, <1>3
<1> QED BY <1>2, <1>4, RelayOnlyStep

LEMMA SendFailsStep ==
    ASSUME IInv, NEW r \in Relays, NEW c \in ChargeIds, SendFails(r, c)
    PROVE  IInv'
<1>0. RelaysOK /\ QueueOK
  BY DEF IInv, TypeOK
<1>1. IsEvent(c)
  BY DEF SendFails, IInv, RelaysSend
<1>2. /\ QueueOK'
      /\ \A m \in Messages : \/ queue'[m] = queue[m]
                             \/ /\ queue[m].at = "unsent" /\ queue'[m].at = "queued"
                                /\ IsEvent(m[1])
  <2>1. CASE Enqueue(c)
    BY <1>0, <1>1, <2>1, EnqueueEffect DEF SendFails, QueueOK
  <2>2. CASE UNCHANGED queue
    BY <1>0, <2>2 DEF SendFails, QueueOK
  <2> QED BY <2>1, <2>2 DEF SendFails
<1>3. /\ relay[r].pc # "idle" /\ relay' = [relay EXCEPT ![r] = Rest(r, c)]
      /\ UNCHANGED <<payments, published, redriven, pos>>
  BY DEF SendFails
<1>4. published' \subseteq ChargeIds
  BY <1>0, <1>3 DEF RelaysOK
<1> QED BY <1>0, <1>2, <1>3, <1>4, RestType, RelayGoesOn

(* Only a row that was sent is marked.                                     *)
LEMMA MarkStep ==
    ASSUME IInv, NEW r \in Relays, Mark(r)
    PROVE  IInv'
<1> DEFINE c == relay[r].row
<1>0. RelaysOK /\ QueueOK /\ Payments!TypeOK
  BY DEF IInv, TypeOK
<1>1. /\ relay[r].pc = "mark" /\ relay' = [relay EXCEPT ![r] = Rest(r, c)]
      /\ published' \in {published, published \cup {c}}
      /\ UNCHANGED <<payments, queue, redriven, pos>>
  BY DEF Mark, sqs
<1>2. IsEvent(c) /\ IsSafe(c) /\ c \in ChargeIds
  BY <1>0, <1>1, EventIsCharge DEF IInv, RelaysSend
<1>3. QueueOK' /\ published' \subseteq ChargeIds
  BY <1>0, <1>1, <1>2 DEF QueueOK, RelaysOK
<1>4. \A d \in published' : d \in published \/ (IsEvent(d) /\ IsSafe(d))
  BY <1>1, <1>2
<1> HIDE DEF c
<1> QED BY <1>0, <1>1, <1>3, <1>4, RestType, RelayGoesOn

LEMMA CrashRelayStep ==
    ASSUME IInv, NEW r \in Relays, CrashRelay(r)
    PROVE  IInv'
<1>0. RelaysOK /\ QueueOK
  BY DEF IInv, TypeOK
<1>1. /\ relay' = [relay EXCEPT ![r] = IdleRelay]
      /\ UNCHANGED <<payments, published, queue, redriven, pos>>
  BY DEF CrashRelay, sqs
<1>2. /\ IdleRelay \in RelayStates /\ IdleRelay.batch = {} /\ IdleRelay.pc = "idle"
      /\ QueueOK' /\ published' \subseteq ChargeIds
  BY <1>0, <1>1 DEF IdleRelay, RelayStates, QueueOK, RelaysOK
<1> HIDE DEF IdleRelay
<1> QED BY <1>1, <1>2, RelayGoesOn

-----------------------------------------------------------------------------
(* The consumer and the queue. *)

(* A step of the consumer, of the queue or of the operator: no message     *)
(* comes from nowhere, one that leaves the queue for good is of a PAID     *)
(* sale, and a PAID sale stays so.                                         *)
LEMMA ConsumerOnlyStep ==
    ASSUME IInv, WorkersOK', QueueOK', PayersOK', SalesArePaidByEvents',
           UNCHANGED <<payments, outbox>>,
           \A s \in Sales : sales[s].status = "PAID" => sales'[s].status = "PAID",
           \A m \in Messages : /\ (queue'[m].at = "unsent") = (queue[m].at = "unsent")
                               /\ queue[m].at \in {"queued", "dead", "expired"} =>
                                     \/ queue'[m].at \in {"queued", "dead", "expired"}
                                     \/ IsPaidBy(m[1]),
           \A w \in Workers :
               \/ worker'[w] = worker[w]
               \/ /\ \A m \in worker'[w].batch : queue[m].at # "unsent"
                  /\ worker'[w].pc = "ack" =>
                        \E m \in worker'[w].batch : worker'[w].msg = m /\ IsPaidBy(m[1])'
    PROVE  IInv'
<1>0. /\ UNCHANGED <<payment, credit, published, relay>>
      /\ Payments!TypeOK /\ RelaysOK /\ WorkersOK
  BY DEF payments, outbox, IInv, TypeOK
<1>1. /\ \A s \in Sales : credit[s] \subseteq credit'[s]
      /\ \A n \in Copies, c \in ChargeIds :
            queue[<<c, n>>].at \in {"queued", "dead", "expired"} =>
                \/ queue'[<<c, n>>].at \in {"queued", "dead", "expired"}
                \/ IsPaidBy(c)
  <2>1. ASSUME NEW n \in Copies, NEW c \in ChargeIds
        PROVE  <<c, n>> \in Messages /\ <<c, n>>[1] = c
    BY DEF Messages
  <2> QED BY <1>0, <2>1
<1>2. /\ \A c : IsEvent(c) => IsEvent(c)'
      /\ \A c : IsPaidBy(c) => IsPaidBy(c)'
      /\ \A c \in ChargeIds : IsSafe(c) => IsSafe(c)'
  BY <1>1, StaysSafe
<1>3. TypeOK'
  BY <1>0 DEF TypeOK, Payments!TypeOK, RelaysOK
<1>4. EffectsAreOwn'
  BY <1>0 DEF IInv, EffectsAreOwn, Payments!OneEffectWhenPaid
<1>5. RelaysSend'
  BY <1>0, <1>2, EventIsCharge DEF IInv, RelaysSend
<1>6. \A w \in Workers : worker'[w].batch \subseteq Messages
  BY DEF WorkersOK, WorkerStates
<1>7. MessagesAreEvents'
  BY <1>2, <1>6 DEF IInv, MessagesAreEvents
<1>8. WorkersApply'
  BY <1>2 DEF IInv, WorkersApply
<1> QED BY <1>3, <1>4, <1>5, <1>7, <1>8 DEF IInv

(* What a worker has left is what it had, and it rests with nothing left.  *)
LEMMA LeftType ==
    ASSUME WorkersOK, NEW w \in Workers, worker[w].pc # "idle", NEW m
    PROVE  /\ Left(w, m) \in WorkerStates
           /\ Left(w, m).batch \subseteq worker[w].batch
           /\ (Left(w, m).pc = "idle") = (Left(w, m).batch = {})
           /\ Left(w, m).pc # "ack"
<1>1. worker[w].batch \in SUBSET Messages /\ worker[w].batch # {}
  BY DEF WorkersOK, WorkerStates
<1> HIDE DEF Messages
<1>2. CASE worker[w].batch = {m}
  BY <1>1, <1>2 DEF Left, IdleWorker, WorkerStates
<1>3. CASE worker[w].batch # {m}
  <2>1. worker[w].batch \ {m} # {}
    BY <1>1, <1>3
  <2> QED BY <1>1, <1>3, <2>1 DEF Left, IdleWorker, WorkerStates
<1> QED BY <1>2, <1>3

(* A worker that goes on to its next message, or ends; the queue may lose  *)
(* a message of a PAID sale.                                               *)
LEMMA WorkerGoesOn ==
    ASSUME IInv, NEW w \in Workers, NEW state \in WorkerStates,
           state.batch \subseteq worker[w].batch, state.pc # "ack",
           (state.pc = "idle") = (state.batch = {}),
           worker' = [worker EXCEPT ![w] = state],
           QueueOK',
           \A m \in Messages : \/ queue'[m] = queue[m]
                               \/ /\ queue[m].at # "unsent" /\ queue'[m].at # "unsent"
                                  /\ IsPaidBy(m[1]),
           UNCHANGED <<payments, outbox, sales, calls, payer>>
    PROVE  IInv'
<1>0. WorkersOK /\ PayersOK /\ SalesArePaidByEvents /\ UNCHANGED <<credit, sales>>
  BY DEF IInv, TypeOK, payments
<1>1. \A v \in Workers : worker'[v] = IF v = w THEN state ELSE worker[v]
  BY <1>0 DEF WorkersOK
<1>2. WorkersOK'
  BY <1>0, <1>1 DEF WorkersOK
<1>3. PayersOK' /\ SalesArePaidByEvents'
  BY <1>0 DEF PayersOK, SalesArePaidByEvents
<1>4. \A m \in worker[w].batch : queue[m].at # "unsent"
  BY DEF IInv, MessagesAreEvents
<1>5. \A v \in Workers :
         \/ worker'[v] = worker[v]
         \/ /\ \A m \in worker'[v].batch : queue[m].at # "unsent"
            /\ worker'[v].pc # "ack"
  BY <1>1, <1>4
<1>6. \A m \in Messages : /\ (queue'[m].at = "unsent") = (queue[m].at = "unsent")
                          /\ queue[m].at \in {"queued", "dead", "expired"} =>
                                \/ queue'[m].at \in {"queued", "dead", "expired"}
                                \/ IsPaidBy(m[1])
  OBVIOUS
<1> QED BY <1>0, <1>2, <1>3, <1>5, <1>6, ConsumerOnlyStep

LEMMA ReceiveStep ==
    ASSUME IInv, NEW w \in Workers, NEW batch \in SUBSET Messages, Receive(w, batch)
    PROVE  IInv'
<1> DEFINE state == [worker[w] EXCEPT !.pc = "apply", !.batch = batch]
<1>0. WorkersOK /\ QueueOK /\ PayersOK /\ SalesArePaidByEvents /\ MaxReceives \in Nat
  BY ConstantsAssumption DEF IInv, TypeOK
<1>1. /\ worker' = [worker EXCEPT ![w] = state] /\ batch # {}
      /\ UNCHANGED <<payments, credit, outbox, redriven, sales, calls, payer>>
  BY <1>0 DEF Receive, WorkersOK, payments
<1>2. state \in WorkerStates /\ state.pc = "apply" /\ state.batch = batch
  BY <1>0 DEF WorkersOK, WorkerStates
<1> HIDE DEF state, Messages
<1>3. \A v \in Workers : worker'[v] = IF v = w THEN state ELSE worker[v]
  BY <1>0, <1>1 DEF WorkersOK
<1>4. WorkersOK' /\ PayersOK' /\ SalesArePaidByEvents'
  BY <1>0, <1>1, <1>2, <1>3 DEF WorkersOK, PayersOK, SalesArePaidByEvents
<1>5. /\ \A m \in Messages : queue'[m].at = queue[m].at
      /\ \A m \in Messages : queue'[m].receives \in 0..MaxReceives
      /\ \A m \in batch : queue[m].at = "queued"
      /\ queue' \in [Messages -> [at: {"unsent", "queued", "dead", "deleted", "expired"},
                                  receives: 0..MaxReceives]]
  BY <1>0 DEF Receive, Queued, QueueOK
<1>6. QueueOK'
  BY <1>0, <1>1, <1>5 DEF QueueOK
<1>7. \A v \in Workers : \/ worker'[v] = worker[v]
                         \/ /\ \A m \in worker'[v].batch : queue[m].at # "unsent"
                            /\ worker'[v].pc # "ack"
  BY <1>2, <1>3, <1>5
<1>8. \A m \in Messages : /\ (queue'[m].at = "unsent") = (queue[m].at = "unsent")
                          /\ queue[m].at \in {"queued", "dead", "expired"} =>
                                \/ queue'[m].at \in {"queued", "dead", "expired"}
                                \/ IsPaidBy(m[1])
  BY <1>5
<1> QED BY <1>1, <1>4, <1>6, <1>7, <1>8, ConsumerOnlyStep

(* applySalePaid: the sale of the message is PAID after it, by this event  *)
(* or by the one that came before.                                         *)
LEMMA ApplyEffect ==
    ASSUME IInv, NEW w \in Workers, NEW m \in worker[w].batch, NEW s \in Sales,
           s = SaleOf(m[1]), sales' = [sales EXCEPT ![s] = Pay(@, m[1])], UNCHANGED <<credit, calls, payer>>
    PROVE  /\ m[1] \in credit[s]
           /\ sales'[s].status = "PAID"
           /\ \A t \in Sales : sales[t].event # NULL =>
                  sales'[t].event = sales[t].event /\ sales'[t].status = sales[t].status
           /\ PayersOK' /\ SalesArePaidByEvents'
<1>0. /\ PayersOK /\ Payments!TypeOK /\ SalesArePaidByEvents
      /\ m \in Messages /\ m[1] \in ChargeIds
  BY DEF IInv, TypeOK, WorkersOK, WorkerStates, Messages
<1>1. IsEvent(m[1])
  BY <1>0 DEF IInv, MessagesAreEvents
<1>2. m[1] \in credit[s]
  BY <1>1, SaleOfEvent DEF IsEvent
<1>3. m[1] # NULL
  BY <1>0, ConstantsAssumption
<1>4. \A t \in Sales : sales'[t] = IF t = s THEN Pay(sales[t], m[1]) ELSE sales[t]
  BY <1>0 DEF PayersOK
<1>5. Pay(sales[s], m[1]) \in [status: {"UNPAID", "PAID"}, charged: BOOLEAN,
                               event: ChargeIds \cup {NULL}]
  <2>1. sales[s] \in [status: {"UNPAID", "PAID"}, charged: BOOLEAN,
                      event: ChargeIds \cup {NULL}]
    BY <1>0 DEF PayersOK
  <2> QED BY <1>0, <2>1 DEF Pay
<1>6. /\ sales[s].event # NULL => Pay(sales[s], m[1]) = sales[s] /\ sales[s].status = "PAID"
      /\ sales[s].event = NULL => /\ Pay(sales[s], m[1]).event = m[1]
                                  /\ Pay(sales[s], m[1]).status = "PAID"
  BY <1>0 DEF Pay, SalesArePaidByEvents, PayersOK
<1> HIDE DEF Pay
<1>7. PayersOK'
  BY <1>0, <1>5 DEF PayersOK
<1>8. SalesArePaidByEvents'
  BY <1>0, <1>2, <1>3, <1>4, <1>6 DEF SalesArePaidByEvents
<1> QED BY <1>2, <1>4, <1>6, <1>7, <1>8

LEMMA ApplyStep ==
    ASSUME IInv, NEW w \in Workers, Apply(w)
    PROVE  IInv'
<1>0. WorkersOK /\ QueueOK /\ SalesArePaidByEvents
  BY DEF IInv, TypeOK
<1>1. PICK m \in worker[w].batch :
         /\ sales' = [sales EXCEPT ![SaleOf(m[1])] = Pay(@, m[1])]
         /\ worker' = [worker EXCEPT ![w].pc = "ack", ![w].msg = m]
  BY DEF Apply
<1>2. UNCHANGED <<payments, credit, outbox, queue, redriven, calls, payer>>
  BY DEF Apply, sqs, payments
<1> DEFINE state == [worker[w] EXCEPT !.pc = "ack", !.msg = m]
           s == SaleOf(m[1])
<1>3. m \in Messages /\ queue[m].at # "unsent"
  BY <1>0 DEF IInv, MessagesAreEvents, WorkersOK, WorkerStates
<1>4. s \in Sales
  BY <1>3, SaleOfEvent DEF IInv, MessagesAreEvents, IsEvent
<1>5. /\ state \in WorkerStates /\ state.pc = "ack" /\ state.batch = worker[w].batch
      /\ state.msg = m
  BY <1>0, <1>3 DEF WorkersOK, WorkerStates
<1>6. worker' = [worker EXCEPT ![w] = state]
  BY <1>0, <1>1 DEF WorkersOK
<1> HIDE DEF state, s, Messages
<1>7. \A v \in Workers : worker'[v] = IF v = w THEN state ELSE worker[v]
  BY <1>0, <1>6 DEF WorkersOK
<1>8. WorkersOK' /\ QueueOK'
  BY <1>0, <1>2, <1>5, <1>6, <1>7, m \in worker[w].batch DEF WorkersOK, QueueOK
<1>9. sales' = [sales EXCEPT ![s] = Pay(@, m[1])] /\ s = SaleOf(m[1])
  BY <1>1 DEF s
<1>10. /\ m[1] \in credit[s] /\ sales'[s].status = "PAID"
       /\ \A t \in Sales : sales[t].event # NULL =>
              sales'[t].event = sales[t].event /\ sales'[t].status = sales[t].status
       /\ PayersOK' /\ SalesArePaidByEvents'
  BY <1>2, <1>4, <1>9, ApplyEffect
<1>11. IsPaidBy(m[1])'
  BY <1>2, <1>4, <1>10 DEF IsPaidBy
<1>12. \A t \in Sales : sales[t].status = "PAID" => sales'[t].status = "PAID"
  BY <1>0, <1>10 DEF SalesArePaidByEvents
<1>13. \A v \in Workers :
          \/ worker'[v] = worker[v]
          \/ /\ \A n \in worker'[v].batch : queue[n].at # "unsent"
             /\ worker'[v].pc = "ack" =>
                   \E n \in worker'[v].batch : worker'[v].msg = n /\ IsPaidBy(n[1])'
  BY <1>5, <1>7, <1>11 DEF IInv, MessagesAreEvents
<1>14. \A n \in Messages : /\ (queue'[n].at = "unsent") = (queue[n].at = "unsent")
                           /\ queue[n].at \in {"queued", "dead", "expired"} =>
                                 \/ queue'[n].at \in {"queued", "dead", "expired"}
                                 \/ IsPaidBy(n[1])
  BY <1>2
<1> QED BY <1>2, <1>8, <1>10, <1>12, <1>13, <1>14, ConsumerOnlyStep

LEMMA ApplyFailsStep ==
    ASSUME IInv, NEW w \in Workers, ApplyFails(w)
    PROVE  IInv'
<1>0. WorkersOK /\ QueueOK
  BY DEF IInv, TypeOK
<1>1. PICK m \in worker[w].batch : worker' = [worker EXCEPT ![w] = Left(w, m)]
  BY DEF ApplyFails
<1>2. /\ worker[w].pc # "idle"
      /\ UNCHANGED <<payments, outbox, queue, redriven, sales, calls, payer>>
  BY DEF ApplyFails, sqs
<1>3. QueueOK'
  BY <1>0, <1>2 DEF QueueOK
<1> QED BY <1>0, <1>1, <1>2, <1>3, LeftType, WorkerGoesOn

(* Only what POS has applied is deleted.                                   *)
LEMMA AckStep ==
    ASSUME IInv, NEW w \in Workers, Ack(w)
    PROVE  IInv'
<1>0. WorkersOK /\ QueueOK
  BY DEF IInv, TypeOK
<1> DEFINE m == worker[w].msg
<1>1. /\ worker[w].pc = "ack" /\ worker' = [worker EXCEPT ![w] = Left(w, m)]
      /\ UNCHANGED <<payments, outbox, redriven, sales, calls, payer>>
  BY DEF Ack
<1>2. m \in worker[w].batch /\ IsPaidBy(m[1])
  BY <1>1 DEF IInv, WorkersApply
<1>3. m \in Messages /\ queue[m].at # "unsent"
  BY <1>0, <1>2 DEF IInv, MessagesAreEvents, WorkersOK, WorkerStates
<1>4. \/ queue' = [queue EXCEPT ![m].at = IF @ = "queued" THEN "deleted" ELSE @]
      \/ UNCHANGED queue
  BY DEF Ack
<1> HIDE DEF m, Messages
<1>5. QueueOK'
  BY <1>0, <1>1, <1>3, <1>4 DEF QueueOK
<1>6. \A n \in Messages : \/ queue'[n] = queue[n]
                          \/ /\ queue[n].at # "unsent" /\ queue'[n].at # "unsent"
                             /\ IsPaidBy(n[1])
  BY <1>0, <1>2, <1>3, <1>4 DEF QueueOK
<1> QED BY <1>0, <1>1, <1>5, <1>6, LeftType, WorkerGoesOn

LEMMA CrashWorkerStep ==
    ASSUME IInv, NEW w \in Workers, CrashWorker(w)
    PROVE  IInv'
<1>0. WorkersOK /\ QueueOK
  BY DEF IInv, TypeOK
<1>1. /\ worker' = [worker EXCEPT ![w] = IdleWorker]
      /\ UNCHANGED <<payments, outbox, queue, redriven, sales, calls, payer>>
  BY DEF CrashWorker, sqs
<1>2. /\ IdleWorker \in WorkerStates /\ IdleWorker.batch = {} /\ IdleWorker.pc = "idle"
      /\ QueueOK'
  BY <1>0, <1>1 DEF IdleWorker, WorkerStates, QueueOK
<1> HIDE DEF IdleWorker
<1> QED BY <1>1, <1>2, WorkerGoesOn

(* The DLQ, a redrive and the retention period keep a message in sight.    *)
LEMMA QueueStepKeeps ==
    ASSUME IInv, NEW m \in Messages, QueueStep(m)
    PROVE  IInv'
<1>0. WorkersOK /\ QueueOK /\ PayersOK /\ SalesArePaidByEvents /\ MaxReceives \in Nat
      /\ Redrives \in Nat
  BY ConstantsAssumption DEF IInv, TypeOK
<1>1. UNCHANGED <<payments, credit, outbox, sales, calls, payer, worker>>
  BY DEF QueueStep, DeadLetter, Redrive, Expire, pos, payments
<1> HIDE DEF Messages
<1>2. /\ QueueOK'
      /\ \A n \in Messages :
            \/ queue'[n] = queue[n]
            \/ queue[n].at # "unsent" /\ queue'[n].at \in {"queued", "dead", "expired"}
  <2>1. CASE DeadLetter(m)
    BY <1>0, <2>1 DEF DeadLetter, Queued, QueueOK
  <2>2. CASE Redrive(m)
    BY <1>0, <2>2 DEF Redrive, QueueOK
  <2>3. CASE Expire(m)
    BY <1>0, <2>3 DEF Expire, Queued, QueueOK
  <2> QED BY <2>1, <2>2, <2>3 DEF QueueStep
<1>3. WorkersOK' /\ PayersOK' /\ SalesArePaidByEvents'
  BY <1>0, <1>1 DEF WorkersOK, PayersOK, SalesArePaidByEvents
<1>4. \A n \in Messages : /\ (queue'[n].at = "unsent") = (queue[n].at = "unsent")
                          /\ queue[n].at \in {"queued", "dead", "expired"} =>
                                \/ queue'[n].at \in {"queued", "dead", "expired"}
                                \/ IsPaidBy(n[1])
  BY <1>2
<1> QED BY <1>1, <1>2, <1>3, <1>4, ConsumerOnlyStep

-----------------------------------------------------------------------------
(* The whole system. *)

LEMMA StutterStep ==
    ASSUME IInv, UNCHANGED vars
    PROVE  IInv'
<1>1. Payments!Next \/ UNCHANGED payments
  BY DEF vars, payments
<1>2. calls' \in SUBSET calls /\ UNCHANGED <<outbox, sqs, sales, payer, worker>>
  BY DEF vars, outbox, sqs
<1> QED BY <1>1, <1>2, PaymentsStep

LEMMA NextIInv == IInv /\ [Next]_vars => IInv'
<1> SUFFICES ASSUME IInv, [Next]_vars PROVE IInv'
  OBVIOUS
<1>1. ASSUME NEW r \in Relays, RelayStep(r)
      PROVE  IInv'
  BY <1>1, StartRelayStep, MarkStep, CrashRelayStep, SendStep, SendFailsStep DEF RelayStep
<1>2. ASSUME NEW w \in Workers, WorkerStep(w)
      PROVE  IInv'
  BY <1>2, ReceiveStep, ApplyStep, ApplyFailsStep, AckStep, CrashWorkerStep DEF WorkerStep
<1>3. CASE \/ \E h \in Payers : PayerStep(h)
           \/ \E s \in Sales : ServeCall(s)
  BY <1>3, PayerStepKeeps, ServeCallStep
<1>4. CASE \/ \E s \in Sales : Resolve(s)
           \/ \E S \in SUBSET Sales : GiveUp(S)
  BY <1>4, OwnAccordStep
<1>5. CASE \E m \in Messages : QueueStep(m)
  BY <1>5, QueueStepKeeps
<1>6. CASE UNCHANGED vars
  BY <1>6, StutterStep
<1> QED BY <1>1, <1>2, <1>3, <1>4, <1>5, <1>6 DEF Next

(* The inductive invariant: payments, outbox, queue and consumer together. *)
THEOREM SaleDeliveryInvariant == Spec => []IInv
BY InitIInv, NextIInv, PTL DEF Spec

(* Every variable holds values of its kind, and whoever is under way has   *)
(* something to do.                                                        *)
THEOREM DeliveryTypeCorrect == Spec => []TypeOK
<1>1. IInv => TypeOK
  BY DEF IInv
<1> QED BY <1>1, SaleDeliveryInvariant, PTL

(* A PAID sale was settled by Payments, with the event it was paid by.     *)
THEOREM PaidOnlyIfSettled == Spec => []PaidWasSettled
BY SaleDeliveryInvariant, IInvSettled, PTL

(* The event of a settled sale is in the outbox, in the queue or in the    *)
(* DLQ until POS has applied it, unless it outlived the retention period.  *)
THEOREM EventNeverLost == Spec => []NoSaleLost
BY SaleDeliveryInvariant, IInvNotLost, PTL

(* No step takes a payment back or puts another event in its place, a      *)
(* charge id that is stored late included.                                 *)
THEOREM PaymentNeverUndone == Spec => PaidIsKept
<1> DEFINE Kept == \A s \in Sales : sales[s].status = "PAID" =>
                      sales'[s].status = "PAID" /\ sales'[s].event = sales[s].event
<1>1. ASSUME IInv, [Next]_vars
      PROVE  [Kept]_vars
  <2>0. PayersOK /\ SalesArePaidByEvents
    BY <1>1 DEF IInv, TypeOK
  <2>1. CASE UNCHANGED sales
    BY <2>1
  <2>2. ASSUME NEW h \in Payers, StoreCharge(h)
        PROVE  Kept
    BY <2>0, <2>2 DEF StoreCharge, Charged, PayersOK
  <2>3. ASSUME NEW w \in Workers, Apply(w)
        PROVE  Kept
    <3>1. PICK m \in worker[w].batch : sales' = [sales EXCEPT ![SaleOf(m[1])] = Pay(@, m[1])]
      BY <2>3 DEF Apply
    <3>2. \A t \in Sales : sales[t].event # NULL => sales'[t] = sales[t]
      BY <2>0, <3>1 DEF Pay, PayersOK
    <3> QED BY <2>0, <3>2 DEF SalesArePaidByEvents
  <2>4. \/ UNCHANGED sales
        \/ \E h \in Payers : StoreCharge(h)
        \/ \E w \in Workers : Apply(w)
    BY <1>1 DEF Next, vars, pos, PayerStep, StartPay, Accepted, EndPay, ServeCall, Resolve,
                GiveUp, RelayStep, StartRelay, Mark, CrashRelay, Send, SendFails, WorkerStep,
                Receive, ApplyFails, Ack, CrashWorker, QueueStep, DeadLetter, Redrive, Expire
  <2> QED BY <2>1, <2>2, <2>3, <2>4
<1> QED BY <1>1, SaleDeliveryInvariant, PTL DEF Spec, PaidIsKept
=============================================================================
