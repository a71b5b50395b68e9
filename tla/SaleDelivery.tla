----------------------------- MODULE SaleDelivery -----------------------------
(***************************************************************************)
(* From a settled charge to a PAID sale: POS asks Payments for a charge,   *)
(* Payments settles it and writes sale.paid to its outbox, the relay sends *)
(* the event to SQS, and POS's consumer marks the sale PAID.               *)
(*                                                                         *)
(* Payments is the abstract ChargeLedger, which Charges implements.  SQS is*)
(* a standard queue: a message may be received more than once and in any   *)
(* order, until it is deleted or has been received too often.              *)
(***************************************************************************)
EXTENDS Integers, FiniteSets

CONSTANTS
    Sales,
    ChargeIds,     \* charge ids; a sale.paid event is named by its charge
    Payers,        \* concurrent POST /sales/:id/pay handlers
    Relays,        \* the outbox timers of the Payments tasks
    Workers,       \* sale.paid consumer processes
    Copies,        \* bound: how often one event may be sent
    MaxReceives,   \* maxReceiveCount of the queue's redrive policy
    Retention,     \* whether the queue may outlive its retention period
    Redrives,      \* bound: how many messages an operator moves out of the DLQ
    NULL

ASSUME ConstantsAssumption ==
    /\ NULL \notin Sales \cup ChargeIds
    /\ MaxReceives \in Nat \ {0}
    /\ Retention \in BOOLEAN
    /\ Redrives \in Nat

Messages == ChargeIds \X Copies

VARIABLES
    payment, credit,   \* Payments, as ChargeLedger
    published,         \* the outbox rows with published_at set
    relay,             \* the local state of the relays
    queue,             \* where each message is, and how often it was received
    redriven,          \* how many messages came out of the DLQ
    sales,             \* POS: status, charge_id and the event that paid it
    calls,             \* POST /charges requests on their way
    payer, worker      \* the local state of POS's handlers

vars == <<payment, credit, published, relay, queue, redriven, sales, calls, payer, worker>>

payments == <<payment, credit>>
outbox == <<published, relay>>
sqs == <<queue, redriven>>
pos == <<sales, calls, payer, worker>>

Payments == INSTANCE ChargeLedger WITH state <- payment, credit <- credit

Outbox == UNION {credit[s] : s \in Sales}
SaleOf(c) == CHOOSE s \in Sales : c \in credit[s]

IdleRelay == [pc |-> "idle", batch |-> {}, row |-> NULL]
IdleWorker == [pc |-> "idle", batch |-> {}, msg |-> NULL]
IdlePayer == [pc |-> "idle", sale |-> NULL]
-----------------------------------------------------------------------------
(* POST /sales/:id/pay. *)

(* paySale refuses a sale that is not UNPAID, answers PENDING by itself to *)
(* a sale with a charge_id, and asks Payments otherwise.                   *)
StartPay(h, s) ==
    /\ payer[h].pc = "idle"
    /\ sales[s].status = "UNPAID"
    /\ ~sales[s].charged
    /\ payer' = [payer EXCEPT ![h] = [pc |-> "wait", sale |-> s]]
    /\ calls' = calls \cup {s}
    /\ UNCHANGED <<payments, outbox, sqs, sales, worker>>

(* Payments opens a charge for the sale, or finds the one it has.  The call*)
(* may be served after its caller gave it up.                              *)
ServeCall(s) ==
    /\ s \in calls
    /\ calls' = calls \ {s}
    /\ IF payment[s] = "none" THEN Payments!Open(s) ELSE UNCHANGED payments
    /\ UNCHANGED <<outbox, sqs, sales, payer, worker>>

(* A 2xx carries the id of the charge. *)
Accepted(h) ==
    /\ payer[h].pc = "wait"
    /\ payment[payer[h].sale] # "none"
    /\ payer' = [payer EXCEPT ![h].pc = "store"]
    /\ UNCHANGED <<payments, outbox, sqs, sales, calls, worker>>

(* UPDATE sales SET charge_id, whatever became of the sale meanwhile.      *)
(* Mutants: the 202 is taken for a payment; the sale is written back as it *)
(* was read.                                                               *)
ChargedAndPaid(sale) == [sale EXCEPT !.charged = TRUE, !.status = "PAID"]
ChargedAsRead(sale) == [sale EXCEPT !.charged = TRUE, !.status = "UNPAID"]

Charged(sale) == [sale EXCEPT !.charged = TRUE]

StoreCharge(h) ==
    /\ payer[h].pc = "store"
    /\ sales' = [sales EXCEPT ![payer[h].sale] = Charged(@)]
    /\ payer' = [payer EXCEPT ![h] = IdlePayer]
    /\ UNCHANGED <<payments, outbox, sqs, calls, worker>>

(* No answer, an error, or the end of the task: the sale is left as it is. *)
EndPay(h) ==
    /\ payer[h].pc # "idle"
    /\ payer' = [payer EXCEPT ![h] = IdlePayer]
    /\ UNCHANGED <<payments, outbox, sqs, sales, calls, worker>>

-----------------------------------------------------------------------------
(* relayOnce, under the advisory lock. *)

StartRelay(r) ==
    /\ \A q \in Relays : relay[q].pc = "idle"
    /\ Outbox \ published # {}
    /\ relay' = [relay EXCEPT ![r].pc = "send", ![r].batch = Outbox \ published]
    /\ UNCHANGED <<payments, published, sqs, pos>>

(* Mutant: the lock is not given back at the end of the batch. *)
RestLocked(r, c) == [IdleRelay EXCEPT !.pc = "send", !.batch = relay[r].batch \ {c}]

(* What is left of the relay's batch once row c is dealt with. *)
Rest(r, c) == IF relay[r].batch = {c} THEN IdleRelay
              ELSE [IdleRelay EXCEPT !.pc = "send", !.batch = relay[r].batch \ {c}]

Enqueue(c) ==
    \E n \in Copies :
        /\ queue[<<c, n>>].at = "unsent"
        /\ queue' = [queue EXCEPT ![<<c, n>>].at = "queued"]

(* Mutant: the row is marked before it is sent. *)
MarkFirst(r, c) ==
    /\ relay[r].pc = "send" /\ c \in relay[r].batch
    /\ published' = published \cup {c}
    /\ relay' = [relay EXCEPT ![r] = Rest(r, c)]
    /\ UNCHANGED <<payments, sqs, pos>>

(* publisher.publish returns. *)
Send(r, c) ==
    /\ relay[r].pc = "send" /\ c \in relay[r].batch
    /\ Enqueue(c)
    /\ relay' = [relay EXCEPT ![r].pc = "mark", ![r].row = c]
    /\ UNCHANGED <<payments, published, redriven, pos>>

(* publisher.publish throws, with or without SQS having the message; the   *)
(* row is left for another pass.                                           *)
SendFails(r, c) ==
    /\ relay[r].pc = "send" /\ c \in relay[r].batch
    /\ Enqueue(c) \/ UNCHANGED queue
    /\ relay' = [relay EXCEPT ![r] = Rest(r, c)]
    /\ UNCHANGED <<payments, published, redriven, pos>>

(* UPDATE outbox_events SET published_at; if it throws, the row stays. *)
Mark(r) ==
    /\ relay[r].pc = "mark"
    /\ published' \in {published, published \cup {relay[r].row}}
    /\ relay' = [relay EXCEPT ![r] = Rest(r, relay[r].row)]
    /\ UNCHANGED <<payments, sqs, pos>>

CrashRelay(r) ==
    /\ relay[r].pc # "idle"
    /\ relay' = [relay EXCEPT ![r] = IdleRelay]
    /\ UNCHANGED <<payments, published, sqs, pos>>

-----------------------------------------------------------------------------
(* The consumer: runOnce of salePaidConsumer. *)

Queued(m) == queue[m].at = "queued"

(* ReceiveMessage, of some of the messages.  One that another worker holds *)
(* may come too, its visibility timeout having run out.                    *)
Receive(w, batch) ==
    /\ worker[w].pc = "idle"
    /\ batch # {}
    /\ \A m \in batch : Queued(m) /\ queue[m].receives < MaxReceives
    /\ queue' = [m \in Messages |->
           IF m \in batch THEN [queue[m] EXCEPT !.receives = @ + 1] ELSE queue[m]]
    /\ worker' = [worker EXCEPT ![w].pc = "apply", ![w].batch = batch]
    /\ UNCHANGED <<payments, outbox, redriven, sales, calls, payer>>

Left(w, m) == IF worker[w].batch = {m} THEN IdleWorker
              ELSE [IdleWorker EXCEPT !.pc = "apply", !.batch = worker[w].batch \ {m}]

(* applySalePaid, one transaction: the dedupe row and the sale. *)
Pay(sale, c) ==
    IF sale.event # NULL THEN sale
    ELSE [sale EXCEPT !.status = "PAID", !.event = c]

Apply(w) ==
    /\ worker[w].pc = "apply"
    /\ \E m \in worker[w].batch :
          LET s == SaleOf(m[1]) IN
          /\ sales' = [sales EXCEPT ![s] = Pay(@, m[1])]
          /\ worker' = [worker EXCEPT ![w].pc = "ack", ![w].msg = m]
    /\ UNCHANGED <<payments, outbox, sqs, calls, payer>>

(* The transaction fails: the message is left un-acked. *)
ApplyFails(w) ==
    /\ worker[w].pc = "apply"
    /\ \E m \in worker[w].batch : worker' = [worker EXCEPT ![w] = Left(w, m)]
    /\ UNCHANGED <<payments, outbox, sqs, sales, calls, payer>>

(* DeleteMessage; it may fail, or come with a receipt that has expired. *)
Ack(w) ==
    LET m == worker[w].msg IN
    /\ worker[w].pc = "ack"
    /\ \/ queue' = [queue EXCEPT ![m].at = IF @ = "queued" THEN "deleted" ELSE @]
       \/ UNCHANGED queue
    /\ worker' = [worker EXCEPT ![w] = Left(w, m)]
    /\ UNCHANGED <<payments, outbox, redriven, sales, calls, payer>>

CrashWorker(w) ==
    /\ worker[w].pc # "idle"
    /\ worker' = [worker EXCEPT ![w] = IdleWorker]
    /\ UNCHANGED <<payments, outbox, sqs, sales, calls, payer>>

-----------------------------------------------------------------------------
(* The queue itself, and the operator. *)

DeadLetter(m) ==
    /\ Queued(m) /\ queue[m].receives = MaxReceives
    /\ queue' = [queue EXCEPT ![m].at = "dead"]
    /\ UNCHANGED <<payments, outbox, redriven, pos>>

Redrive(m) ==
    /\ queue[m].at = "dead" /\ redriven < Redrives
    /\ queue' = [queue EXCEPT ![m] = [at |-> "queued", receives |-> 0]]
    /\ redriven' = redriven + 1
    /\ UNCHANGED <<payments, outbox, pos>>

(* message_retention_seconds: an old message is dropped, not dead-lettered.*)
Expire(m) ==
    /\ Retention
    /\ Queued(m)
    /\ queue' = [queue EXCEPT ![m].at = "expired"]
    /\ UNCHANGED <<payments, outbox, redriven, pos>>

(* What Payments does of its own accord. *)
Resolve(s) ==
    /\ Payments!Settle(s) \/ Payments!Fail(s)
    /\ UNCHANGED <<outbox, sqs, pos>>

GiveUp(S) ==
    /\ S # {}
    /\ Payments!Abandon(S)
    /\ UNCHANGED <<outbox, sqs, pos>>
-----------------------------------------------------------------------------

Init ==
    /\ Payments!Init
    /\ published = {}
    /\ relay = [r \in Relays |-> IdleRelay]
    /\ queue = [m \in Messages |-> [at |-> "unsent", receives |-> 0]]
    /\ redriven = 0
    /\ sales = [s \in Sales |-> [status |-> "UNPAID", charged |-> FALSE, event |-> NULL]]
    /\ calls = {}
    /\ payer = [h \in Payers |-> IdlePayer]
    /\ worker = [w \in Workers |-> IdleWorker]

PayerStep(h) ==
    \/ \E s \in Sales : StartPay(h, s)
    \/ Accepted(h) \/ StoreCharge(h) \/ EndPay(h)

RelayStep(r) ==
    \/ StartRelay(r) \/ Mark(r) \/ CrashRelay(r)
    \/ \E c \in ChargeIds : Send(r, c) \/ SendFails(r, c)

WorkerStep(w) ==
    \/ \E batch \in SUBSET Messages : Receive(w, batch)
    \/ Apply(w) \/ ApplyFails(w) \/ Ack(w) \/ CrashWorker(w)

QueueStep(m) == DeadLetter(m) \/ Redrive(m) \/ Expire(m)

Next ==
    \/ \E h \in Payers : PayerStep(h)
    \/ \E s \in Sales : ServeCall(s) \/ Resolve(s)
    \/ \E S \in SUBSET Sales : GiveUp(S)
    \/ \E r \in Relays : RelayStep(r)
    \/ \E w \in Workers : WorkerStep(w)
    \/ \E m \in Messages : QueueStep(m)

Spec == Init /\ [][Next]_vars

(* The timer ticks and the consumer polls for as long as they run; a send  *)
(* and a transaction succeed now and then; no call hangs for ever; SQS     *)
(* delivers, or dead-letters.                                              *)
Fairness ==
    /\ WF_vars(\E r \in Relays : StartRelay(r))
    /\ \A c \in ChargeIds : SF_vars(\E r \in Relays : Send(r, c))
    /\ \A r \in Relays : WF_vars(Mark(r) \/ \E c \in ChargeIds : Send(r, c) \/ SendFails(r, c))
    /\ \A m \in Messages :
          /\ SF_vars(\E w \in Workers, batch \in SUBSET Messages :
                 m \in batch /\ Receive(w, batch))
          /\ WF_vars(DeadLetter(m))
    /\ \A w \in Workers : SF_vars(Apply(w)) /\ WF_vars(Ack(w))

FairSpec == Spec /\ Fairness
-----------------------------------------------------------------------------
(* Every variable holds values of its kind; a relay or a worker that is    *)
(* under way has something to do, and no message is received too often.    *)
RelayStates == [pc: {"idle", "send", "mark"}, batch: SUBSET ChargeIds,
                row: ChargeIds \cup {NULL}]

RelaysOK ==
    /\ published \subseteq ChargeIds
    /\ relay \in [Relays -> RelayStates]
    /\ \A r \in Relays : (relay[r].pc = "idle") = (relay[r].batch = {})

QueueOK ==
    /\ queue \in [Messages -> [at: {"unsent", "queued", "dead", "deleted", "expired"},
                               receives: 0..MaxReceives]]
    /\ redriven \in 0..Redrives

PayersOK ==
    /\ sales \in [Sales -> [status: {"UNPAID", "PAID"}, charged: BOOLEAN,
                            event: ChargeIds \cup {NULL}]]
    /\ calls \subseteq Sales
    /\ payer \in [Payers -> [pc: {"idle", "wait", "store"}, sale: Sales \cup {NULL}]]

WorkerStates == [pc: {"idle", "apply", "ack"}, batch: SUBSET Messages,
                 msg: Messages \cup {NULL}]

WorkersOK ==
    /\ worker \in [Workers -> WorkerStates]
    /\ \A w \in Workers : (worker[w].pc = "idle") = (worker[w].batch = {})

TypeOK == Payments!TypeOK /\ RelaysOK /\ QueueOK /\ PayersOK /\ WorkersOK

(* POS shows a sale PAID only on the event of a charge Payments settled for*)
(* that sale, never on the answer to a call.                               *)
PaidWasSettled ==
    \A s \in Sales : sales[s].status = "PAID" =>
        payment[s] = "paid" /\ sales[s].event \in credit[s]

(* applySalePaid is the only writer of the status: a charge id stored late,*)
(* after the customer has paid, does not undo the payment, and no second   *)
(* event changes what paid the sale.                                       *)
PaidIsKept ==
    [][\A s \in Sales : sales[s].status = "PAID" => sales'[s].status = "PAID"
                          /\ sales'[s].event = sales[s].event]_vars

(* "Never at-most-once": between the outbox row, the queue and the DLQ the *)
(* event of a settled sale is somewhere until POS has applied it: relay and*)
(* consumer may lose it neither by a crash nor by an early mark or ack,    *)
(* only the queue by its retention period.                                 *)
NoSaleLost ==
    \A s \in Sales : payment[s] = "paid" =>
        \/ sales[s].status = "PAID"
        \/ \E c \in credit[s] :
              \/ c \notin published
              \/ \E n \in Copies : queue[<<c, n>>].at \in {"queued", "dead", "expired"}

(* A settled sale is eventually shown PAID, unless its event ended in the  *)
(* DLQ, for an operator to see, or outlived the retention period.          *)
EventuallyPaid ==
    \A s \in Sales :
        payment[s] = "paid" ~>
            \/ sales[s].status = "PAID"
            \/ \E m \in Messages : m[1] \in credit[s] /\ queue[m].at \in {"dead", "expired"}
=============================================================================
