-------------------------------- MODULE Payouts --------------------------------
(***************************************************************************)
(* The daily close: the commission worker (and the CLI an operator drills  *)
(* a close with) writes the ledger of a business day and asks Payments for *)
(* one B2C payout per row; Payments asks Daraja, and Daraja's result       *)
(* callback settles the payout and its ledger row.                         *)
(*                                                                         *)
(* A payout's id is its OriginatorConversationID.  Daraja is taken at the  *)
(* word of createPayout's comment: a repeated id is recognised, and makes  *)
(* no second disbursement.                                                 *)
(***************************************************************************)
EXTENDS Integers, FiniteSets

CONSTANTS
    Attendants,    \* the attendants of the day, each one row of the ledger
    PayoutIds,     \* payouts.id: fresh UUIDs, never used twice
    Workers,       \* commission workers, which close under the advisory lock
    Drills,        \* CLI closes of the same day, which take no lock
    Triggers,      \* deliveries of the schedule, as messages of their own
    Handlers,      \* concurrent POST /payouts handlers
    Amounts,       \* what POS may say an attendant is due; 0: nothing payable
    MaxReceives,   \* maxReceiveCount of the trigger queue
    B2C_MAX_ATTEMPTS,
    NULL

Closers == Workers \cup Drills

ASSUME ConstantsAssumption ==
    /\ NULL \notin Attendants \cup PayoutIds \cup Triggers
    /\ Workers \cap Drills = {}
    /\ IsFiniteSet(Handlers)
    /\ Amounts \subseteq Nat
    /\ MaxReceives \in Nat \ {0}
    /\ B2C_MAX_ATTEMPTS \in Nat \ {0}

VARIABLES
    ledger,    \* payout_ledger, one row per attendant
    payouts,   \* the payouts table
    events,    \* callback_events of kind b2c
    b2c,       \* Daraja's record of each OriginatorConversationID
    trigger,   \* where each trigger is, and how often it was received
    close,     \* the local state of the closes
    calls,     \* POST /payouts requests on their way
    handler    \* the local state of the POST /payouts handlers

vars == <<ledger, payouts, events, b2c, trigger, close, calls, handler>>

commission == <<trigger, close>>
daraja == <<events, b2c>>

NoRow == [status |-> "none", amount |-> 0]
NoPayout == [status |-> "none", row |-> NULL, amount |-> 0, conversation |-> FALSE,
             attempts |-> 0]
NoTransfer == [status |-> "none", amount |-> 0]
NoDues == [a \in Attendants |-> 0]
IdleClose == [pc |-> "idle", trigger |-> NULL, due |-> NoDues, left |-> {}, row |-> NULL]
IdleHandler == [pc |-> "idle", row |-> NULL, payout |-> NULL, amount |-> 0]

(* A result callback names a payout; "wrong_amount" is a success whose     *)
(* TransactionAmount is missing or not the payout's.                       *)
Callbacks == PayoutIds \X {"paid", "wrong_amount", "failed"}

Open(a) == ledger[a].status \in {"COMPUTED", "REQUESTED"}
PayoutOf(a) == {p \in PayoutIds : payouts[p].row = a}

-----------------------------------------------------------------------------
(* runClose, from the worker's runOnce or from the CLI. *)

(* withAdvisoryLock: it is given back before the trigger is acked. *)
LockIsFree == \A w \in Workers : close[w].pc \in {"idle", "ack"}

(* A day nobody sold anything on is closed as it stands. *)
Started(t, due) == [IdleClose EXCEPT !.pc = IF Attendants = {} THEN "ack" ELSE "insert",
                                     !.trigger = t, !.due = due, !.left = Attendants]

(* A trigger that comes while another task holds the lock is left on the   *)
(* queue.                                                                  *)
Receive(w, t) ==
    /\ close[w].pc = "idle"
    /\ trigger[t].at = "queued" /\ trigger[t].receives < MaxReceives
    /\ trigger' = [trigger EXCEPT ![t].receives = @ + 1]
    /\ \/ /\ LockIsFree
          /\ \E due \in [Attendants -> Amounts] :
                close' = [close EXCEPT ![w] = Started(t, due)]
       \/ ~LockIsFree /\ UNCHANGED close
    /\ UNCHANGED <<ledger, payouts, daraja, calls, handler>>

StartDrill(k) ==
    /\ close[k].pc = "idle"
    /\ \E due \in [Attendants -> Amounts] :
          close' = [close EXCEPT ![k] = Started(NULL, due)]
    /\ UNCHANGED <<ledger, payouts, daraja, trigger, calls, handler>>

(* Mutant: the end of the list is not noticed. *)
DoneEndless(k, a) ==
    [close EXCEPT ![k].left = @ \ {a}, ![k].row = NULL, ![k].pc = "insert"]

(* The close of k, done with the row of attendant a. *)
Done(k, a) ==
    [close EXCEPT ![k].left = @ \ {a}, ![k].row = NULL,
                  ![k].pc = IF close[k].left = {a} THEN "ack" ELSE "insert"]

Computed(due) == [status |-> IF due = 0 THEN "SKIPPED" ELSE "COMPUTED", amount |-> due]

(* INSERT ... ON CONFLICT DO NOTHING; mutant: DO UPDATE the amount. *)
Recomputed(row, due) ==
    IF row.status = "none" THEN Computed(due) ELSE [row EXCEPT !.amount = due]

Inserted(row, due) == IF row.status = "none" THEN Computed(due) ELSE row

InsertRow(k) ==
    /\ close[k].pc = "insert"
    /\ \E a \in close[k].left :
          LET due == close[k].due[a] IN
          /\ ledger' = [ledger EXCEPT ![a] = Inserted(@, due)]
          /\ close' = IF due = 0 THEN Done(k, a)
                      ELSE [close EXCEPT ![k].pc = "select", ![k].row = a]
    /\ UNCHANGED <<payouts, daraja, trigger, calls, handler>>

(* Ask for the payout of a row that is still COMPUTED. *)
RequestPayout(k) ==
    LET a == close[k].row IN
    /\ close[k].pc = "select"
    /\ IF ledger[a].status = "COMPUTED"
       THEN /\ calls' = calls \cup {<<k, a>>}
            /\ close' = [close EXCEPT ![k].pc = "wait"]
       ELSE /\ close' = Done(k, a)
            /\ UNCHANGED calls
    /\ UNCHANGED <<ledger, payouts, daraja, trigger, handler>>

(* Accepted, refused or unknown: the close counts it and goes on.  It gives*)
(* a call 30 seconds, and Payments may serve it later still.               *)
PayoutAnswered(k) ==
    /\ close[k].pc = "wait"
    /\ close' = Done(k, close[k].row)
    /\ UNCHANGED <<ledger, payouts, daraja, trigger, calls, handler>>

(* source.ack, after the close; it may fail, and a drill has no trigger. *)
Finish(k) ==
    LET t == close[k].trigger IN
    /\ close[k].pc = "ack"
    /\ \/ /\ t # NULL
          /\ trigger' = [trigger EXCEPT ![t].at = IF @ = "queued" THEN "acked" ELSE @]
       \/ UNCHANGED trigger
    /\ close' = [close EXCEPT ![k] = IdleClose]
    /\ UNCHANGED <<ledger, payouts, daraja, calls, handler>>

(* The close throws, or its task dies: the trigger is left un-acked. *)
Abort(k) ==
    /\ close[k].pc # "idle"
    /\ close' = [close EXCEPT ![k] = IdleClose]
    /\ UNCHANGED <<ledger, payouts, daraja, trigger, calls, handler>>

DeadLetter(t) ==
    /\ trigger[t].at = "queued" /\ trigger[t].receives = MaxReceives
    /\ trigger' = [trigger EXCEPT ![t].at = "dead"]
    /\ UNCHANGED <<ledger, payouts, daraja, close, calls, handler>>

-----------------------------------------------------------------------------
(* POST /payouts: createPayout, then sendB2C. *)

(* A payout that is PENDING, has no ConversationID and attempts left is    *)
(* sent again.                                                             *)
Resendable(p) ==
    /\ payouts[p].status = "PENDING"
    /\ ~payouts[p].conversation
    /\ payouts[p].attempts < B2C_MAX_ATTEMPTS

LookUp(h, call) ==
    LET a == call[2] IN
    /\ handler[h].pc = "idle"
    /\ call \in calls
    /\ calls' = calls \ {call}
    /\ \/ /\ PayoutOf(a) = {} /\ ledger[a].amount > 0
          /\ handler' = [handler EXCEPT ![h] =
                 [pc |-> "insert", row |-> a, payout |-> NULL, amount |-> ledger[a].amount]]
       \/ \E p \in PayoutOf(a) :
             handler' = IF Resendable(p)
                 THEN [handler EXCEPT ![h] =
                     [pc |-> "bump", row |-> a, payout |-> p, amount |-> ledger[a].amount]]
                 ELSE handler
    /\ UNCHANGED <<ledger, payouts, daraja, commission>>

(* UNIQUE(ledger_id); mutant: no constraint. *)
NoConstraint(a) == FALSE

HasPayout(a) == PayoutOf(a) # {}

Insert(h) ==
    LET a == handler[h].row IN
    /\ handler[h].pc = "insert"
    /\ \/ /\ HasPayout(a)
          /\ handler' = [handler EXCEPT ![h] = IdleHandler]
          /\ UNCHANGED payouts
       \/ /\ ~HasPayout(a)
          /\ \E p \in PayoutIds :
                /\ payouts[p].status = "none"
                /\ payouts' = [payouts EXCEPT ![p] = [NoPayout EXCEPT
                       !.status = "PENDING", !.row = a, !.amount = handler[h].amount]]
                /\ handler' = [handler EXCEPT ![h].pc = "bump", ![h].payout = p]
    /\ UNCHANGED <<ledger, daraja, commission, calls>>

Bump(h) ==
    /\ handler[h].pc = "bump"
    /\ payouts' = [payouts EXCEPT ![handler[h].payout].attempts = @ + 1]
    /\ handler' = [handler EXCEPT ![h].pc = "send"]
    /\ UNCHANGED <<ledger, daraja, commission, calls>>

(* adapter.b2cPayment: an ack, a refusal of this request, or no answer,    *)
(* with or without the request having reached Daraja.                      *)
Send(h) ==
    LET p == handler[h].payout IN
    /\ handler[h].pc = "send"
    /\ \E answer \in {"acked", "rejected", "uncertain"}, reached \in BOOLEAN :
          /\ answer = "acked" => reached
          /\ answer = "rejected" => ~reached
          /\ handler' = [handler EXCEPT ![h].pc = answer]
          /\ b2c' = IF reached /\ b2c[p].status = "none"
                    THEN [b2c EXCEPT ![p] = [status |-> "processing",
                                             amount |-> handler[h].amount]]
                    ELSE b2c
    /\ UNCHANGED <<ledger, payouts, events, commission, calls>>

(* Store the ConversationID, whatever the payout has become; then ...      *)
StoreAck(h) ==
    /\ handler[h].pc = "acked"
    /\ payouts' = [payouts EXCEPT ![handler[h].payout].conversation = TRUE]
    /\ handler' = [handler EXCEPT ![h].pc = "requested"]
    /\ UNCHANGED <<ledger, daraja, commission, calls>>

(* Mutant: ... the ledger row is overwritten. *)
RequestedAnyway(row) == [row EXCEPT !.status = "REQUESTED"]

(* ... a row that is still COMPUTED is REQUESTED. *)
Requested(row) ==
    IF row.status = "COMPUTED" THEN [row EXCEPT !.status = "REQUESTED"] ELSE row

MarkRequested(h) ==
    /\ handler[h].pc = "requested"
    /\ ledger' = [ledger EXCEPT ![handler[h].row] = Requested(@)]
    /\ handler' = [handler EXCEPT ![h] = IdleHandler]
    /\ UNCHANGED <<payouts, daraja, commission, calls>>

(* MpesaRejectedError: the payout is FAILED unless it is settled, and then,*)
(* in a statement of its own, so is its row.                               *)
StoreRejection(h) ==
    LET p == handler[h].payout IN
    /\ handler[h].pc = "rejected"
    /\ payouts' = [payouts EXCEPT ![p].status = IF @ = "PENDING" THEN "FAILED" ELSE @]
    /\ handler' = [handler EXCEPT ![h].pc = "failed"]
    /\ UNCHANGED <<ledger, daraja, commission, calls>>

MarkFailed(h) ==
    LET a == handler[h].row IN
    /\ handler[h].pc = "failed"
    /\ ledger' = IF Open(a) THEN [ledger EXCEPT ![a].status = "FAILED"] ELSE ledger
    /\ handler' = [handler EXCEPT ![h] = IdleHandler]
    /\ UNCHANGED <<payouts, daraja, commission, calls>>

(* An uncertain send leaves the payout as it is (I5), and so does the death*)
(* of the task, at any point.                                              *)
EndHandler(h) ==
    /\ handler[h].pc # "idle"
    /\ handler' = [handler EXCEPT ![h] = IdleHandler]
    /\ UNCHANGED <<ledger, payouts, daraja, commission, calls>>

-----------------------------------------------------------------------------
(* Daraja, and POST /callbacks/b2c: applyB2CCallback, one transaction. *)

TransferEnds(p) ==
    /\ b2c[p].status = "processing"
    /\ \E result \in {"success", "failed"} : b2c' = [b2c EXCEPT ![p].status = result]
    /\ UNCHANGED <<ledger, payouts, events, commission, calls, handler>>

CanArrive(p, kind) ==
    \/ kind \in {"paid", "wrong_amount"} /\ b2c[p].status = "success"
    \/ kind = "failed" /\ b2c[p].status = "failed"

(* A success that does not name the payout's amount is not applied; mutant:*)
(* the status of the payout is not looked at.                              *)
SettlesAlways(p, kind) == kind # "wrong_amount"

Settles(p, kind) == kind # "wrong_amount" /\ payouts[p].status = "PENDING"

Callback(p, kind) ==
    LET a == payouts[p].row
        outcome == IF kind = "failed" THEN "FAILED" ELSE "PAID" IN
    /\ CanArrive(p, kind)
    /\ events[<<p, kind>>] = "absent"
    /\ IF Settles(p, kind)
       THEN /\ payouts' = [payouts EXCEPT ![p].status = outcome]
            /\ ledger' = IF Open(a) THEN [ledger EXCEPT ![a].status = outcome] ELSE ledger
            /\ events' = [events EXCEPT ![<<p, kind>>] = "applied"]
       ELSE /\ events' = [events EXCEPT ![<<p, kind>>] = "matched"]
            /\ UNCHANGED <<payouts, ledger>>
    /\ UNCHANGED <<b2c, commission, calls, handler>>

-----------------------------------------------------------------------------

Init ==
    /\ ledger = [a \in Attendants |-> NoRow]
    /\ payouts = [p \in PayoutIds |-> NoPayout]
    /\ events = [cb \in Callbacks |-> "absent"]
    /\ b2c = [p \in PayoutIds |-> NoTransfer]
    /\ trigger = [t \in Triggers |-> [at |-> "queued", receives |-> 0]]
    /\ close = [k \in Closers |-> IdleClose]
    /\ calls = {}
    /\ handler = [h \in Handlers |-> IdleHandler]

CloseStep(k) ==
    \/ InsertRow(k) \/ RequestPayout(k) \/ PayoutAnswered(k) \/ Finish(k) \/ Abort(k)

HandlerStep(h) ==
    \/ \E call \in calls : LookUp(h, call)
    \/ Insert(h) \/ Bump(h) \/ Send(h) \/ StoreAck(h) \/ MarkRequested(h)
    \/ StoreRejection(h) \/ MarkFailed(h) \/ EndHandler(h)

Next ==
    \/ \E w \in Workers, t \in Triggers : Receive(w, t)
    \/ \E k \in Drills : StartDrill(k)
    \/ \E k \in Closers : CloseStep(k)
    \/ \E t \in Triggers : DeadLetter(t)
    \/ \E h \in Handlers : HandlerStep(h)
    \/ \E p \in PayoutIds : TransferEnds(p)
    \/ \E cb \in Callbacks : Callback(cb[1], cb[2])

Spec == Init /\ [][Next]_vars

-----------------------------------------------------------------------------
(* Every variable holds values of its kind, and a handler or a close that  *)
(* is about to write a row has one.                                        *)
TablesOK ==
    /\ ledger \in [Attendants -> [status: {"none", "COMPUTED", "REQUESTED", "PAID",
                                           "FAILED", "SKIPPED"},
                                  amount: Amounts \cup {0}]]
    /\ payouts \in [PayoutIds -> [status: {"none", "PENDING", "PAID", "FAILED"},
                                  row: Attendants \cup {NULL}, amount: Amounts \cup {0},
                                  conversation: BOOLEAN, attempts: Nat]]
    /\ events \in [Callbacks -> {"absent", "matched", "applied"}]
    /\ b2c \in [PayoutIds -> [status: {"none", "processing", "success", "failed"},
                              amount: Amounts \cup {0}]]
    /\ trigger \in [Triggers -> [at: {"queued", "acked", "dead"}, receives: 0..MaxReceives]]
    /\ calls \subseteq Closers \X Attendants

CloseStates == [pc: {"idle", "insert", "select", "wait", "ack"}, trigger: Triggers \cup {NULL},
                due: [Attendants -> Amounts \cup {0}], left: SUBSET Attendants,
                row: Attendants \cup {NULL}]

ClosesOK ==
    /\ close \in [Closers -> CloseStates]
    /\ \A k \in Closers : /\ close[k].pc = "insert" => close[k].left # {}
                          /\ close[k].pc \in {"select", "wait"} => close[k].row \in close[k].left

HandlerStates == [pc: {"idle", "insert", "bump", "send", "acked", "requested", "rejected",
                       "failed", "uncertain"},
                  row: Attendants \cup {NULL}, payout: PayoutIds \cup {NULL},
                  amount: Amounts \cup {0}]

HandlersOK ==
    /\ handler \in [Handlers -> HandlerStates]
    /\ \A h \in Handlers :
          /\ handler[h].pc # "idle" => handler[h].row \in Attendants
          /\ handler[h].pc \notin {"idle", "insert"} =>
                handler[h].payout \in PayoutOf(handler[h].row)

TypeOK == TablesOK /\ ClosesOK /\ HandlersOK

(* I4, "duplicate disbursement = 0": however the triggers are redelivered, *)
(* the closes overlap and the requests race, Daraja is asked to pay a row  *)
(* of the ledger under one OriginatorConversationID.                       *)
OneDisbursement ==
    \A p, q \in PayoutIds :
        b2c[p].status # "none" /\ b2c[q].status # "none" /\ payouts[p].row = payouts[q].row
            => p = q

(* The snapshot taken when the row was computed is what the attendant is   *)
(* paid: no later close, for all POS may say by then, changes the amount on*)
(* its way from the ledger to Daraja.                                      *)
AmountsAgree ==
    \A p \in PayoutIds : b2c[p].status # "none" =>
        b2c[p].amount = payouts[p].amount /\ b2c[p].amount = ledger[payouts[p].row].amount

(* The ledger and the payouts tell one story: a row is PAID exactly when   *)
(* its payout is, Daraja having made the transfer, and FAILED only if its  *)
(* payout is.                                                              *)
LedgerAgrees ==
    \A a \in Attendants :
        /\ ledger[a].status = "PAID" <=> \E p \in PayoutOf(a) : payouts[p].status = "PAID"
        /\ ledger[a].status = "FAILED" => \E p \in PayoutOf(a) : payouts[p].status = "FAILED"
        /\ \A p \in PayoutOf(a) : payouts[p].status = "PAID" => b2c[p].status = "success"

(* PAID, FAILED and SKIPPED rows are final, whatever ack, refusal, result  *)
(* or replay comes late; and no row is computed twice.                     *)
RowsAreFinal ==
    [][\A a \in Attendants :
          /\ ledger[a].status \in {"PAID", "FAILED", "SKIPPED"} =>
                ledger'[a].status = ledger[a].status
          /\ ledger[a].status # "none" => ledger'[a].status # "none"
                                          /\ ledger'[a].amount = ledger[a].amount]_vars

-----------------------------------------------------------------------------
(* What the comments claim, and the code does not keep. *)

(* payoutService.ts, of a refused request: "Definite: nothing was          *)
(* initiated, no money moved."                                             *)
FailedMovedNoMoney ==
    \A p \in PayoutIds : payouts[p].status = "FAILED" => b2c[p].status # "success"
=============================================================================
