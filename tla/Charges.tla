------------------------------- MODULE Charges -------------------------------
(***************************************************************************)
(* The Payments service's STK charge state machine: POST /charges, the STK *)
(* callback handler, the reconciler and the operator endpoints, all running*)
(* concurrently against one Postgres table and one Daraja.                 *)
(*                                                                         *)
(* A handler is cut where the code awaits something another actor can      *)
(* overtake: a statement of its own, a call to Daraja, or the COMMIT of a  *)
(* transaction.  A transaction that has locked the row it is about to      *)
(* change is one step, taken at its commit.                                *)
(*                                                                         *)
(* A charge is pushed at most once (only createCharge pushes), so the      *)
(* CheckoutRequestID Daraja gives the push of charge c is written c.       *)
(***************************************************************************)
EXTENDS Integers, FiniteSets

CONSTANTS
    ChargeIds,        \* charges.id: fresh UUIDs, never used twice
    Sales,            \* the sales POS asks to charge
    Customer,         \* Customer[s]: the (amount_minor, customer_msisdn) of sale s
    Requests,         \* concurrent POST /charges handlers
    Deliveries,       \* concurrent POST /callbacks/stk handlers
    TimerPasses,      \* reconciler passes of the service's tasks, under the advisory lock
    AdminPasses,      \* POST /admin/reconcile passes, which take no lock
    MaxAttempts,      \* RECONCILE_MAX_ATTEMPTS
    ReconcileAfter,   \* RECONCILE_AFTER_MS, in ticks of the clock
    AdoptionWindow,   \* ADOPTION_WINDOW_MS, in ticks of the clock
    PurgeAges,        \* the olderThanMinutes an operator may ask for, in ticks
    MaxClock,         \* bound on the clock
    Confirm,          \* CONFIRM_CALLBACKS: ask Daraja before paying
    Anomalies,        \* callbacks Daraja's own records do not bear out
    NULL

Passes == TimerPasses \cup AdminPasses

ASSUME ConstantsAssumption ==
    /\ NULL \notin ChargeIds \cup Sales
    /\ DOMAIN Customer = Sales
    /\ IsFiniteSet(AdminPasses)
    /\ TimerPasses \cap AdminPasses = {}
    /\ MaxAttempts \in Nat \ {0}
    /\ ReconcileAfter \in Nat
    /\ AdoptionWindow \in Nat
    /\ PurgeAges \subseteq Nat \ {0}
    /\ MaxClock \in Nat
    /\ Confirm \in BOOLEAN
    /\ Anomalies \subseteq {"wrong_amount", "unsupported"}

VARIABLES
    charges,   \* the charges table; a deleted row keeps its sale, for Daraja's sake
    outbox,    \* the charges with a sale.paid row in outbox_events
    events,    \* callback_events: what was recorded of each distinct callback
    mpesa,     \* Daraja's own record of each push
    request, delivery, pass,   \* the local state of the handlers
    clock,     \* time, in units longer than any request takes
    evidence   \* history: what the PAID transition of a charge rested on

vars == <<charges, outbox, events, mpesa, request, delivery, pass, clock, evidence>>

-----------------------------------------------------------------------------
(* Values. *)

Row == [status: {"none", "PENDING", "PAID", "FAILED", "deleted"},
        sale: Sales \cup {NULL},
        ref: ChargeIds \cup {NULL},
        held: BOOLEAN,
        attempts: Nat,
        createdAt: Nat,
        resolvedBy: {"none", "callback", "query"}]

(* Mutant: the column default of reconcile_attempts is missing. *)
RowWithoutDefault == [status |-> "none", sale |-> NULL, ref |-> NULL, held |-> FALSE,
                      attempts |-> -1, createdAt |-> 0, resolvedBy |-> "none"]

NoRow == [status |-> "none", sale |-> NULL, ref |-> NULL, held |-> FALSE,
          attempts |-> 0, createdAt |-> 0, resolvedBy |-> "none"]

(* A callback names a push and claims a result; equal callbacks are the    *)
(* same bytes.  "wrong_amount" is a success whose Amount is not the        *)
(* charge's, nor that of any other charge.                                 *)
Callbacks == [ref: ChargeIds, kind: {"paid", "wrong_amount", "declined"}]

Verdicts == {"confirmed", "contradicted", "unconfirmed", "skipped", "not-required"}

RequestState == [pc: {"idle", "insert", "push", "acked", "rejected", "uncertain"},
                 sale: Sales \cup {NULL}, charge: ChargeIds \cup {NULL}]

DeliveryState == [pc: {"idle", "ask", "record", "adopt", "commit"},
                  cb: Callbacks \cup {NULL}, verdict: Verdicts,
                  charge: ChargeIds \cup {NULL}, adopt: BOOLEAN, sawHold: BOOLEAN]

PassState == [pc: {"idle", "next", "apply"},
              batch: SUBSET (ChargeIds \X (ChargeIds \cup {NULL})),
              charge: ChargeIds \cup {NULL}, answer: {"none", "success", "declined"}]

IdleRequest == [pc |-> "idle", sale |-> NULL, charge |-> NULL]
IdleDelivery == [pc |-> "idle", cb |-> NULL, verdict |-> "not-required",
                 charge |-> NULL, adopt |-> FALSE, sawHold |-> FALSE]
IdlePass == [pc |-> "idle", batch |-> {}, charge |-> NULL, answer |-> "none"]

Exists(c) == charges[c].status \in {"PENDING", "PAID", "FAILED"}
Pending(c) == charges[c].status = "PENDING"
Unheld(c) == Pending(c) /\ ~charges[c].held

(* UNIQUE(sale_id); mutant: an index over the pending charges only. *)
HasPendingCharge(s) == \E c \in ChargeIds : Pending(c) /\ charges[c].sale = s

HasCharge(s) == \E c \in ChargeIds : Exists(c) /\ charges[c].sale = s

(* UNIQUE(checkout_request_id) lets charge c take reference r. *)
RefIsFree(r, c) == \A d \in ChargeIds \ {c} : Exists(d) => charges[d].ref # r

-----------------------------------------------------------------------------
(* POST /charges: createCharge, then pushStk. *)

(* The first SELECT finds no charge for the sale; a hit returns it and     *)
(* changes nothing.                                                        *)
LookUp(p, s) ==
    /\ request[p].pc = "idle"
    /\ ~HasCharge(s)
    /\ request' = [request EXCEPT ![p] = [pc |-> "insert", sale |-> s, charge |-> NULL]]
    /\ UNCHANGED <<charges, outbox, events, mpesa, delivery, pass, clock, evidence>>

(* INSERT ... PENDING; UNIQUE(sale_id) makes the loser of a race return    *)
(* the winner's charge without pushing.                                    *)
Insert(p) ==
    /\ request[p].pc = "insert"
    /\ \/ /\ HasCharge(request[p].sale)
          /\ request' = [request EXCEPT ![p] = IdleRequest]
          /\ UNCHANGED charges
       \/ /\ ~HasCharge(request[p].sale)
          /\ \E c \in ChargeIds :
                /\ charges[c].status = "none"
                /\ charges' = [charges EXCEPT ![c] =
                       [NoRow EXCEPT !.status = "PENDING", !.sale = request[p].sale,
                                     !.createdAt = clock]]
                /\ request' = [request EXCEPT ![p].pc = "push", ![p].charge = c]
    /\ UNCHANGED <<outbox, events, mpesa, delivery, pass, clock, evidence>>

(* adapter.stkPush: an ack, a refusal, or no answer (a timeout, a dropped  *)
(* connection, an unreadable reply), after which Daraja may or may not have*)
(* the push.                                                               *)
Push(p) ==
    /\ request[p].pc = "push"
    /\ \E answer \in {"acked", "rejected", "uncertain"}, reached \in BOOLEAN :
          /\ answer = "acked" => reached
          /\ answer = "rejected" => ~reached
          /\ request' = [request EXCEPT ![p].pc = answer]
          /\ mpesa' = [mpesa EXCEPT ![request[p].charge] =
                          IF reached THEN "processing" ELSE @]
    /\ UNCHANGED <<charges, outbox, events, delivery, pass, clock, evidence>>

(* Store the CheckoutRequestID of the ack.  A late ack, for a charge that  *)
(* has moved on or holds a reference, is only noted; so is one whose       *)
(* reference another charge adopted (the unique violation is a 500).       *)
StoreAck(p) ==
    LET c == request[p].charge IN
    /\ request[p].pc = "acked"
    /\ IF Pending(c) /\ charges[c].ref = NULL /\ RefIsFree(c, c)
       THEN charges' = [charges EXCEPT ![c].ref = c]
       ELSE UNCHANGED charges
    /\ request' = [request EXCEPT ![p] = IdleRequest]
    /\ UNCHANGED <<outbox, events, mpesa, delivery, pass, clock, evidence>>

(* Mutant: a push that timed out is taken for a refused one. *)
RefusedOrUnknown(p) == request[p].pc \in {"rejected", "uncertain"}

Refused(p) == request[p].pc = "rejected"

(* MpesaRejectedError: the charge is FAILED, unless it is resolved.  The   *)
(* hold is not looked at here.                                             *)
StoreRejection(p) ==
    LET c == request[p].charge IN
    /\ Refused(p)
    /\ IF Pending(c)
       THEN charges' = [charges EXCEPT ![c].status = "FAILED"]
       ELSE UNCHANGED charges
    /\ request' = [request EXCEPT ![p] = IdleRequest]
    /\ UNCHANGED <<outbox, events, mpesa, delivery, pass, clock, evidence>>

(* An uncertain push leaves the charge as it is (I5).  A crash of the task *)
(* at any point does too, and the push is not taken up again.              *)
EndRequest(p) ==
    /\ request[p].pc # "idle"
    /\ request' = [request EXCEPT ![p] = IdleRequest]
    /\ UNCHANGED <<charges, outbox, events, mpesa, delivery, pass, clock, evidence>>

-----------------------------------------------------------------------------
(* POST /callbacks/stk: confirmSuccess, then one transaction. *)

CanArrive(cb) ==
    \/ cb.kind = "paid" /\ mpesa[cb.ref] = "success"
    \/ cb.kind = "declined" /\ mpesa[cb.ref] = "declined"
    \/ cb.kind = "wrong_amount" /\ cb.kind \in Anomalies /\ mpesa[cb.ref] = "success"
    \/ cb.kind = "paid" /\ "unsupported" \in Anomalies /\ mpesa[cb.ref] \in {"processing", "declined"}

(* findAdoptableCharge: the charges a success callback of unknown reference*)
(* could belong to.                                                        *)
Adoptable(cb) ==
    {c \in ChargeIds : /\ cb.kind = "paid"
                       /\ Unheld(c)
                       /\ charges[c].ref = NULL
                       /\ Customer[charges[c].sale] = Customer[charges[cb.ref].sale]
                       /\ clock - charges[c].createdAt <= AdoptionWindow}

(* Adoption needs exactly one candidate; mutant: any will do. *)
AnyOf(candidates) == candidates

TheOnly(candidates) == {c \in candidates : candidates = {c}}

(* Mutant: the pre-check does not think of adoption. *)
HoldsReference(cb) == \E c \in ChargeIds : Unheld(c) /\ charges[c].ref = cb.ref

(* The pre-check of confirmSuccess: is there a charge the callback moves?  *)
CouldMove(cb) == HoldsReference(cb) \/ Adoptable(cb) # {}

Receive(d, cb) ==
    /\ delivery[d].pc = "idle"
    /\ CanArrive(cb)
    /\ delivery' = [delivery EXCEPT ![d] = [IdleDelivery EXCEPT
           !.cb = cb,
           !.pc = IF cb.kind # "declined" /\ Confirm /\ CouldMove(cb)
                  THEN "ask" ELSE "record",
           !.verdict = IF cb.kind # "declined" /\ ~Confirm
                       THEN "skipped" ELSE "not-required"]]
    /\ UNCHANGED <<charges, outbox, events, mpesa, request, pass, clock, evidence>>

(* What stkQuery may tell of a push; an error is "unconfirmed", and so is  *)
(* "still processing".                                                     *)
VerdictsOn(ref) ==
    {"unconfirmed"} \cup
        (CASE mpesa[ref] = "success" -> {"confirmed"}
           [] mpesa[ref] = "declined" -> {"contradicted"}
           [] OTHER -> {})

(* stkQuery, outside the transaction. *)
Ask(d) ==
    /\ delivery[d].pc = "ask"
    /\ \E v \in VerdictsOn(delivery[d].cb.ref) :
          delivery' = [delivery EXCEPT ![d].verdict = v, ![d].pc = "record"]
    /\ UNCHANGED <<charges, outbox, events, mpesa, request, pass, clock, evidence>>

(* The dedupe key; mutant: none. *)
NeverSeen(cb) == FALSE

Seen(cb) == events[cb] # "absent"

(* INSERT the callback, then look its reference up.  An INSERT of the same *)
(* bytes waits for the transaction that holds them; a duplicate ends here, *)
(* and so does a callback no charge can be found for.                      *)
Record(d) ==
    LET cb == delivery[d].cb
        holders == {c \in ChargeIds : Exists(c) /\ charges[c].ref = cb.ref} IN
    /\ delivery[d].pc = "record"
    /\ \A e \in Deliveries : delivery[e].pc \in {"adopt", "commit"} => delivery[e].cb # cb
    /\ \/ /\ Seen(cb)
          /\ delivery' = [delivery EXCEPT ![d] = IdleDelivery]
          /\ UNCHANGED events
       \/ /\ ~Seen(cb)
          /\ \E c \in holders :
                delivery' = [delivery EXCEPT ![d].pc = "commit", ![d].charge = c,
                                             ![d].sawHold = charges[c].held]
          /\ UNCHANGED events
       \/ /\ ~Seen(cb) /\ holders = {} /\ cb.kind # "declined"
          /\ delivery' = [delivery EXCEPT ![d].pc = "adopt"]
          /\ UNCHANGED events
       \/ /\ ~Seen(cb) /\ holders = {} /\ cb.kind = "declined"
          /\ delivery' = [delivery EXCEPT ![d] = IdleDelivery]
          /\ events' = [events EXCEPT ![cb] = "unmatched"]
    /\ UNCHANGED <<charges, outbox, mpesa, request, pass, clock, evidence>>

(* No candidate, or several, is "unmatched". *)
Adopt(d) ==
    LET cb == delivery[d].cb IN
    /\ delivery[d].pc = "adopt"
    /\ \/ \E c \in TheOnly(Adoptable(cb)) :
             /\ delivery' = [delivery EXCEPT ![d].pc = "commit", ![d].charge = c,
                                             ![d].adopt = TRUE]
             /\ UNCHANGED events
       \/ /\ TheOnly(Adoptable(cb)) = {}
          /\ delivery' = [delivery EXCEPT ![d] = IdleDelivery]
          /\ events' = [events EXCEPT ![cb] = "unmatched"]
    /\ UNCHANGED <<charges, outbox, mpesa, request, pass, clock, evidence>>

(* The claim UPDATE of an adoption. *)
Claims(c) == Pending(c) /\ charges[c].ref = NULL

(* Mutant of what follows: the guard forgets the hold. *)
ResolveHeld(c, r, paid, by, free) ==
    IF Pending(c) /\ free
    THEN /\ charges' = [charges EXCEPT ![c].ref = r, ![c].resolvedBy = by,
                                       ![c].status = IF paid THEN "PAID" ELSE "FAILED"]
         /\ outbox' = IF paid THEN outbox \cup {c} ELSE outbox
    ELSE UNCHANGED <<charges, outbox>>

(* applyChargeResolution on the row as the transaction finds it, after the *)
(* claim of reference r; `free' says the hold it read earlier was not set. *)
Resolve(c, r, paid, by, free) ==
    IF Unheld(c) /\ free
    THEN /\ charges' = [charges EXCEPT ![c].ref = r, ![c].resolvedBy = by,
                                       ![c].status = IF paid THEN "PAID" ELSE "FAILED"]
         /\ outbox' = IF paid THEN outbox \cup {c} ELSE outbox
    ELSE /\ charges' = [charges EXCEPT ![c].ref = r]
         /\ UNCHANGED outbox

(* The rest of the transaction: it ends with a row matched or applied, or  *)
(* unmatched when the claim lost its charge, or in a rollback when the     *)
(* claim meets a reference another charge has stored.                      *)
CommitUnclaimed(d) ==
    LET c == delivery[d].charge
        cb == delivery[d].cb IN
    /\ delivery[d].pc = "commit"
    /\ delivery[d].adopt
    /\ \/ /\ ~Claims(c)
          /\ events' = [events EXCEPT ![cb] = "unmatched"]
       \/ /\ Claims(c) /\ ~RefIsFree(cb.ref, c)
          /\ UNCHANGED events
    /\ delivery' = [delivery EXCEPT ![d] = IdleDelivery]
    /\ UNCHANGED <<charges, outbox, mpesa, request, pass, clock, evidence>>

Claimed(d) ==
    /\ delivery[d].pc = "commit"
    /\ delivery[d].adopt => /\ Claims(delivery[d].charge)
                            /\ RefIsFree(delivery[d].cb.ref, delivery[d].charge)

(* The amount is not ours: put the charge on hold, apply nothing. *)
CommitHold(d) ==
    LET c == delivery[d].charge IN
    /\ Claimed(d)
    /\ delivery[d].cb.kind = "wrong_amount"
    /\ IF Unheld(c)
       THEN charges' = [charges EXCEPT ![c].held = TRUE]
       ELSE UNCHANGED charges
    /\ events' = [events EXCEPT ![delivery[d].cb] = "matched"]
    /\ delivery' = [delivery EXCEPT ![d] = IdleDelivery]
    /\ UNCHANGED <<outbox, mpesa, request, pass, clock, evidence>>

(* The verdicts that keep a success from being applied; mutant: silence is *)
(* consent.                                                                *)
Denials == {"contradicted"}

Refusals == {"contradicted", "unconfirmed"}

(* Daraja did not bear the success out: keep the claim, apply nothing. *)
CommitRefused(d) ==
    LET c == delivery[d].charge IN
    /\ Claimed(d)
    /\ delivery[d].cb.kind = "paid"
    /\ delivery[d].verdict \in Refusals
    /\ charges' = IF delivery[d].adopt
                  THEN [charges EXCEPT ![c].ref = delivery[d].cb.ref] ELSE charges
    /\ events' = [events EXCEPT ![delivery[d].cb] = "matched"]
    /\ delivery' = [delivery EXCEPT ![d] = IdleDelivery]
    /\ UNCHANGED <<outbox, mpesa, request, pass, clock, evidence>>

(* The guarded transition, with its one ledger effect if it is to PAID. *)
CommitResolve(d) ==
    LET c == delivery[d].charge
        cb == delivery[d].cb
        applies == Unheld(c) /\ ~delivery[d].sawHold IN
    /\ Claimed(d)
    /\ \/ cb.kind = "declined"
       \/ cb.kind = "paid" /\ delivery[d].verdict \notin Refusals
    /\ Resolve(c, IF delivery[d].adopt THEN cb.ref ELSE charges[c].ref,
               cb.kind = "paid", "callback", ~delivery[d].sawHold)
    /\ events' = [events EXCEPT ![cb] = IF applies THEN "applied" ELSE "matched"]
    /\ evidence' = IF applies /\ cb.kind = "paid"
                   THEN [evidence EXCEPT ![c] = delivery[d].verdict] ELSE evidence
    /\ delivery' = [delivery EXCEPT ![d] = IdleDelivery]
    /\ UNCHANGED <<mpesa, request, pass, clock>>

(* The task dies or the transaction fails: it is rolled back, and Daraja   *)
(* may deliver the callback again.                                         *)
CrashDelivery(d) ==
    /\ delivery[d].pc # "idle"
    /\ delivery' = [delivery EXCEPT ![d] = IdleDelivery]
    /\ UNCHANGED <<charges, outbox, events, mpesa, request, pass, clock, evidence>>

-----------------------------------------------------------------------------
(* The reconciler: runReconcileOnce. *)

(* The SELECT of a pass; mutant: it wants a reference to query by. *)
Queryable == {c \in ChargeIds : /\ Unheld(c) /\ charges[c].attempts < MaxAttempts
                                /\ charges[c].ref # NULL
                                /\ clock - charges[c].createdAt >= ReconcileAfter}

Candidates == {c \in ChargeIds : /\ Unheld(c) /\ charges[c].attempts < MaxAttempts
                                 /\ clock - charges[c].createdAt >= ReconcileAfter}

(* withAdvisoryLock: the timer's passes exclude each other, to their end.  *)
LockIsFree(r) == r \in TimerPasses => \A q \in TimerPasses : pass[q].pc = "idle"

StartPass(r) ==
    /\ pass[r].pc = "idle"
    /\ LockIsFree(r)
    /\ Candidates # {}
    /\ pass' = [pass EXCEPT ![r].pc = "next",
                            ![r].batch = {<<c, charges[c].ref>> : c \in Candidates}]
    /\ UNCHANGED <<charges, outbox, events, mpesa, request, delivery, clock, evidence>>

Bump(c) == IF Exists(c) THEN [charges EXCEPT ![c].attempts = @ + 1] ELSE charges

(* What is left of a pass once the charge of entry e is dealt with. *)
After(r, e) == IF pass[r].batch = {e} THEN IdlePass
               ELSE [IdlePass EXCEPT !.pc = "next", !.batch = pass[r].batch \ {e}]

(* No reference when the pass read it, no answer, or "still processing":   *)
(* count the look.                                                         *)
Examine(r) ==
    /\ pass[r].pc = "next"
    /\ \E e \in pass[r].batch :
          /\ charges' = Bump(e[1])
          /\ pass' = [pass EXCEPT ![r] = After(r, e)]
    /\ UNCHANGED <<outbox, events, mpesa, request, delivery, clock, evidence>>

(* stkQuery answers with a final result. *)
Query(r) ==
    /\ pass[r].pc = "next"
    /\ \E e \in pass[r].batch :
          /\ e[2] # NULL
          /\ mpesa[e[2]] \in {"success", "declined"}
          /\ pass' = [pass EXCEPT ![r] =
                 [pc |-> "apply", batch |-> @.batch \ {e}, charge |-> e[1],
                  answer |-> mpesa[e[2]]]]
    /\ UNCHANGED <<charges, outbox, events, mpesa, request, delivery, clock, evidence>>

(* The transaction that counts the query and applies its answer. *)
ApplyAnswer(r) ==
    LET c == pass[r].charge
        paid == pass[r].answer = "success" IN
    /\ pass[r].pc = "apply"
    /\ IF Unheld(c)
       THEN /\ charges' = [charges EXCEPT ![c].attempts = @ + 1, ![c].resolvedBy = "query",
                                          ![c].status = IF paid THEN "PAID" ELSE "FAILED"]
            /\ outbox' = IF paid THEN outbox \cup {c} ELSE outbox
            /\ evidence' = IF paid THEN [evidence EXCEPT ![c] = "confirmed"] ELSE evidence
       ELSE /\ charges' = Bump(c)
            /\ UNCHANGED <<outbox, evidence>>
    /\ pass' = [pass EXCEPT ![r] = IF pass[r].batch = {} THEN IdlePass
                                   ELSE [IdlePass EXCEPT !.pc = "next", !.batch = pass[r].batch]]
    /\ UNCHANGED <<events, mpesa, request, delivery, clock>>

CrashPass(r) ==
    /\ pass[r].pc # "idle"
    /\ pass' = [pass EXCEPT ![r] = IdlePass]
    /\ UNCHANGED <<charges, outbox, events, mpesa, request, delivery, clock, evidence>>

-----------------------------------------------------------------------------
(* The operator's endpoints, Daraja's customer, and time. *)

Release(c) ==
    /\ Pending(c) /\ charges[c].held
    /\ charges' = [charges EXCEPT ![c].held = FALSE, ![c].attempts = 0]
    /\ UNCHANGED <<outbox, events, mpesa, request, delivery, pass, clock, evidence>>

(* The charges with no reference that are older than the cutoff; mutant:   *)
(* whatever their status.                                                  *)
AnyAbandoned(age) == {c \in ChargeIds : /\ Exists(c)
                                        /\ charges[c].ref = NULL
                                        /\ clock - charges[c].createdAt >= age}

Abandoned(age) == {c \in ChargeIds : /\ Unheld(c)
                                     /\ charges[c].ref = NULL
                                     /\ clock - charges[c].createdAt >= age}

(* One DELETE: of all of them, or of those of the tenants it names. *)
PurgeAbandoned(age) ==
    /\ \E purged \in SUBSET Abandoned(age) \ {{}} :
          charges' = [c \in ChargeIds |->
              IF c \in purged THEN [charges[c] EXCEPT !.status = "deleted"] ELSE charges[c]]
    /\ UNCHANGED <<outbox, events, mpesa, request, delivery, pass, clock, evidence>>

CustomerAnswers(c) ==
    /\ mpesa[c] = "processing"
    /\ \E result \in {"success", "declined"} : mpesa' = [mpesa EXCEPT ![c] = result]
    /\ UNCHANGED <<charges, outbox, events, request, delivery, pass, clock, evidence>>

(* A tick is minutes and a handler's calls time out in seconds, so no HTTP *)
(* handler is at work across one.  A reconciler pass may be.               *)
Tick ==
    /\ clock < MaxClock
    /\ \A p \in Requests : request[p].pc = "idle"
    /\ \A d \in Deliveries : delivery[d].pc = "idle"
    /\ clock' = clock + 1
    /\ UNCHANGED <<charges, outbox, events, mpesa, request, delivery, pass, evidence>>

-----------------------------------------------------------------------------

Init ==
    /\ charges = [c \in ChargeIds |-> NoRow]
    /\ outbox = {}
    /\ events = [cb \in Callbacks |-> "absent"]
    /\ mpesa = [c \in ChargeIds |-> "none"]
    /\ request = [p \in Requests |-> IdleRequest]
    /\ delivery = [d \in Deliveries |-> IdleDelivery]
    /\ pass = [r \in Passes |-> IdlePass]
    /\ clock = 0
    /\ evidence = [c \in ChargeIds |-> "none"]

RequestStep(p) ==
    \/ \E s \in Sales : LookUp(p, s)
    \/ Insert(p) \/ Push(p) \/ StoreAck(p) \/ StoreRejection(p) \/ EndRequest(p)

DeliveryStep(d) ==
    \/ \E cb \in Callbacks : Receive(d, cb)
    \/ Ask(d) \/ Record(d) \/ Adopt(d)
    \/ CommitUnclaimed(d) \/ CommitHold(d) \/ CommitRefused(d) \/ CommitResolve(d)
    \/ CrashDelivery(d)

PassStep(r) ==
    StartPass(r) \/ Examine(r) \/ Query(r) \/ ApplyAnswer(r) \/ CrashPass(r)

Next ==
    \/ \E p \in Requests : RequestStep(p)
    \/ \E d \in Deliveries : DeliveryStep(d)
    \/ \E r \in Passes : PassStep(r)
    \/ \E c \in ChargeIds : Release(c)
    \/ \E age \in PurgeAges : PurgeAbandoned(age)
    \/ \E c \in ChargeIds : CustomerAnswers(c)
    \/ Tick

Spec == Init /\ [][Next]_vars

(* The timer ticks for as long as the service runs, and not every pass of  *)
(* it is cut short.                                                        *)
Fairness ==
    \A r \in TimerPasses :
        /\ WF_vars(StartPass(r))
        /\ SF_vars(Examine(r) \/ Query(r))
        /\ SF_vars(ApplyAnswer(r))

FairSpec == Spec /\ Fairness
-----------------------------------------------------------------------------
(* Properties. *)

(* Every variable holds values of its kind, and a handler that is about to *)
(* write a charge or to use a callback has one.                            *)
RowsOK ==
    /\ charges \in [ChargeIds -> Row]
    /\ outbox \subseteq ChargeIds
    /\ events \in [Callbacks -> {"absent", "unmatched", "matched", "applied"}]
    /\ mpesa \in [ChargeIds -> {"none", "processing", "success", "declined"}]
    /\ clock \in 0..MaxClock
    /\ evidence \in [ChargeIds -> {"none"} \cup Verdicts]

RequestsOK ==
    /\ request \in [Requests -> RequestState]
    /\ \A p \in Requests :
          /\ request[p].pc = "insert" => request[p].sale \in Sales
          /\ request[p].pc \in {"push", "acked", "rejected", "uncertain"} =>
                request[p].charge \in ChargeIds

DeliveriesOK ==
    /\ delivery \in [Deliveries -> DeliveryState]
    /\ \A d \in Deliveries :
          /\ delivery[d].pc # "idle" => delivery[d].cb \in Callbacks
          /\ delivery[d].pc = "commit" => delivery[d].charge \in ChargeIds

PassesOK ==
    /\ pass \in [Passes -> PassState]
    /\ \A r \in Passes :
          pass[r].pc = "apply" => /\ pass[r].charge \in ChargeIds
                                  /\ pass[r].answer # "none"

TypeOK == RowsOK /\ RequestsOK /\ DeliveriesOK /\ PassesOK

(* I3, "one ledger effect": a charge has its sale.paid row in the outbox   *)
(* exactly when it is PAID, whichever callbacks and passes raced for it.   *)
LedgerMatchesStatus ==
    \A c \in ChargeIds : c \in outbox <=> charges[c].status = "PAID"

(* PAID and FAILED are terminal: no late callback, ack, pass or operator   *)
(* changes the status, the reference or the resolver of such a charge.     *)
TerminalIsFinal ==
    [][\A c \in ChargeIds : charges[c].status \in {"PAID", "FAILED"} =>
           /\ charges'[c].status = charges[c].status
           /\ charges'[c].ref = charges[c].ref
           /\ charges'[c].resolvedBy = charges[c].resolvedBy]_vars

(* "A held charge is never resolved automatically, by either path": while  *)
(* the hold is set, no callback and no pass resolves the charge, whatever  *)
(* either read of it before.                                               *)
HeldIsFrozen ==
    [][\A c \in ChargeIds : Pending(c) /\ charges[c].held =>
           /\ charges'[c].resolvedBy = charges[c].resolvedBy
           /\ charges'[c].status # "PAID"]_vars

(* I2: whatever requests race and however they are retried, Daraja is asked*)
(* to charge the customer of a sale at most once.                          *)
OnePushPerSale ==
    \A c, d \in ChargeIds :
        mpesa[c] # "none" /\ mpesa[d] # "none" /\ charges[c].sale = charges[d].sale => c = d

(* "Guessing here would credit the wrong sale": the reference a charge     *)
(* holds, by ack or by adoption, is the one of its own push.               *)
AttributionCorrect ==
    \A c \in ChargeIds : Exists(c) => charges[c].ref \in {NULL, c}

(* I5, "a timeout is not a decline": a FAILED charge was declined by the   *)
(* customer or refused by Daraja, never guessed.                           *)
FailedIsDefinite ==
    \A c \in ChargeIds : charges[c].status = "FAILED" =>
        IF charges[c].ref = NULL THEN mpesa[c] = "none"
        ELSE mpesa[charges[c].ref] = "declined"

(* I3, "one legal transition per callback": the callbacks recorded as      *)
(* applied and the charges resolved by a callback match one to one, and    *)
(* agree on the result.                                                    *)
AppliedIsResolution ==
    /\ \A cb \in Callbacks : events[cb] = "applied" =>
           \E c \in ChargeIds :
               /\ charges[c].ref = cb.ref /\ charges[c].resolvedBy = "callback"
               /\ charges[c].status = (IF cb.kind = "paid" THEN "PAID" ELSE "FAILED")
    /\ \A c \in ChargeIds : charges[c].resolvedBy = "callback" =>
           \E cb \in Callbacks :
               {x \in Callbacks : x.ref = charges[c].ref /\ events[x] = "applied"} = {cb}

(* "Before any PAID transition we ask Daraja directly": with confirmation  *)
(* on, a charge is paid only on Daraja's word.  So it is as long as nothing*)
(* was put on hold and no callback comes after the adoption window.        *)
ConfirmedBeforePaid ==
    Confirm => \A c \in ChargeIds : evidence[c] \in {"none", "confirmed"}

(* ... and, inside the adoption window, the only charge ever paid on less  *)
(* was on hold while the callback was pre-checked, and released before its *)
(* transaction ran.                                                        *)
UnconfirmedOnlyAfterHold ==
    Confirm => \A c \in ChargeIds : evidence[c] \notin {"none", "confirmed"} =>
        events[[ref |-> charges[c].ref, kind |-> "wrong_amount"]] = "matched"

(* chargesNeedingAttention, what an operator is shown.                     *)
NeedsAttention(c) == Pending(c) /\ (charges[c].held \/ charges[c].attempts >= MaxAttempts)

(* Nothing is silently stuck: a PENDING charge is eventually resolved,     *)
(* deleted, or shown to an operator.                                       *)
NothingSilentlyStuck ==
    \A c \in ChargeIds : Pending(c) ~> ~Pending(c) \/ NeedsAttention(c)

(* admin.ts of the charges it deletes: "no money moved or can move".       *)
PurgedMovedNoMoney ==
    \A c \in ChargeIds : charges[c].status = "deleted" => mpesa[c] # "success"
-----------------------------------------------------------------------------
(* The abstract view: the payment of each sale. *)

ChargesOf(s) == {c \in ChargeIds : Exists(c) /\ charges[c].sale = s}

SaleState ==
    [s \in Sales |->
        IF \E c \in ChargesOf(s) : charges[c].status = "PAID" THEN "paid"
        ELSE IF \E c \in ChargesOf(s) : charges[c].status = "FAILED" THEN "failed"
        ELSE IF ChargesOf(s) # {} THEN "open" ELSE "none"]

Credits == [s \in Sales |-> {c \in outbox : charges[c].sale = s}]

Ledger == INSTANCE ChargeLedger WITH state <- SaleState, credit <- Credits

(* The whole service, purge included, keeps the promise of ChargeLedger: a *)
(* sale settles once, with its effect, and a settled sale stays settled.   *)
ImplementsLedger == Ledger!Spec
=============================================================================
