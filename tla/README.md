# TillFlow in TLA+

TillFlow sells for small shops in Kenya: a till (POS) records sales and has
their customers charged over M-Pesa, and every evening attendants are paid their
commission over M-Pesa. This directory holds TLA+ models of the parts of it that
move money and of the tasks that set it up, the TLC configurations that check
them, and proofs about all seven of the detailed models (section 4).

Paths below are relative to the repository. "The code" is the TypeScript under
`services/`; the SQL of the migrations is part of it, since most of what keeps
the system correct is a guard of an `UPDATE` or a `UNIQUE` constraint.

## 1. The system

| part | state it keeps | operations | talks to |
|---|---|---|---|
| **POS** (`services/pos`) | `sales`, `sale_items`, `sale_paid_events`, tenants, attendants, rates, products | create a sale (idempotent), pay a sale, show it; daily-close read for commission | calls Payments over HTTP; consumes `sale.paid` from SQS |
| **Payments: charges** (`chargeService`, `callbackService`, `resolution`, `reconcileService`, `routes/admin`) | `charges`, `callback_events` | `POST /charges`, STK callback, reconciler timer, operator endpoints (pending, reconcile, release, purge) | calls Daraja (M-Pesa); writes the outbox |
| **Payments: outbox** (`outbox`, `sqsPublisher`) | `outbox_events` | relay timer | sends to SQS |
| **SQS and EventBridge** (`infra/data.tf`) | queues, dead-letter queues, a schedule | deliver, redeliver, dead-letter, expire; the nightly trigger | – |
| **Commission** (`services/commission`) | `payout_ledger` (shared with Payments) | the daily close, by a queue worker or by an operator's CLI | reads POS, calls Payments |
| **Payments: payouts** (`payoutService`, `b2cCallbackService`) | `payouts`, `callback_events`, `payout_ledger` | `POST /payouts`, B2C callback | calls Daraja |
| **M-Pesa adapter** (`services/_shared/mpesa`) | a cached access token | `stkPush`, `stkQuery`, `b2cPayment`: an answer, a refusal, or "uncertain" | Daraja, or the stub-server |
| **M-Pesa fake and stub-server** (same directory) | payments, queued callbacks | what Daraja does, by the amount; a timer that flushes callbacks | posts callbacks to Payments |
| **Migration tasks** (`services/{payments,pos}/src/migrate.ts`) | `schema_migrations`, the application's role and grants, its secret | run by hand, per deployment, without a lock | Postgres, Secrets Manager |
| web, auth, tracing, metrics, health, infrastructure | – | no state of the protocol | – |

All services run as several tasks against one Postgres. There are no threads
inside a task, but every `await` lets another request, timer or task in between.
A task may die anywhere; what a transaction had not committed is then gone.

The repository numbers its invariants (`docs/adr/0006-idempotency-and-replay.md`): I1 idempotent
sale creation, I2 one charge and one push per sale, I3 one legal transition and
one ledger effect per callback, I4 no duplicate disbursement, I5 a timeout is
not a decline. They, and what code comments promise beside them, are what the
properties below are about.

What is hard here:

* **Races for one row.** A callback, a timer pass under an advisory lock, admin
  passes without it, a late acknowledgement and an operator all write `charges`.
* **Money that moved without us knowing.** A push or a B2C request may time out
  and be carried out all the same, so its charge or payout has no reference to
  be found by; callbacks for such charges are *adopted* by a guess over phone,
  amount and age, which must never be a wrong one.
* **Reads before an await used after it.** The pre-check of a callback before its
  confirming query, the batch of a pass or relay, the attempts limit of a payout.
* **At-least-once everything.** Callbacks, `sale.paid`, triggers and POST retries
  come again, late, or not at all.
* **What was known when.** A day's commission is final once computed, from the
  sales POS knew of, the rates in force and a trigger that may be days old.
* **Something must eventually happen.** No charge silently pending, no settled
  sale unpaid, no day unclosed, no call to M-Pesa without an end.
* **A cache shared by calls.** An access token may expire or be revoked between
  any two steps of the calls that use it.
* **Runs half done.** A migration task may die at any statement, and be run again
  or twice at once.

`PROJECT.json` lists each of these at its line under "hazards".

## 2. The modules

    SaleBook          what POS promises of POST /sales (I1)        (abstract)
      ^ implemented by (refinement mapping, checked and proved)
    Sales             createSale and its Idempotency-Key, tenants  (detailed)
      ^ proved about in SalesProofs

    ChargeLedger      what Payments promises about a sale          (abstract)
      ^ implemented by (refinement mapping, checked and proved)
    Charges           the charge state machine of Payments         (detailed)
      ^ proved about in ChargesProofs
    SaleDelivery      POS + ChargeLedger + outbox + SQS            (composition)
      ^ proved about in SaleDeliveryProofs

    DailyClose        schedule + SQS + worker + POS's sales and rates
      ^ proved about in DailyCloseProofs, with SetSums
    Payouts           ledger rows + payouts + B2C + SQS            (composition)
      ^ proved about in PayoutsProofs

    Mpesa             what Payments relies on of any M-Pesa        (abstract)
      ^ implemented by (refinement mapping, checked and proved)
    DarajaAdapter     the adapter, over HTTP to the stub-server    (composition)
      EXTENDS FakeMpesa   the fake: scenarios, records, callbacks
      ^ proved about in DarajaAdapterProofs

    Migration         the migration task of a schema
      ^ proved about in MigrationProofs

    MCSales, MCCharges, MCSaleDelivery, MCDailyClose, MCPayouts,
    MCDaraja, MCMigration                                          for TLC

A sale passes through them in this order: `Sales` creates it, `Charges` has it
paid, `SaleDelivery` brings that to POS, `DailyClose` computes the commission of
its day, and `Payouts` pays that out. `Charges` and `Payouts` take M-Pesa to be as
`Mpesa` has it: a call is acknowledged, refused or uncertain, and reports are of
what happened. `DarajaAdapter` shows that the adapter makes it so, with one
exception: an answer without a body, which the adapter takes for a refusal (see the
disagreements in section 3). `Charges` and `Payouts` have no such answers.

**Granularity.** A handler is cut into actions where it awaits something another
actor can overtake: a statement of its own, a call to Daraja, the COMMIT of a
transaction. A transaction that has locked the row it will change is one action,
taken at its commit; what it read before taking the lock is kept in the handler's
local state. Every handler has an action that ends it early, for a crash of the
task, an error, or a lost answer.

### Charges

| variable | code |
|---|---|
| `charges` | the `charges` table: status, sale, `checkout_request_id` (`ref`), `hold_reason` (`held`), `reconcile_attempts`, `created_at`, `resolved_by` |
| `outbox` | charges with a `sale.paid` row in `outbox_events` |
| `events` | `callback_events`: absent, or recorded as unmatched, matched or applied |
| `mpesa` | Daraja's own record of each push (external) |
| `request`, `delivery`, `pass` | local state of `createCharge`/`pushStk`, `applyStkCallback`, `runReconcileOnce` |
| `clock` | time in units longer than any HTTP request lasts |
| `evidence` | history variable: the confirmation verdict a PAID transition rested on |

| code | actions |
|---|---|
| `createCharge`, `pushStk` (`chargeService.ts:123-279`) | `LookUp`, `Insert`, `Push`, `StoreAck`, `StoreRejection`, `EndRequest` |
| `confirmSuccess` (`callbackService.ts:223-284`) | `Receive` (pre-check), `Ask` (`stkQuery`) |
| `applyStkCallback` (`286-462`), `applyChargeResolution` | `Record` (dedupe, match), `Adopt`, then one of `CommitUnclaimed`, `CommitHold`, `CommitRefused`, `CommitResolve`; `CrashDelivery` |
| `runReconcileOnce`, `startReconciler` | `StartPass`, `Examine`, `Query`, `ApplyAnswer`, `CrashPass` |
| operator endpoints | `Release`, `PurgeAbandoned`; `POST /admin/reconcile` is an `AdminPasses` pass, which takes no lock |
| Daraja, time | `CustomerAnswers`, `Tick`; `CanArrive` says which callbacks may come (section 5) |

A charge is pushed at most once (only `createCharge` pushes, right after its
insert), so the CheckoutRequestID of the push of charge `c` is written `c`.

### ChargeLedger and its refinement

One sale: `none -> open -> paid | failed`, with one credit produced in the very
step that settles it, and `open -> none` when an operator gives a charge up.
`Charges!SaleState` and `Charges!Credits` compute that view from the tables;
`ImplementsLedger` says every behaviour of `Charges` is one of `ChargeLedger`.
`SaleDelivery` then uses `ChargeLedger` in place of the whole charge service.

### SaleDelivery

`paySale` (`StartPay`, `Accepted`, `StoreCharge`, `EndPay`), the HTTP call it
makes (`calls`, `ServeCall`: it may be served after the caller's 5 seconds ran
out), `relayOnce` (`StartRelay`, `Send`, `SendFails`, `Mark`, `CrashRelay`), the
queue (`DeadLetter`, `Redrive`, `Expire`) and `salePaidConsumer.runOnce`
(`Receive`, `Apply`, `ApplyFails`, `Ack`, `CrashWorker`). A message may be
received while another worker holds it (its visibility timeout ran out).

### Sales and SaleBook

| variable | code |
|---|---|
| `sales` | the tables `sales` and `sale_items`, and for which key each sale was made |
| `keys` | the table `idempotency_keys`: request hash, sale, stored response |
| `tenants`, `attendants`, `products` | these tables: the tenant each attendant and product is of |
| `request` | local state of `createSale` |
| `answer` | the last answer a client was given |

`createSale` is `LookUp` (the first SELECT), then `Write` (the transaction, at its
commit), `NotFound` (404) or `LoseRace` (the unique violation) followed by
`ReadWinner`; the route's `Answer`; `EndRequest` for whatever leaves the client
without one. A body names any attendant and products, those of another tenant
included; the tenant is the token's (`plugins/auth.ts`). `BootstrapTenant`,
`CreateAttendant`, `CreateProduct` and `ApplyPaid` are the other writers of what
it reads. In `SaleBook` a key has one entry, written once, from which every
answer is given.

### DailyClose

| variable | code |
|---|---|
| `now` | wall clock, in instants; `PerDay` of them are a day in Nairobi |
| `sale` | `sales.paid_at`, and when `applySalePaid` made the sale PAID |
| `rates` | `commission_rates`, per attendant and (at `NULL`) the default |
| `trigger` | messages of the commission queue: the schedule's, one a day, and `Posts` |
| `close` | local state of `runOnce`/`runClose` and of the CLI, POS's answer included |
| `ledger` | `payout_ledger`: the sales, rate, amount and payout of each row |

| code | actions |
|---|---|
| `infra/data.tf:401-437` (schedule), SQS | `Tick`, `Post`, `DeadLetter`, `Expire` (4 days, `data.tf:316`) |
| `runOnce`, `resolveBusinessDay` (`closeWorker.ts`) | `Receive` with `BusinessDay`, `Trusted`; `Finish`, `Abort` |
| CLI | `StartDrill` |
| `GET /internal/daily-close` (`internal.ts:80-196`) | `ReadSales`, `ReadRates` |
| `computeCommission`, `runClose` (`closeService.ts:74-198`) | `InsertRow` |
| customers, consumer, owners | `Pay`, `ApplyPaid`, `SetRate` |

`Payouts` takes over at the row: what happens to it there does not change what
`DailyClose` says, since a close inserts rows whatever became of earlier ones.

### Payouts

One business day. `runClose` by the worker or by the CLI (`Receive`,
`StartDrill`, `InsertRow`, `RequestPayout`, `PayoutAnswered`, `Finish`, `Abort`,
`DeadLetter`), `createPayout`/`sendB2C` (`LookUp`, `Insert`, `Bump`, `Send`,
`StoreAck`, `MarkRequested`, `StoreRejection`, `MarkFailed`, `EndHandler`),
`applyB2CCallback` (`Callback`, one transaction), and Daraja (`TransferEnds`).
What POS says an attendant is due is any member of `Amounts`, chosen anew by each
close, since sales, rates and numbers may change between two of them; 0 stands
for nothing payable or no number to pay it to. A payout's id is its
OriginatorConversationID.

### Mpesa, FakeMpesa and DarajaAdapter

| variable | code |
|---|---|
| `record`, `pending` | the fake's maps `stk` and `b2c`, its queue of callbacks |
| `flush`, `delivered`, `lost` | `deliverPending` calls under way, and what came of the callbacks they took |
| `token`, `issued` | the adapter's cached token; every token Daraja has issued (external) |
| `call` | the local state of each adapter call, its request on the wire included |
| `told`, `heard` | what Payments was answered, and what callbacks and queries told it |
| `clock` | time in units of the request timeout |

| code | actions |
|---|---|
| `stkPush`, `b2cPayment`, `stkQuery` (`daraja.ts:107-187`) | `Pay`, `Ask` |
| `accessToken` (`193-220`) | `AccessToken` (an operator), `TakeToken`, `TokenRefused`, `TokenUnread` |
| `post`, `send`, `fetchWithTimeout` (`226-303`) | `Receive` with `AnswerTo`, `Abort` |
| `stub-server.ts` | `Issue`, `Unauthorized`, `ServePayment`, `ServeQuery`, `TurnAway`, `Callback`, `CallbackFails` |
| `fake.ts` | `Initiate` (in `ServePayment`), `StkQuery` (in `ServeQuery`), `Flush`, `Drill` (`resolveTimeout`) |
| Daraja, time | `Revoke`, `Pass` |

This is the deployment of the k6 runs: the adapter talks to the stub. Where the
stub is simpler than the Daraja the adapter is written for, the model has
Daraja's side as well: tokens that expire and die early, refusals, and accidents
with the payment taken or not: a 5xx, a 2xx without a body, a body cut short or no
JSON. `AnswerTo` is what `post` and its callers make of each; `"blank"` is the
`MpesaRejectedError` of undefined code that an empty 2xx body becomes. A request whose caller gave up is `late`: it may still arrive.

`Mpesa` is the contract of `adapter.ts`: an acknowledged payment was initiated, a
rejected one never will be, any other answer leaves both open, and every report
of a payment is of what came of it. The refinement maps a `"blank"` rejection to an
answer that leaves both open, which is all it is worth; that Payments does not
treat it so is among the disagreements of section 3.

### Migration

One `JobStep` per awaited statement of `main` in `migrate.ts`: `Start` (the schema
and the look for the role), `CreateRole`, `ReadApplied`, then for each file
`RunFile` (BEGIN and its SQL) and `Commit`, `GrantTables`, `AlterDefault`,
`StoreSecret`; `Fail` at any of them, for an error or the death of the task. The
runners of payments and of pos are the same program with other names. A file of
an older image is one of the first `image[j]`. Two open transactions of one file
collide on what the file creates, so the second waits, and fails once the first
has committed.

## 3. What the runs check

| run | instance | shows |
|---|---|---|
| `charges_races` | 2 charges, 2 sales of one customer and amount, 2 requests, 2 deliveries, 1 pass | `OnePushPerSale` (I2), `AttributionCorrect`, `FailedIsDefinite` (I5), `ConfirmedBeforePaid`, `TypeOK` |
| `charges_hold` | 1 charge, 1 request, 2 deliveries, a timer and an admin pass, purge, 1 tick; wrong amounts and false successes | `HeldIsFrozen`, `UnconfirmedOnlyAfterHold`, `AppliedIsResolution` (I3), `ImplementsLedger`, and under fairness `NothingSilentlyStuck` |
| `delivery` | 1 sale, 1 relay, 2 consumers, 2 copies, 2 receives, expiry, a redrive | `PaidWasSettled`, `PaidIsKept`, `NoSaleLost`, `TypeOK`, and under fairness `EventuallyPaid` |
| `payouts_race` | 1 attendant, 2 payout ids, the worker and a drill with other amounts, 2 handlers | `OneDisbursement` (I4), `AmountsAgree`, `LedgerAgrees`, `RowsAreFinal`, `TypeOK` |
| `daily_close` | 1 attendant, 2 sales, 2 workers, 2 scheduled triggers and 1 posted, 3 instants | `CountedOnce`, `RowsAreWhole`, `RateSettled`, `RoundedDown`, `TypeOK` |
| `daily_close_live` | 2 attendants with a sale each, 1 worker and a drill, 2 triggers, 2 receives | `AckedDayIsComplete`, and under fairness `DayIsClosed` |
| `sales` | 2 tenants, 1 key each, 2 attendants, 2 products, 2 sale ids, 2 requests | `OneSalePerKey` and `ImplementsBook` (I1), `TenantsApart` (ADR 0007), `TypeOK` |
| `mpesa` | 1 push, 1 query, 1 flush at a time, 3 amounts, 5 instants, 2 revocations | `NeverStraddles`, `ImplementsMpesa`, and under fairness `EveryCallAnswered` |
| `mpesa_shared` | a push and a B2C payment at one instant, 2 flushes, 2 revocations | `RetrySuffices`, and under fairness `CallbacksLand` |
| `migration` | 3 runs, 2 files | `AppliedOnceInOrder`, `SecretMatchesRole`, `DoneIsReady`, `TypeOK` |

`CHECK_DEADLOCK` is off everywhere, because each instance really stops: its ids,
copies, receives and ticks are finite, while the program's are not.

### Bounds, and why they are enough

* **Two of a kind** (requests, deliveries, passes, handlers, workers) is what a
  race needs: the guards compare one actor's earlier read with one intervening
  write, and no guard counts actors.
* **Two charges** are what adoption needs to be ambiguous, and what the
  uniqueness of a reference needs to be tested; two sales of one customer for
  one amount are the hard case, sales that differ are told apart by the query.
* **Clock.** `MaxClock = 0` puts every charge inside the adoption window (30
  minutes) and beyond `RECONCILE_AFTER`; the runs that need age have one or two
  ticks. A `Tick` happens only while no HTTP handler is at work: Daraja calls
  time out after 10 seconds, a tick stands for minutes. A pass may be at work.
* **MaxAttempts, B2C_MAX_ATTEMPTS, MaxReceives** are 1 or 2 so that the limit
  is met within a run.
* **Days.** With `PerDay = 1` every instant is both the first of a day and the
  end of the one before, so each payment, rate and trigger falls on a boundary;
  `LastInstant = 2` leaves two days to close and a backlog of both, and `Retention =
  1` lets the older trigger expire while the worker is busy, down, or at work on
  it. A close may run
  from any instant to any later one. KES 120 at 3.33% is 399.6 cents, which
  either rounding up would turn into a shilling more.
* **One sale in `delivery`.** The relay, the queue and the consumer treat events
  one by one; what a second sale would add is a batch of two, whose members the
  code keeps apart by a try of their own each (`outbox.ts:84-102`,
  `salePaidConsumer.ts:29-47`).
* **Tenants.** Two, with an attendant and a product for each or both of one: who
  names whose is then open. One key name is shared, since keys are per tenant.
* **`mpesa`.** A token lives 4 ticks, 1 of them margin, and a request may take 1
  and the body of a token another: the least numbers for which a token can die
  at each point of a call. KES 3 times out, KES 5 is delayed, KES 100.50 is not
  whole; the other scenarios differ from these in the result only. The query may
  be asked before the push is answered, a callback having named it.
* **`mpesa_shared`.** Two payments start when they like, so both may find the cache
  empty and fetch at once, be sent with one token, be told 401 together, and retry
  in either order; two revocations are what a call that fails twice needs, and a
  third call would add no new pair of steps. Their callbacks are due at once, so a
  flush may take both, or the second flush begin while the first awaits a
  delivery (`deliverPending` does not wait for itself), and a failing delivery may
  take the other callback with it. No time need pass for any of this
  (`MaxClock = 0`); what time does to tokens and callbacks is in `mpesa`.
* **Runs of `migration`.** Three: one that creates the role, one that races it, and
  one that comes after both.
* **Amounts.** 0 is a row with nothing to pay (SKIPPED), and two more tell a
  recomputed amount from the first.
* The `LIMIT 50` of a pass and `LIMIT 25` of a relay are never reached; batches
  are sets, taken in any order, which covers `ORDER BY created_at`.

### Fairness, and why the code justifies it

* `Charges!Fairness`: the reconciler is a `setInterval` of every task
  (`startReconciler`), so a pass that could start does (weak fairness). A pass may
  be cut short by a crash or an error of one charge, but not every pass is, at
  the same place, for ever (strong fairness of its steps). Requests, callbacks,
  operators and customers are assumed nothing of.
* `SaleDelivery!Fairness`: the relay's timer and the consumer's `runForever`
  go on; a send that is tried for ever succeeds now and then; a transaction that
  is tried for ever commits now and then; SQS delivers what is visible and moves
  what was received too often. HTTP calls between services have timeouts, but
  neither the `SQSClient` (`sqsPublisher.ts:25`, `sqsEventSource.ts:33`) nor the
  `pg.Pool` is given one: that no such call hangs for ever is an assumption.
* `DailyClose!Fairness`: the commission worker polls (`runForever`), and the
  HTTP calls of a close have timeouts, so it goes on, if only to throw (its queue
  and database calls, again, by assumption). A close may be aborted every time:
  SQS then counts the receives and dead-letters the trigger, or drops it for its age.
  A trigger in the queue is received again and again (strong fairness, since
  the worker is busy in between). Of customers, owners and drills nothing is assumed.
* `DarajaAdapter!Fairness`: timers run out, the event loop runs what is ready, the
  body of a token is read or fails, the stub flushes what is due (`setInterval`) and
  its deliveries end one way or the other. Of Daraja nothing is assumed: it may
  never answer. No timer of the adapter bounds the reading of a body; that it ends
  leans there on the body timeout of the runtime's `fetch`.

### Disagreements with comments and docs

Two runs are expected to end in a violation, of a property that restates what
the repository says. Their counterexamples are described under "findings".

* `charges_purge_finding`: a purged charge may have been paid (`admin.ts:16-19`).
* `payouts_refusal_finding`: a refused re-send says nothing of the request before
  it (`payoutService.ts:268`).

The models permit a few more behaviours that a comment speaks against. No listed
run is made for them; they can be reproduced with the instance in brackets.

* The only candidate for adoption may be the wrong one, against "adopt neither
  ... Guessing here would credit the wrong sale" (`callbackService.ts:118-121`): the
  older of two like charges may be out of the adoption window when the success of
  its push arrives, and the younger, the only candidate then, adopts it and is PAID
  with the money of the other. [`AttributionCorrect` as in `charges_races`, with one
  request, one delivery, `MaxClock = 2`.]
* A 2xx without a body is thrown as an `MpesaRejectedError` also when the payment
  was taken: `post` takes it for `{}` (`daraja.ts:242`), which has no `ResponseCode`
  (`124-126`, `178-180`). This is against "A definite answer: nothing was initiated"
  (`adapter.ts:75-76`), and Payments then marks the charge or payout FAILED
  (`chargeService.ts:229-239`, `payoutService.ts:267-279`). A query answered so is
  `complete` with the result `NaN`: a callback is held to be contradicted
  (`callbackService.ts:267-273`), and the reconciler fails at writing it. The model has
  these answers as `"blank"`. [In `DarajaAdapter`: `told[p] = "blank"` with
  `record[p] # NoRecord`.]
* After a purge the same sale is charged again while its first prompt may still
  be live, against "one charge per sale, ever" (`001_init.sql:26`).
  [`OnePushPerSale` with `PurgeAges = {1}`, `MaxClock = 1`.]
* A charge that adopted an older push's reference, unconfirmed, and whose own
  push is then refused is FAILED with a successful reference, since
  `chargeService.ts:235` guards by status only. [`FailedIsDefinite` with
  `MaxClock = 2`.] So `charges_races` checks `FailedIsDefinite` inside the window.
* A hold that an operator releases between a callback's pre-check and its
  transaction lets the charge be paid unasked, against `callbackService.ts:201`.
  `UnconfirmedOnlyAfterHold` shows that this is the only way inside the window.
  [`ConfirmedBeforePaid` with `Anomalies = {"wrong_amount"}`.]
* The queue drops a message after 4 days (`data.tf:316`), its outbox row being
  marked published, against "never at-most-once" (`outbox.ts:13-14`). `NoSaleLost`
  and `EventuallyPaid` have expiry as the one way to lose an event.
* The same queue setting drops a trigger that no worker handled for 4 days, against
  "lands in the DLQ rather than vanishing" (`closeWorker.ts:24`); `docs/scar-log.md:242`
  has it as open. `DayIsClosed` names it (`Expire`); nothing in the code notices a
  day that was not closed.
* A payout without an answer is re-sent by any repeated request, against "does
  not happen automatically" (`payoutService.ts:13-16`); two handlers that both
  see one attempt left exceed `B2C_MAX_ATTEMPTS` by one; and a task that dies between the two updates of a refusal
  (`payoutService.ts:270-279`) leaves the payout FAILED and its row COMPUTED
  (`LedgerAgrees` has the direction that holds).
* A close is acked although some of its payout requests went unanswered, and
  the next day's trigger closes another day, against "the next run re-requests
  it" (`closeService.ts:228`, `commission/README.md`): a row may stay COMPUTED until
  somebody drills that day. [In `Payouts`: `Finish` with `ledger[a].status =
  "COMPUTED"`.]
* A sale that POS learns of after its day was closed is never paid commission
  for, the row being final, against "sales = confirmed PAID sales for the business
  day" (`docs/architecture.md:96`). `AckedDayIsComplete` and `RowsAreWhole` are about
  the sales known when the day ended. [`AckedDayIsComplete` with
  `KnownSales` for `SettledSales`.]
* A `businessDay` named explicitly is not checked against the clock, unlike
  `scheduledFor` (`closeWorker.ts:66-71` says what that protects): an operator who
  names today makes a partial row final. [`RowsAreWhole` with `EarlyDrills =
  TRUE`.]
* `deliverPending` "Delivers every due callback" (`fake.ts:232`), but takes all of
  them off its queue first (`243`): when a delivery fails, the rest of its flush
  is gone. `CallbacksLand` says so (`lost`).
* A 5xx is "Unknown state, never a decline" (`daraja.ts:256-257`), but an answer
  whose body is not JSON, as a gateway's page is, throws a plain `MpesaError` (`244`)
  whatever its status, for which `isUncertainOutcome` is false. The callers do not
  take it for a refusal either (they rethrow), so nothing is lost: the model has it
  as "failed", and `ImplementsMpesa` as an answer that leaves both open.
* The timer of `fetchWithTimeout` is cleared when the headers are there, so no
  timeout bounds the reading of a body. `BodyTime` is an assumption; without one
  the token may be dead when its body has been read.
* "this one job covers both services" (`payments/src/migrate.ts:13-14`): it writes
  the secret of one service; that of commission stays the placeholder unless
  somebody copies it. And a run that dies between `CREATE ROLE` and the writing of
  the secret loses the password for good, every later run leaving it "as-is".
  `SecretMatchesRole` and `DoneIsReady` are what holds.
* `docs/scar-log.md:389` has the rate in force when a sale was paid; the code takes
  the one at the end of the day (`internal.ts:167-168`), and so does `RateSettled`.

## 4. What is proved

With TLAPS. Every safety property that a passing run checks is a theorem for
every value of the constants that satisfies the module's assumption: invariants,
action properties and the three refinements. Where a theorem has a hypothesis
beyond that, it is named in the table, and is one the model needs: without it TLC
finds a counterexample, which is among the disagreements above.

### Charges

| theorem (`ChargesProofs`) | statement |
|---|---|
| `TypeCorrect` | `Spec => []TypeOK` |
| `LedgerInvariant` | `Spec => [](TypeOK /\ LedgerInv)`, the inductive invariant the next four use |
| `LedgerCorrect`, `TerminalCorrect` | `Spec => []LedgerMatchesStatus`, `Spec => TerminalIsFinal` |
| `HeldCorrect`, `Refinement` | `Spec => HeldIsFrozen`, `Spec => ImplementsLedger` |
| `CallbackInvariant`, `AppliedOnce` | `Spec => []CallbackInv`, `Spec => []AppliedIsResolution` (I3) |
| `PushInvariant`, `PushedOnce` | `Spec /\ []PurgesAreSafe => []OnePushPerSale` (I2) |
| `AttributionInvariant` | `Spec /\ []PurgesAreSafe /\ []Punctual => []AttributionInv` |
| `AttributedRight`, `FailedRight`, `PaidOnWord` | under the same premises, `[]AttributionCorrect`, `[]FailedIsDefinite` (I5), `[]UnconfirmedOnlyAfterHold` |
| `ConfirmedRight` | under the same premises and `"wrong_amount" \notin Anomalies`, `[]ConfirmedBeforePaid` |
| `ChargesCorrectApart` | if `PurgeAges = {}` and `Apart`: `Spec => [](OnePushPerSale /\ AttributionCorrect /\ FailedIsDefinite /\ UnconfirmedOnlyAfterHold)` |

For any numbers of charges, sales, requests, deliveries and passes, any limits
and either value of `CONFIRM_CALLBACKS`.

`LedgerInv` adds to the types that the outbox holds exactly the PAID charges, that
a sale has at most one charge that exists, and that such a charge is of a sale in
`Sales`; the middle part makes "the state of a sale" well defined, and is the
`UNIQUE(sale_id)` that `Insert` relies on. Every action is then *classified* once
(`StepShape`, and `RequestShape`, `DeliveryShape`, `PassShape` for the handlers,
gathered in `NextShape`): it keeps the status of every charge and the outbox, or it
opens one charge, settles one, fails one, or drops a set of pending ones. Each
theorem is proved per class rather than per action; in the refinement each
class is one action of `ChargeLedger`, or a stutter, under the mapping.

`CallbackInv` says what makes a callback's transaction match one resolution: a
reference is on one row, a row resolved by a callback has one, and a delivery past
its dedupe holds the row its callback named (or is about to adopt).

`PushInv` ties a request to the row it inserted, and Daraja's knowledge to rows
that exist. A purge breaks it, which is why `OnePushPerSale` has the purge's own
premise for a hypothesis: `PurgesAreSafe` says that no purged charge had reached
Daraja, as `admin.ts` takes it (and `charges_purge_finding` refutes).

`AttributionInv` is the deep one. It says of each row, request, pass and delivery
what its knowledge is worth *now*: a stored reference is of the row's own push, a
delivery's pre-check of Daraja still bears on the charge that its transaction
will resolve, a row that was the only candidate for adoption is the pushed one. A
read is older than the step that uses it, so each part is proved to last over the
steps of all the others (`RowAdvances`). It needs `Punctual`: of two open charges
of a customer without a reference, one that Daraja has is not out of the adoption
window. The code does not make it so (the first of the disagreements without a
run in section 3). Both premises *hold* where nothing is purged and either no two sales look alike or the
window never closes (`Apart`); `PremisesHold` proves that, and
`ChargesCorrectApart` is then free of premises on behaviour. It covers
`charges_races`, and says which deployments the findings do not concern.
`"wrong_amount"` is excluded in `ConfirmedRight` since a hold that is released
between pre-check and transaction does let a charge be paid unasked; `PaidOnWord`
says it is the only way.

`LedgerMatchesStatus` and `TerminalIsFinal` are in no run of their own: what they
say of a sale is in `ImplementsLedger`, which `charges_hold` checks.

### Sales and Migration

| theorem | statement |
|---|---|
| `SalesInvariant` (`SalesProofs`) | `Spec => []IInv` |
| `SalesTypeCorrect`, `KeyedOnce`, `TenantsKeptApart` | `Spec => []TypeOK`, `[]OneSalePerKey`, `[]TenantsApart` |
| `BookRefinement` | `Spec => ImplementsBook` |
| `MigrationInvariant` (`MigrationProofs`) | `Spec => []IInv` |
| `MigrationTypeCorrect`, `MigrationsApplyOnce` | `Spec => []TypeOK`, `[]AppliedOnceInOrder` |
| `SecretCorrect`, `CompletedRunIsReady` | `Spec => []SecretMatchesRole`, `[]DoneIsReady` |

`OneSalePerKey` is inductive with the types, but neither the tenants of an answer
nor the refinement follows from it: the answer a handler holds is older than the
moment it is given. `IInv` therefore adds that a key's row names a sale of that
key whose id its stored response has (`KeyNamesSale`), and that a handler about to
answer holds what its key's row gives for its body (`AnswersAreDue`); both last,
since rows of `idempotency_keys` are never changed. The refinement then maps
`Write` to the opening of an entry, whose response is new because the sale's id
is, `Answer` to an answer, and all else to a stutter.

In `Migration` the order needs to know what runs believe: what a run will not
apply is a beginning of what has been applied (`SeenIsPrefix`), so the least file it
has left is either applied already, and fails, or the next one; and an open
transaction is of that next file and the only one (`OpenIsNext`). The secret needs
that the run that made the role, and no other, has a password; a run's end needs
what it has achieved at each of its steps (`Achieved`), and that grants are never
lost.

### SaleDelivery

| theorem (`SaleDeliveryProofs`) | statement |
|---|---|
| `SaleDeliveryInvariant`, `DeliveryTypeCorrect` | `Spec => []IInv`, `[]TypeOK` |
| `PaidOnlyIfSettled`, `EventNeverLost` | `Spec => []PaidWasSettled`, `[]NoSaleLost` |
| `PaymentNeverUndone` | `Spec => PaidIsKept` |

For any numbers of sales, charges, relays, workers and copies of a message. The
invariant follows an event from hand to hand: it is *safe* (`IsSafe`) once it is
queued, dead-lettered, expired or applied, and that lasts; a relay marks, and the
outbox has marked, only safe rows (`RelaysSend`); a worker acks only what POS has
applied (`WorkersApply`); a message and what a worker holds of it are outbox rows
(`MessagesAreEvents`), so what pays a sale is an event of its own.

### Payouts

| theorem (`PayoutsProofs`) | statement |
|---|---|
| `PayoutsInvariant`, `PayoutsTypeCorrect` | `Spec => []IInv`, `[]TypeOK` |
| `DisbursedOnce`, `AmountsKept`, `LedgerFollowsPayouts` | `Spec => []OneDisbursement` (I4), `[]AmountsAgree`, `[]LedgerAgrees` |
| `RowsStayFinal` | `Spec => RowsAreFinal` |

For any attendants, payouts, closes, triggers and limits, and a finite set of
handlers. `OneDisbursement` rests on amounts as much as on `UNIQUE(ledger_id)`: what
a close asks for and what a handler carries is the row's amount
(`RequestsAreOfRows`) because the row is never recomputed, a payout copies it
(`PayoutsAreOfRows`), and Daraja knows only of payouts there are
(`TransfersAreOfPayouts`). `LedgerAgrees` is inductive only with `FailedBeforeRow`:
the update of a refusal's row comes after that of its payout, and a result may
come between them.

### DailyClose and SetSums

| theorem (`DailyCloseProofs`) | statement |
|---|---|
| `DailyCloseInvariant`, `CloseTypeCorrect` | `Spec => []IInv`, `[]TypeOK` |
| `SaleCountedOnce`, `NothingOverpaid` | `Spec => []CountedOnce`, `[]RoundedDown` |
| `DaysEndBeforeTheyClose` | if `~EarlyDrills`: `Spec => []EndedInv` |
| `NoPartialDay`, `RatesAreOfTheDay`, `AckedMeansComplete` | if `~EarlyDrills`: `[]RowsAreWhole`, `[]RateSettled`, `[]AckedDayIsComplete` |

For any finite set of sales with any totals, any rates, closes, triggers and length
of a day. `IInv` says what a close under way and a row consist of: sales of the
day's window, of that attendant, at a rate POS gave. It holds of early drills too.
`EndedInv` adds what time makes final: a trigger, a close and a row are of a day
that is over; from then on the sales known at its end and the rate in force then
do not change, so what a close reads, however late, has them all; and a close that
is about to ack has put them in the ledger (`CloseCompletes`). An operator who names
a day before its end breaks just that, hence `~EarlyDrills`.

`RoundedDown` is about a sum over the sales of a row, for every set of them.
`MapThenSumSet` is a recursive function of the library, and the induction theorems
are out of this prover's reach, so `SetSums` takes the smallest counterexample
instead: among the subsets of a finite set, a non-empty collection has one that
contains no other (`SmallestSubset`, from the well-foundedness of the strict subset
relation). That gives the existence and uniqueness of the sum, that a greatest
member exists (for the rate in force), and `SumOfNaturals`; the bounds on floors are
then proved by the same induction on the sales of the row.

### DarajaAdapter and Mpesa

| theorem (`DarajaAdapterProofs`) | statement |
|---|---|
| `AdapterTypeCorrect`, `TokenInvariant` | `Spec => []TypeOK`, `[]TokenInv` |
| `NoRequestStraddles`, `OneRetrySuffices` | `Spec => []NeverStraddles`, `[]RetrySuffices` |
| `AdapterKeepsMpesa` | `Spec => ImplementsMpesa` |

For any payments, queries, flushes and amounts, and any times with `Timeout <=
Margin < TTL` and `2 * Timeout + BodyTime < TTL`. `TokenInv` is arithmetic: the
cache promises no more than Daraja (`CacheInv`, since "now" is read before the
fetch); a call in flight is younger than its timeout, and its token outlives both;
a call that repeats a request knows a revoked token other than the one it will
take, tokens being issued under new numbers only. The margin is for the cached
token, the second assumption for one that was just fetched, whose body may take
`BodyTime`.

The refinement adds what lies between Daraja and the answers (`AnswerInv`): no call
is answered before it ends, a request that was refused in so many words has no
record and will have none, since a late request is one whose caller was told
"unknown"; an acknowledged one has (`AnswerType`: which replies become which answers);
of a `"blank"` one nothing is said, and nothing could be (section 3); and a query's answer is what the customer did, which lasts (`Lasts`). The
queue holds callbacks whose outcome is decided, and a flush those that are due
(`QueueInv`), so what Payments hears is an outcome of `Mpesa`. `Kept`, the filter of
the queue, is written as a recursive function so that `KeptExists` and `KeptType`
can be proved, again from a smallest counterexample.

### What stays model-checked

* The liveness properties (`NothingSilentlyStuck`, `EventuallyPaid`,
  `DayIsClosed`, `CallbacksLand` and `EveryCallAnswered`): fairness and `ENABLED`
  are beyond the prover.
* The two violations, which are counterexamples.

## 5. Abstractions, and what is not modelled

* Data. Phone and amount are one value, `Customer[s]`. A callback whose amount is
  not the charge's ("wrong_amount") matches no other charge either. Declined
  callbacks are taken at their word, as the code does. Event and row tenants
  always agree. Request validation, response bodies, metrics and logs are left
  out, and so are columns that guard nothing: `stk_attempts`, `last_push_error`,
  `duplicate_count`, timestamps other than `created_at`, the counters of
  `close_runs`.
* Callbacks. `CanArrive` has those that Daraja sends, in any order and number, and
  those of a wrong amount or a false success whose CheckoutRequestID was issued. The
  endpoint is open (`callbackService.ts:193-198`), so this is an assumption about
  the environment: left out are a success that names a CheckoutRequestID never
  issued, which the claim of an adoption would store even where the payment is
  then refused (`360-369` against `419-422`), and a decline of a payment that was
  not declined, which is not asked after. `AttributionCorrect` and
  `FailedIsDefinite`, and their theorems, are under that assumption.
* M-Pesa. `Charges` and `Payouts` have every refusal as definite, as `Mpesa` promises;
  `FailedIsDefinite` and `LedgerAgrees` say nothing of a request or a query answered
  without a body. A purge's tenants are any part of the charges it could take.
* Duplicate POST /charges calls that meet the charge already there change
  nothing and are not steps; POST /payouts calls of one closer for one row that
  are still on their way are one.
* Daraja is taken at the word of `payoutService.ts:150-152`: it recognises a
  repeated OriginatorConversationID. (`001_init.sql:160` says the id is the ledger
  row's; the code sends the payout's.) The B2C timeout callback only logs.
* The advisory lock is held until the work it guards ends; losing the database
  connection that holds it is not modelled as such. Actors that take no lock
  (admin passes, drills) overlap with those that do, which is what such a loss
  would bring; two relays over one row are in no run.
* No code voids a sale, so there is no action for it.
* A body of POST /sales is an attendant and a set of products; quantities, prices
  and totals are left out, and canonicalHash is taken to be free of collisions.
  Attendants and products are never removed, and prices never changed, by any code.
* Of the fake: scenario hints, `redeliver` and the `order` of `deliverPending` are
  for tests. Of the adapter: the fields and passwords of its requests. The reading
  of a request's answer is one step with what is made of it.
* A migration's SQL is "the tables of file f"; grants on the schema and the
  search_path go with the statements next to them. The task reads its secret once,
  at start; the services do too, and restart to see a new one.
* In `DailyClose` the rates of all attendants are read in one step, which
  `RateSettled` justifies: at the end of a day they are settled. POS's number for
  an attendant is left to `Payouts`. Clocks of
  tasks and of the database agree; a `scheduledFor` from a clock ahead is a posted
  trigger of a later instant.

### Not modelled

* **Web UI** (`services/web`): pages without state; each is one call of an operation
  modelled here, with a fresh Idempotency-Key per form sent (`pages.ts:140`: a form
  sent again is a new sale). `/setup` is two calls and may stop between them.
* **Authentication**: signatures, expiry and roles are checks of one request; only
  where the tenant comes from is modelled.
* **Metrics, tracing, health, route prefixes**: no effect on state.
* **Infrastructure, CI, load tests**: but for the queues and the schedule.
* **Showing** tenants, rates, sales and payouts: reads.
* **Currency parsing and formatting**, and line totals (products of checked integers).

## 6. Plan

Done, in this order: `ChargeLedger` and `Charges`, since the money is there;
`SaleDelivery`, which composes it with POS; `Payouts`; `ChargesProofs`;
`DailyClose`, `SaleBook` and `Sales`; `Mpesa`, `FakeMpesa` and `DarajaAdapter`;
`Migration` and `MigrationProofs`; tenants in `Sales`, and `SalesProofs`; then
`PayoutsProofs`, `SaleDeliveryProofs`, `DailyCloseProofs` with `SetSums`, the rest of
`ChargesProofs`, and `DarajaAdapterProofs`.

Next:

1. The reconciler's batch as a bound in `Charges`, for starvation by older charges.
2. `Payouts` against an abstract `PayoutLedger` (one disbursement per row, of the
   amount first computed), in the run `payouts_race`.
3. A second relay over one outbox row, for a lost advisory lock.
4. Proofs: `Payouts` as a refinement of that `PayoutLedger`, in `PayoutsProofs`;
   `ConfirmedBeforePaid` with holds that are never released, as a companion of
   `ConfirmedRight`; `CountedOnce` and `AmountsAgree` joined, for a day's closes
   whose rows `Payouts` takes over.

The runs are few and long on purpose; a new question joins the run whose
instance can answer it, or takes the place of one it subsumes.
