------------------------------- MODULE DailyClose -------------------------------
(***************************************************************************)
(* Which sales a business day's commission is computed from: the schedule's*)
(* trigger, the day the commission worker (or an operator's CLI close)     *)
(* takes it for, what POS then reads of sales and rates, and the ledger row*)
(* computed from it.  What becomes of a row is the matter of Payouts.      *)
(*                                                                         *)
(* Time passes in instants, PerDay to a day of Nairobi.  At the first one  *)
(* of a day the trigger for the day before is due.                         *)
(***************************************************************************)
EXTENDS Integers, Sequences, FiniteSetsExt

CONSTANTS
    Sales, Attendants,
    Seller,        \* the attendant of each sale
    Total,         \* its total_minor
    Rates,         \* rate_bps an owner may set
    MaxRates,      \* bound on the rates set
    Workers,       \* commission workers, which close under the advisory lock
    Drills,        \* CLI closes, which take no lock
    Posts,         \* triggers posted by hand, or by EventBridge once more
    MaxReceives,   \* maxReceiveCount of the trigger queue
    Retention,     \* its message_retention_seconds, in instants
    PerDay,        \* instants to a day
    LastInstant,   \* bound on time
    EarlyDrills,   \* TRUE if operators may name a day that has not ended
    NULL

Instants == 0..LastInstant
Day(t) == t \div PerDay
DayStart(d) == PerDay * d
DayEnd(d) == PerDay * (d + 1)
Days == 0..Day(LastInstant)
ScheduledDays == {d \in Days : DayEnd(d) \in Instants}

Closers == Workers \cup Drills

ASSUME ConstantsAssumption ==
    /\ Seller \in [Sales -> Attendants]
    /\ Total \in [Sales -> Nat]
    /\ Rates \subseteq 0..10000
    /\ MaxRates \in Nat
    /\ MaxReceives \in Nat \ {0}
    /\ Retention \in Nat
    /\ PerDay \in Nat \ {0}
    /\ LastInstant \in Nat
    /\ EarlyDrills \in BOOLEAN
    /\ Workers \cap Drills = {}
    /\ IsFiniteSet(Sales)
    /\ Posts \cap Int = {}   \* a message by hand is not the schedule's
    /\ NULL \notin Attendants \cup Int

VARIABLES
    now,
    sale,      \* when each sale was paid (paid_at), and when POS came to know it
    rates,     \* commission_rates: of each attendant, and of NULL, the default
    trigger,   \* the messages of the queue: one a day, and Posts
    close,     \* the local state of the closes
    ledger     \* payout_ledger, one row per day and attendant

vars == <<now, sale, rates, trigger, close, ledger>>

Unpaid == [paid |-> NULL, known |-> NULL]
NoRow == [sales |-> {}, rate |-> 0, amount |-> 0, payout |-> 0]
NoRates == [a \in Attendants |-> NULL]
IdleClose == [pc |-> "idle", trigger |-> NULL, day |-> 0, sales |-> {}, rates |-> NoRates,
              left |-> {}]

-----------------------------------------------------------------------------
(* A customer pays; the callback's TransactionDate is that instant.  A sale*)
(* that the reconciler settles carries the instant of that instead, and is *)
(* as good as paid then.                                                   *)
Pay(s) ==
    /\ sale[s].paid = NULL
    /\ sale' = [sale EXCEPT ![s].paid = now]
    /\ UNCHANGED <<now, rates, trigger, close, ledger>>

(* applySalePaid, whenever the event comes through. *)
ApplyPaid(s) ==
    /\ sale[s].paid # NULL /\ sale[s].known = NULL
    /\ sale' = [sale EXCEPT ![s].known = now]
    /\ UNCHANGED <<now, rates, trigger, close, ledger>>

(* setCommissionRate: a rate is added, never changed; effective_from is the*)
(* database's now().                                                       *)
SetRate(who) ==
    /\ \E bps \in Rates : rates' = [rates EXCEPT ![who] = Append(@, [from |-> now, bps |-> bps])]
    /\ SumFunction([w \in DOMAIN rates |-> Len(rates[w])]) < MaxRates
    /\ UNCHANGED <<now, sale, trigger, close, ledger>>

-----------------------------------------------------------------------------
(* What POS reads: GET /internal/daily-close. *)

(* Mutant: the end of the window belongs to it. *)
InClosedWindow(t, d) == DayStart(d) <= t /\ t <= DayEnd(d)

InWindow(t, d) == DayStart(d) <= t /\ t < DayEnd(d)

KnownSales(d) == {s \in Sales : sale[s].known # NULL /\ InWindow(sale[s].paid, d)}

(* Mutant: the latest rate, whatever the day. *)
Latest(who, end) == DOMAIN rates[who]

InForce(who, end) == {i \in DOMAIN rates[who] : rates[who][i].from < end}

(* An attendant's own rate, else the default, else none. *)
RateInForce(a, end) ==
    LET RateOf(who) == rates[who][Max(InForce(who, end))].bps IN
    IF InForce(a, end) # {} THEN RateOf(a)
    ELSE IF InForce(NULL, end) # {} THEN RateOf(NULL)
    ELSE 0

-----------------------------------------------------------------------------
(* Triggers: one a day for the day that has ended, and those of Posts,     *)
(* which name a day, an instant they say they were due at, or nothing.     *)

Body(due, day) == [at |-> "queued", receives |-> 0, due |-> due, day |-> day]
Away(where) == [at |-> where, receives |-> 0, due |-> NULL, day |-> NULL]

(* businessDay is taken as it is; operators are taken to name days that    *)
(* have ended, unless EarlyDrills.                                         *)
Nameable == {d \in Days : EarlyDrills \/ d < Day(now)}

Post(p) ==
    /\ trigger[p].at = "unsent"
    /\ \E body \in {Body(due, NULL) : due \in Instants \cup {NULL}}
                   \cup {Body(NULL, day) : day \in Nameable} :
          trigger' = [trigger EXCEPT ![p] = body]
    /\ UNCHANGED <<now, sale, rates, close, ledger>>

(* At the first instant of a day the trigger for the day before is sent. *)
Tick ==
    /\ now < LastInstant
    /\ now' = now + 1
    /\ trigger' = [m \in DOMAIN trigger |->
           IF m \in ScheduledDays /\ DayEnd(m) = now' THEN Body(now', NULL) ELSE trigger[m]]
    /\ UNCHANGED <<sale, rates, close, ledger>>

DeadLetter(m) ==
    /\ trigger[m].at = "queued" /\ trigger[m].receives = MaxReceives
    /\ trigger' = [trigger EXCEPT ![m] = Away("dead")]
    /\ UNCHANGED <<now, sale, rates, close, ledger>>

(* The schedule's trigger is sent when it is due; when one by hand was sent*)
(* is not kept, so it may be of any age.                                   *)
HasOutlived(m) == m \in ScheduledDays => trigger[m].due + Retention <= now

(* A message that grows too old is dropped, not dead-lettered, also while  *)
(* a worker has it.                                                        *)
Expire(m) ==
    /\ trigger[m].at = "queued" /\ HasOutlived(m)
    /\ trigger' = [trigger EXCEPT ![m] = Away("expired")]
    /\ UNCHANGED <<now, sale, rates, close, ledger>>

-----------------------------------------------------------------------------
(* The day a close settles: resolveBusinessDay. *)

Yesterday(t) == Day(t) - 1

(* Mutants: any scheduledFor is trusted; none is looked at. *)
TrustAny(due) == due # NULL

TrustNone(due) == FALSE

(* A scheduledFor in the future is not trusted. *)
Trusted(due) == due # NULL /\ due <= now

BusinessDay(m) ==
    IF trigger[m].day # NULL THEN trigger[m].day
    ELSE Yesterday(IF Trusted(trigger[m].due) THEN trigger[m].due ELSE now)

-----------------------------------------------------------------------------
(* The close: runOnce and runClose, or the CLI. *)

(* withAdvisoryLock: it is given back before the trigger is acked. *)
LockIsFree == \A w \in Workers : close[w].pc \in {"idle", "ack"}

Started(m, d) == [IdleClose EXCEPT !.pc = "read", !.trigger = m, !.day = d]

(* A trigger that comes while another task holds the lock is left on the   *)
(* queue.                                                                  *)
Receive(w, m) ==
    /\ close[w].pc = "idle"
    /\ trigger[m].at = "queued" /\ trigger[m].receives < MaxReceives
    /\ trigger' = [trigger EXCEPT ![m].receives = @ + 1]
    /\ close' = IF LockIsFree
                THEN [close EXCEPT ![w] = Started(m, BusinessDay(m))]
                ELSE close
    /\ UNCHANGED <<now, sale, rates, ledger>>

(* The CLI closes the day it is given, or else the day that just ended. *)
StartDrill(k) ==
    /\ close[k].pc = "idle"
    /\ \E d \in Nameable \cup {Yesterday(now)} :
          close' = [close EXCEPT ![k] = Started(NULL, d)]
    /\ UNCHANGED <<now, sale, rates, trigger, ledger>>

Closed(k) == [IdleClose EXCEPT !.pc = "ack", !.trigger = close[k].trigger]

(* Mutant: an empty day is not noticed. *)
ReadEvenNone(k) ==
    LET known == KnownSales(close[k].day) IN
    /\ close[k].pc = "read"
    /\ close' = [close EXCEPT ![k] =
           [@ EXCEPT !.pc = "rates", !.sales = known, !.left = {Seller[s] : s \in known}]]
    /\ UNCHANGED <<now, sale, rates, trigger, ledger>>

(* POS selects the sales of the day, in one statement ... *)
ReadSales(k) ==
    LET known == KnownSales(close[k].day) IN
    /\ close[k].pc = "read"
    /\ close' = [close EXCEPT ![k] =
           IF known = {} THEN Closed(k)
           ELSE [@ EXCEPT !.pc = "rates", !.sales = known, !.left = {Seller[s] : s \in known}]]
    /\ UNCHANGED <<now, sale, rates, trigger, ledger>>

(* ... and then the rate of each attendant who has any.  These are queries *)
(* of their own; they are one step here, since POS is asked for days that  *)
(* have ended, whose rates RateSettled says are settled.                   *)
ReadRates(k) ==
    LET end == DayEnd(close[k].day) IN
    /\ close[k].pc = "rates"
    /\ close' = [close EXCEPT ![k].pc = "insert", ![k].rates =
           [a \in Attendants |-> IF a \in close[k].left THEN RateInForce(a, end) ELSE NULL]]
    /\ UNCHANGED <<now, sale, rates, trigger, ledger>>

(* Mutant: rounded to the nearest cent. *)
RoundedToNearest(s, bps) == (Total[s] * bps + 5000) \div 10000

CommissionForSale(s, bps) == (Total[s] * bps) \div 10000

(* computeCommission: floored per sale, summed, floored to whole shillings.*)
Computed(sales, bps) ==
    LET amount == MapThenSumSet(LAMBDA s : CommissionForSale(s, bps), sales) IN
    [sales |-> sales, rate |-> bps, amount |-> amount, payout |-> (amount \div 100) * 100]

(* What a close has left once the row of a is dealt with. *)
AfterRow(k, a) == IF close[k].left = {a} THEN Closed(k)
                  ELSE [close[k] EXCEPT !.left = @ \ {a}, !.rates[a] = NULL]

(* INSERT ... ON CONFLICT DO NOTHING, row by row. *)
InsertRow(k, a) ==
    LET d == close[k].day
        row == Computed({s \in close[k].sales : Seller[s] = a}, close[k].rates[a]) IN
    /\ close[k].pc = "insert" /\ a \in close[k].left
    /\ ledger' = [ledger EXCEPT ![d][a] = IF @ = NoRow THEN row ELSE @]
    /\ close' = [close EXCEPT ![k] = AfterRow(k, a)]
    /\ UNCHANGED <<now, sale, rates, trigger>>

(* source.ack, after the close; it may fail, and a drill has no trigger. *)
Finish(k) ==
    LET m == close[k].trigger IN
    /\ close[k].pc = "ack"
    /\ \/ /\ m # NULL
          /\ trigger' = [trigger EXCEPT ![m] = IF @.at = "queued" THEN Away("acked") ELSE @]
       \/ UNCHANGED trigger
    /\ close' = [close EXCEPT ![k] = IdleClose]
    /\ UNCHANGED <<now, sale, rates, ledger>>

(* Mutant: the trigger is acked by a close that threw. *)
AckAnyway(k) ==
    LET m == close[k].trigger IN
    /\ close[k].pc # "idle"
    /\ trigger' = IF m = NULL THEN trigger ELSE [trigger EXCEPT ![m] = Away("acked")]
    /\ close' = [close EXCEPT ![k] = IdleClose]
    /\ UNCHANGED <<now, sale, rates, ledger>>

(* POS does not answer, a statement fails, or the task dies. *)
Abort(k) ==
    /\ close[k].pc # "idle"
    /\ close' = [close EXCEPT ![k] = IdleClose]
    /\ UNCHANGED <<now, sale, rates, trigger, ledger>>

-----------------------------------------------------------------------------

Init ==
    /\ now = 0
    /\ sale = [s \in Sales |-> Unpaid]
    /\ rates = [who \in Attendants \cup {NULL} |-> <<>>]
    /\ trigger = [m \in ScheduledDays \cup Posts |-> Away("unsent")]
    /\ close = [k \in Closers |-> IdleClose]
    /\ ledger = [d \in Days |-> [a \in Attendants |-> NoRow]]

CloseStep(k) ==
    \/ ReadSales(k)
    \/ ReadRates(k)
    \/ \E a \in Attendants : InsertRow(k, a)
    \/ Finish(k) \/ Abort(k)

Next ==
    \/ \E s \in Sales : Pay(s) \/ ApplyPaid(s)
    \/ \E who \in Attendants \cup {NULL} : SetRate(who)
    \/ \E p \in Posts : Post(p)
    \/ Tick
    \/ \E m \in DOMAIN trigger : DeadLetter(m) \/ Expire(m) \/ \E w \in Workers : Receive(w, m)
    \/ \E k \in Drills : StartDrill(k)
    \/ \E k \in Closers : CloseStep(k)

Spec == Init /\ [][Next]_vars

(* The worker polls (runForever) and its calls have timeouts; SQS delivers *)
(* what is visible, or dead-letters it.  A close may throw every time.     *)
Fairness ==
    /\ \A m \in ScheduledDays : /\ SF_vars(\E w \in Workers : Receive(w, m))
                                /\ WF_vars(DeadLetter(m))
    /\ \A w \in Workers : WF_vars(CloseStep(w))

FairSpec == Spec /\ Fairness
-----------------------------------------------------------------------------
(* Every variable holds values of its kind: what was paid is known to POS  *)
(* only later, and no row is computed from nothing.                        *)
SalesOK ==
    /\ sale \in [Sales -> [paid: Instants \cup {NULL}, known: Instants \cup {NULL}]]
    /\ \A s \in Sales : sale[s].known # NULL => sale[s].paid \in 0..sale[s].known

RatesOK == rates \in [Attendants \cup {NULL} -> Seq([from: Instants, bps: Rates])]

TriggerStates == [at: {"unsent", "queued", "acked", "dead", "expired"},
                  receives: 0..MaxReceives, due: Instants \cup {NULL}, day: Days \cup {NULL}]

TriggersOK == trigger \in [ScheduledDays \cup Posts -> TriggerStates]

CloseStates == [pc: {"idle", "read", "rates", "insert", "ack"},
                trigger: ScheduledDays \cup Posts \cup {NULL}, day: Days \cup {-1},
                sales: SUBSET Sales, rates: [Attendants -> Rates \cup {0, NULL}],
                left: SUBSET Attendants]

ClosesOK ==
    /\ close \in [Closers -> CloseStates]
    /\ \A k \in Closers : close[k].pc \in {"rates", "insert"} => close[k].left # {}

LedgerOK ==
    ledger \in [Days -> [Attendants -> [sales: SUBSET Sales, rate: Rates \cup {0},
                                        amount: Nat, payout: Nat]]]

TypeOK == now \in Instants /\ SalesOK /\ RatesOK /\ TriggersOK /\ ClosesOK /\ LedgerOK

(* The sales of day d that POS knew before the day was over. *)
SettledSales(d) ==
    {s \in Sales : /\ sale[s].known # NULL /\ sale[s].known < DayEnd(d)
                   /\ InWindow(sale[s].paid, d)}

Complete(d) == \A s \in SettledSales(d) : s \in ledger[d][Seller[s]].sales

(* Commission is earned once: however many closes of however many days run,*)
(* a sale is counted in the row of one attendant and one day.              *)
CountedOnce ==
    \A d, e \in Days, a, b \in Attendants :
        ledger[d][a].sales \cap ledger[e][b].sales # {} => d = e /\ a = b

(* A row is final, so a day must not be closed before it is over ("pays    *)
(* commission on a partial day"): whatever a trigger says of its time, each*)
(* row has all the sales of its attendant that POS knew when the day ended.*)
RowsAreWhole ==
    \A d \in Days, a \in Attendants : ledger[d][a] # NoRow =>
        {s \in SettledSales(d) : Seller[s] = a} \subseteq ledger[d][a].sales

(* "Ack only after the close committed": once the schedule's trigger for a *)
(* day is acked, every sale POS knew when the day ended is in the ledger,  *)
(* though the trigger was handled days late, twice or half by a crash.     *)
AckedDayIsComplete ==
    \A d \in ScheduledDays : trigger[d].at = "acked" => Complete(d)

(* The rate of a row is settled when its day ends: a rate set later, also  *)
(* between two closes of the day or while one runs, makes no difference.   *)
RateSettled ==
    \A d \in Days, a \in Attendants : ledger[d][a] # NoRow =>
        ledger[d][a].rate = RateInForce(a, DayEnd(d))

TotalOf(sales) == MapThenSumSet(LAMBDA s : Total[s], sales)

(* No rounding pays more than was earned, and both together withhold less  *)
(* than a cent of each sale and a shilling of each row.                    *)
RoundedDown ==
    \A d \in Days, a \in Attendants :
        LET row == ledger[d][a]
            earned == row.rate * TotalOf(row.sales)
        IN  row # NoRow =>
                /\ row.payout % 100 = 0
                /\ row.payout * 10000 <= earned
                /\ earned < (row.payout + 100 + Cardinality(row.sales)) * 10000

(* A backlog loses no day before its time: the trigger for each day that   *)
(* has ended leads to a ledger with what was known of it, or to the        *)
(* dead-letter queue, unless it grew older than the queue keeps messages.  *)
DayIsClosed ==
    \A d \in ScheduledDays :
        trigger[d].at = "queued"
            ~> \/ Complete(d)
               \/ trigger[d].at = "dead"
               \/ trigger[d].at = "expired" /\ DayEnd(d) + Retention <= now
=============================================================================
