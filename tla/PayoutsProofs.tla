----------------------------- MODULE PayoutsProofs -----------------------------
(***************************************************************************)
(* I4 for any attendants, payouts, closes and requests: one disbursement   *)
(* per row of the ledger, of the amount the row was computed with, and a   *)
(* ledger that agrees with the payouts.                                    *)
(***************************************************************************)
EXTENDS Payouts, TLAPS

(* A row that has an amount to pay.                                        *)
IsPayable(a) == ledger[a].status \notin {"none", "SKIPPED"}

(* A payout belongs to a row of the ledger, and to no other payout's.      *)
PayoutsAreOfRows ==
    /\ \A p \in PayoutIds :
          payouts[p].row # NULL => /\ payouts[p].status # "none"
                                   /\ IsPayable(payouts[p].row)
                                   /\ payouts[p].amount = ledger[payouts[p].row].amount
    /\ \A p, q \in PayoutIds :
          payouts[p].row # NULL /\ payouts[p].row = payouts[q].row => p = q

(* What is asked of Payments, and what its handlers carry, is a row's.     *)
RequestsAreOfRows ==
    /\ \A call \in calls : IsPayable(call[2])
    /\ \A h \in Handlers : handler[h].pc # "idle" =>
          /\ IsPayable(handler[h].row)
          /\ handler[h].amount = ledger[handler[h].row].amount

(* A handler about to fail the row has failed the payout, if it was open.  *)
FailedBeforeRow ==
    \A h \in Handlers :
        handler[h].pc = "failed" => payouts[handler[h].payout].status # "PENDING"

(* Daraja knows only of payouts there are, and of their amounts.           *)
TransfersAreOfPayouts ==
    \A p \in PayoutIds : b2c[p].status # "none" =>
        payouts[p].row # NULL /\ b2c[p].amount = payouts[p].amount

IInv ==
    /\ TypeOK
    /\ PayoutsAreOfRows
    /\ RequestsAreOfRows
    /\ FailedBeforeRow
    /\ TransfersAreOfPayouts
    /\ LedgerAgrees

-----------------------------------------------------------------------------
(* The empty tables satisfy the invariant.                                 *)
LEMMA InitIInv == Init => IInv
<1> SUFFICES ASSUME Init PROVE IInv
  OBVIOUS
<1>1. TablesOK
  BY ConstantsAssumption DEF Init, TablesOK, NoRow, NoPayout, NoTransfer
<1>2. ClosesOK
  BY DEF Init, ClosesOK, CloseStates, IdleClose, NoDues
<1>3. HandlersOK
  BY DEF Init, HandlersOK, HandlerStates, IdleHandler
<1>4. PayoutsAreOfRows
  BY DEF Init, PayoutsAreOfRows, NoPayout
<1>5. RequestsAreOfRows /\ FailedBeforeRow
  BY DEF Init, RequestsAreOfRows, FailedBeforeRow, IdleHandler
<1>6. TransfersAreOfPayouts
  BY DEF Init, TransfersAreOfPayouts, NoTransfer
<1>7. LedgerAgrees
  BY ConstantsAssumption DEF Init, LedgerAgrees, NoRow, NoPayout, PayoutOf
<1> QED BY <1>1, <1>2, <1>3, <1>4, <1>5, <1>6, <1>7 DEF IInv, TypeOK

-----------------------------------------------------------------------------
(* The closes. *)

(* A step of a close that writes no row and asks for nothing: only where   *)
(* the close and its trigger are changes.                                  *)
LEMMA CloseOnlyStep ==
    ASSUME IInv, UNCHANGED <<ledger, payouts, daraja, calls, handler>>, ClosesOK',
           trigger' \in [Triggers -> [at: {"queued", "acked", "dead"}, receives: 0..MaxReceives]]
    PROVE  IInv'
<1>0. UNCHANGED <<ledger, payouts, events, b2c, calls, handler>>
  BY DEF daraja
<1>1. TypeOK'
  BY <1>0 DEF IInv, TypeOK, TablesOK, HandlersOK, PayoutOf
<1>2. PayoutsAreOfRows' /\ RequestsAreOfRows' /\ FailedBeforeRow' /\ TransfersAreOfPayouts'
  BY <1>0 DEF IInv, PayoutsAreOfRows, RequestsAreOfRows, FailedBeforeRow,
              TransfersAreOfPayouts, IsPayable
<1>3. LedgerAgrees'
  BY <1>0 DEF IInv, LedgerAgrees, PayoutOf
<1> QED BY <1>1, <1>2, <1>3 DEF IInv

(* A close starts with every attendant left, if there is one.              *)
LEMMA StartedType ==
    ASSUME NEW t \in Triggers \cup {NULL}, NEW due \in [Attendants -> Amounts]
    PROVE  /\ Started(t, due) \in CloseStates
           /\ Started(t, due).pc = "insert" => Started(t, due).left # {}
           /\ Started(t, due).pc \notin {"select", "wait"}
BY DEF Started, IdleClose, NoDues, CloseStates

(* A close that is done with a row has others left, or is at its end.      *)
LEMMA DoneType ==
    ASSUME ClosesOK, NEW k \in Closers, NEW a \in close[k].left
    PROVE  /\ Done(k, a) \in [Closers -> CloseStates]
           /\ \A j \in Closers :
                 /\ Done(k, a)[j].pc = "insert" => Done(k, a)[j].left # {}
                 /\ Done(k, a)[j].pc \in {"select", "wait"} => Done(k, a)[j].row \in Done(k, a)[j].left
<1> DEFINE rest == [close[k] EXCEPT !.left = @ \ {a}, !.row = NULL,
                         !.pc = IF close[k].left = {a} THEN "ack" ELSE "insert"]
<1>1. Done(k, a) = [close EXCEPT ![k] = rest]
  BY DEF Done, ClosesOK
<1>2. rest \in CloseStates /\ rest.pc \notin {"select", "wait"}
      /\ (rest.pc = "insert" => rest.left # {})
  BY DEF ClosesOK, CloseStates
<1> HIDE DEF rest
<1> QED BY <1>1, <1>2 DEF ClosesOK

LEMMA ReceiveStep ==
    ASSUME IInv, NEW w \in Workers, NEW t \in Triggers, Receive(w, t)
    PROVE  IInv'
<1>0. ClosesOK /\ TablesOK
  BY DEF IInv, TypeOK
<1>1. trigger' \in [Triggers -> [at: {"queued", "acked", "dead"}, receives: 0..MaxReceives]]
  BY <1>0, ConstantsAssumption DEF Receive, TablesOK
<1>2. ClosesOK'
  <2>1. CASE UNCHANGED close
    BY <1>0, <2>1 DEF ClosesOK
  <2>2. ASSUME NEW due \in [Attendants -> Amounts],
               close' = [close EXCEPT ![w] = Started(t, due)]
        PROVE  ClosesOK'
    BY <1>0, <2>2, StartedType DEF ClosesOK, Closers
  <2> QED BY <2>1, <2>2 DEF Receive
<1> QED BY <1>1, <1>2, CloseOnlyStep DEF Receive

LEMMA StartDrillStep ==
    ASSUME IInv, NEW k \in Drills, StartDrill(k)
    PROVE  IInv'
<1>0. ClosesOK /\ TablesOK
  BY DEF IInv, TypeOK
<1>1. PICK due \in [Attendants -> Amounts] :
          close' = [close EXCEPT ![k] = Started(NULL, due)]
  BY DEF StartDrill
<1>2. ClosesOK'
  BY <1>0, <1>1, StartedType DEF ClosesOK, Closers
<1> QED BY <1>0, <1>2, CloseOnlyStep DEF StartDrill, TablesOK

LEMMA PayoutAnsweredStep ==
    ASSUME IInv, NEW k \in Closers, PayoutAnswered(k)
    PROVE  IInv'
<1>0. ClosesOK /\ TablesOK
  BY DEF IInv, TypeOK
<1>1. close[k].row \in close[k].left
  BY <1>0 DEF PayoutAnswered, ClosesOK
<1>2. ClosesOK'
  BY <1>0, <1>1, DoneType DEF PayoutAnswered, ClosesOK
<1> QED BY <1>0, <1>2, CloseOnlyStep DEF PayoutAnswered, TablesOK

(* The end of a close, however it comes.                                   *)
LEMMA EndCloseStep ==
    ASSUME IInv, NEW k \in Closers, Finish(k) \/ Abort(k)
    PROVE  IInv'
<1>0. ClosesOK /\ TablesOK
  BY DEF IInv, TypeOK
<1>1. close' = [close EXCEPT ![k] = IdleClose]
  BY DEF Finish, Abort
<1>2. ClosesOK'
  BY <1>0, <1>1 DEF ClosesOK, CloseStates, IdleClose, NoDues
<1>3. trigger' \in [Triggers -> [at: {"queued", "acked", "dead"}, receives: 0..MaxReceives]]
  BY <1>0 DEF Finish, Abort, TablesOK
<1> QED BY <1>2, <1>3, CloseOnlyStep DEF Finish, Abort

LEMMA DeadLetterStep ==
    ASSUME IInv, NEW t \in Triggers, DeadLetter(t)
    PROVE  IInv'
<1>0. ClosesOK /\ TablesOK
  BY DEF IInv, TypeOK
<1>1. ClosesOK'
  BY <1>0 DEF DeadLetter, ClosesOK
<1>2. trigger' \in [Triggers -> [at: {"queued", "acked", "dead"}, receives: 0..MaxReceives]]
  BY <1>0 DEF DeadLetter, TablesOK
<1> QED BY <1>1, <1>2, CloseOnlyStep DEF DeadLetter

(* A row is inserted once; what is there already stays as it is.           *)
LEMMA InsertRowStep ==
    ASSUME IInv, NEW k \in Closers, InsertRow(k)
    PROVE  IInv'
<1>0. ClosesOK /\ TablesOK /\ HandlersOK
  BY DEF IInv, TypeOK
<1>1. PICK a \in close[k].left :
          /\ ledger' = [ledger EXCEPT ![a] = Inserted(@, close[k].due[a])]
          /\ close' = IF close[k].due[a] = 0 THEN Done(k, a)
                      ELSE [close EXCEPT ![k].pc = "select", ![k].row = a]
  BY DEF InsertRow
<1>2. UNCHANGED <<payouts, events, b2c, trigger, calls, handler>>
  BY DEF InsertRow, daraja
<1>3. a \in Attendants /\ close[k].due[a] \in Amounts \cup {0}
  BY <1>0 DEF ClosesOK, CloseStates
<1>4. ledger' \in [Attendants -> [status: {"none", "COMPUTED", "REQUESTED", "PAID",
                                           "FAILED", "SKIPPED"},
                                  amount: Amounts \cup {0}]]
  BY <1>0, <1>1, <1>3 DEF TablesOK, Inserted, Computed
<1>5. \A b \in Attendants :
         \/ ledger'[b] = ledger[b]
         \/ ledger[b].status = "none" /\ ledger'[b].status \notin {"PAID", "FAILED"}
  BY <1>0, <1>1, <1>3 DEF TablesOK, Inserted, Computed
<1>6. ClosesOK'
  <2>1. CASE close[k].due[a] = 0
    BY <1>0, <1>1, <2>1, DoneType DEF ClosesOK
  <2>2. CASE close[k].due[a] # 0
    <3> DEFINE selecting == [close[k] EXCEPT !.pc = "select", !.row = a]
    <3>1. close' = [close EXCEPT ![k] = selecting]
      BY <1>0, <1>1, <2>2 DEF ClosesOK
    <3>2. selecting \in CloseStates /\ selecting.pc = "select" /\ selecting.row \in selecting.left
      BY <1>0, <1>3 DEF ClosesOK, CloseStates
    <3> HIDE DEF selecting
    <3> QED BY <1>0, <3>1, <3>2 DEF ClosesOK
  <2> QED BY <2>1, <2>2
<1>7. TypeOK'
  BY <1>0, <1>2, <1>4, <1>6 DEF TypeOK, TablesOK, HandlersOK, PayoutOf
<1>8. PayoutsAreOfRows'
  BY <1>0, <1>2, <1>5 DEF IInv, PayoutsAreOfRows, IsPayable, TablesOK
<1>9. RequestsAreOfRows'
  BY <1>0, <1>2, <1>5 DEF IInv, RequestsAreOfRows, IsPayable, HandlersOK, TablesOK
<1>10. FailedBeforeRow' /\ TransfersAreOfPayouts'
  BY <1>2 DEF IInv, FailedBeforeRow, TransfersAreOfPayouts
<1>11. LedgerAgrees'
  BY <1>0, <1>2, <1>5, ConstantsAssumption
  DEF IInv, LedgerAgrees, PayoutsAreOfRows, IsPayable, PayoutOf, TablesOK
<1> QED BY <1>7, <1>8, <1>9, <1>10, <1>11 DEF IInv

LEMMA RequestPayoutStep ==
    ASSUME IInv, NEW k \in Closers, RequestPayout(k)
    PROVE  IInv'
<1>0. ClosesOK /\ TablesOK /\ HandlersOK
  BY DEF IInv, TypeOK
<1>1. close[k].row \in close[k].left /\ close[k].row \in Attendants
  BY <1>0 DEF RequestPayout, ClosesOK, CloseStates
<1>2. CASE ledger[close[k].row].status = "COMPUTED"
  <2>1. /\ calls' = calls \cup {<<k, close[k].row>>}
        /\ close' = [close EXCEPT ![k].pc = "wait"]
        /\ UNCHANGED <<ledger, payouts, events, b2c, trigger, handler>>
    BY <1>2 DEF RequestPayout, daraja
  <2>2. ClosesOK'
    BY <1>0, <1>1, <2>1 DEF ClosesOK, CloseStates
  <2>3. TypeOK'
    BY <1>0, <1>1, <2>1, <2>2 DEF TypeOK, TablesOK, HandlersOK, PayoutOf
  <2>4. PayoutsAreOfRows' /\ FailedBeforeRow' /\ TransfersAreOfPayouts'
    BY <2>1 DEF IInv, PayoutsAreOfRows, FailedBeforeRow, TransfersAreOfPayouts, IsPayable
  <2>5. RequestsAreOfRows'
    BY <1>2, <2>1 DEF IInv, RequestsAreOfRows, IsPayable
  <2>6. LedgerAgrees'
    BY <2>1 DEF IInv, LedgerAgrees, PayoutOf
  <2> QED BY <2>3, <2>4, <2>5, <2>6 DEF IInv
<1>3. CASE ledger[close[k].row].status # "COMPUTED"
  <2>1. close' = Done(k, close[k].row) /\ UNCHANGED <<ledger, payouts, daraja, trigger, calls, handler>>
    BY <1>3 DEF RequestPayout
  <2>2. ClosesOK'
    BY <1>0, <1>1, <2>1, DoneType DEF ClosesOK
  <2> QED BY <1>0, <2>1, <2>2, CloseOnlyStep DEF TablesOK
<1> QED BY <1>2, <1>3

-----------------------------------------------------------------------------
(* The handlers of POST /payouts. *)

(* What a handler may hold, if it holds anything.                          *)
Holds(state) ==
    /\ state \in HandlerStates
    /\ state.pc # "idle" =>
          /\ state.row \in Attendants /\ IsPayable(state.row)
          /\ state.amount = ledger[state.row].amount
    /\ state.pc \notin {"idle", "insert"} => state.payout \in PayoutOf(state.row)
    /\ state.pc = "failed" => payouts[state.payout].status # "PENDING"

LEMMA IdleHolds == Holds(IdleHandler)
BY DEF Holds, IdleHandler, HandlerStates

LEMMA HandlerHolds ==
    ASSUME IInv, NEW h \in Handlers
    PROVE  Holds(handler[h])
BY DEF IInv, TypeOK, HandlersOK, RequestsAreOfRows, FailedBeforeRow, Holds

(* A step of one handler that writes no table.                             *)
LEMMA HandlerOnlyStep ==
    ASSUME IInv, NEW h \in Handlers, NEW state, Holds(state),
           handler' = [handler EXCEPT ![h] = state],
           calls' \in SUBSET calls,
           UNCHANGED <<ledger, payouts, daraja, commission>>
    PROVE  IInv'
<1>0. /\ TypeOK
      /\ UNCHANGED <<ledger, payouts, events, b2c, trigger, close>>
      /\ \A g \in Handlers : handler'[g] = handler[g] \/ handler'[g] = state
  BY DEF IInv, daraja, commission, TypeOK, HandlersOK
<1>1. TypeOK'
  <2>1. TablesOK' /\ ClosesOK'
    BY <1>0 DEF TypeOK, TablesOK, ClosesOK
  <2>2. HandlersOK'
    BY <1>0 DEF TypeOK, HandlersOK, PayoutOf, Holds
  <2> QED BY <2>1, <2>2 DEF TypeOK
<1>2. PayoutsAreOfRows' /\ TransfersAreOfPayouts'
  BY <1>0 DEF IInv, PayoutsAreOfRows, TransfersAreOfPayouts, IsPayable
<1>3. RequestsAreOfRows' /\ FailedBeforeRow'
  BY <1>0 DEF IInv, RequestsAreOfRows, FailedBeforeRow, IsPayable, Holds
<1>4. LedgerAgrees'
  BY <1>0 DEF IInv, LedgerAgrees, PayoutOf
<1> QED BY <1>1, <1>2, <1>3, <1>4 DEF IInv

LEMMA LookUpStep ==
    ASSUME IInv, NEW h \in Handlers, NEW call \in calls, LookUp(h, call)
    PROVE  IInv'
<1> DEFINE a == call[2]
<1>0. TablesOK
  BY DEF IInv, TypeOK
<1>1. a \in Attendants /\ IsPayable(a) /\ ledger[a].amount \in Amounts \cup {0}
  BY <1>0 DEF IInv, TablesOK, RequestsAreOfRows
<1>2. calls' \in SUBSET calls /\ UNCHANGED <<ledger, payouts, daraja, commission>>
  BY DEF LookUp
<1>3. CASE handler' = [handler EXCEPT ![h] =
               [pc |-> "insert", row |-> a, payout |-> NULL, amount |-> ledger[a].amount]]
  <2> DEFINE state == [pc |-> "insert", row |-> a, payout |-> NULL, amount |-> ledger[a].amount]
  <2>1. Holds(state)
    BY <1>1 DEF Holds, HandlerStates
  <2> HIDE DEF state
  <2> QED BY <1>2, <1>3, <2>1, HandlerOnlyStep DEF state
<1>4. ASSUME NEW p \in PayoutOf(a),
             handler' = [handler EXCEPT ![h] =
                 [pc |-> "bump", row |-> a, payout |-> p, amount |-> ledger[a].amount]]
      PROVE  IInv'
  <2> DEFINE state == [pc |-> "bump", row |-> a, payout |-> p, amount |-> ledger[a].amount]
  <2>1. p \in PayoutIds
    BY DEF PayoutOf
  <2>2. Holds(state)
    BY <1>1, <2>1 DEF Holds, HandlerStates
  <2> HIDE DEF state
  <2> QED BY <1>2, <1>4, <2>2, HandlerOnlyStep DEF state
<1>5. CASE handler' = handler
  <2>1. handler' = [handler EXCEPT ![h] = handler[h]]
    BY <1>5 DEF IInv, TypeOK, HandlersOK
  <2> QED BY <1>2, <2>1, HandlerHolds, HandlerOnlyStep
<1> QED BY <1>3, <1>4, <1>5 DEF LookUp

(* A send that ends unknown, or a task that dies.                          *)
LEMMA EndHandlerStep ==
    ASSUME IInv, NEW h \in Handlers, EndHandler(h)
    PROVE  IInv'
BY IdleHolds, HandlerOnlyStep DEF EndHandler

(* A payout that has the row and the amount of p.                          *)
LikeOf(p) == [status: {"PENDING", "PAID", "FAILED"}, row: {payouts[p].row},
              amount: {payouts[p].amount}, conversation: BOOLEAN, attempts: Nat]

(* A handler that is past its INSERT has a payout of its row.              *)
LEMMA HandlerHasPayout ==
    ASSUME IInv, NEW h \in Handlers, handler[h].pc \notin {"idle", "insert"}
    PROVE  LET p == handler[h].payout IN
           /\ handler[h] \in HandlerStates
           /\ p \in PayoutIds
           /\ payouts[p] \in LikeOf(p)
           /\ payouts[p].row = handler[h].row
           /\ handler[h].row \in Attendants /\ handler[h].row # NULL
           /\ IsPayable(handler[h].row)
           /\ handler[h].amount = ledger[handler[h].row].amount
           /\ payouts[p].amount = handler[h].amount
<1> DEFINE p == handler[h].payout
           a == handler[h].row
<1>1. handler[h] \in HandlerStates /\ a \in Attendants /\ p \in PayoutOf(a)
  BY DEF IInv, TypeOK, HandlersOK
<1>2. p \in PayoutIds /\ payouts[p].row = a /\ a # NULL
  BY <1>1, ConstantsAssumption DEF PayoutOf
<1>3. IsPayable(a) /\ handler[h].amount = ledger[a].amount
  BY DEF IInv, RequestsAreOfRows
<1>4. payouts[p].amount = ledger[a].amount /\ payouts[p].status # "none"
  BY <1>2 DEF IInv, PayoutsAreOfRows
<1>5. payouts[p] \in LikeOf(p)
  BY <1>2, <1>4 DEF IInv, TypeOK, TablesOK, LikeOf
<1> QED BY <1>1, <1>2, <1>3, <1>4, <1>5

(* A step of one handler that writes its payout, and leaves its row, its   *)
(* amount and its place in the ledger.                                     *)
LEMMA PayoutStep ==
    ASSUME IInv, NEW h \in Handlers, handler[h].pc \notin {"idle", "insert"},
           NEW payout \in LikeOf(handler[h].payout), NEW pc \in {"send", "requested", "failed"},
           payouts' = [payouts EXCEPT ![handler[h].payout] = payout],
           payout.status # payouts[handler[h].payout].status =>
               payouts[handler[h].payout].status = "PENDING" /\ payout.status = "FAILED",
           pc = "failed" => payout.status # "PENDING",
           handler' = [handler EXCEPT ![h].pc = pc],
           UNCHANGED <<ledger, daraja, commission, calls>>
    PROVE  IInv'
<1> DEFINE p == handler[h].payout
           state == [handler[h] EXCEPT !.pc = pc]
<1>0. /\ TypeOK
      /\ UNCHANGED <<ledger, events, b2c, trigger, close, calls>>
      /\ handler' = [handler EXCEPT ![h] = state]
  BY DEF IInv, daraja, commission, TypeOK, HandlersOK
<1>1. /\ handler[h] \in HandlerStates /\ p \in PayoutIds /\ payouts[p] \in LikeOf(p)
      /\ payouts[p].row = handler[h].row /\ handler[h].row \in Attendants
      /\ IsPayable(handler[h].row) /\ handler[h].amount = ledger[handler[h].row].amount
      /\ p \in PayoutOf(handler[h].row)
  BY HandlerHasPayout DEF PayoutOf
<1>2. /\ payout.row = payouts[p].row /\ payout.amount = payouts[p].amount
      /\ payout.status \in {"PENDING", "PAID", "FAILED"}
      /\ payouts[p].status \in {"PENDING", "PAID", "FAILED"}
  BY <1>1 DEF LikeOf
<1>3. \A q \in PayoutIds :
         /\ payouts'[q].row = payouts[q].row
         /\ payouts'[q].amount = payouts[q].amount
         /\ payouts'[q].status # payouts[q].status =>
               payouts[q].status = "PENDING" /\ payouts'[q].status = "FAILED"
  <2>1. \A q \in PayoutIds : payouts'[q] = IF q = p THEN payout ELSE payouts[q]
    BY <1>0, <1>1 DEF TypeOK, TablesOK
  <2> QED BY <1>2, <2>1
<1>4. payouts' \in [PayoutIds -> [status: {"none", "PENDING", "PAID", "FAILED"},
                                  row: Attendants \cup {NULL}, amount: Amounts \cup {0},
                                  conversation: BOOLEAN, attempts: Nat]]
  BY <1>0, <1>1, <1>2 DEF TypeOK, TablesOK, LikeOf
<1>5. \A a : PayoutOf(a)' = PayoutOf(a)
  BY <1>3 DEF PayoutOf
<1>6. /\ state \in HandlerStates /\ state.pc = pc
      /\ state.row = handler[h].row /\ state.payout = p /\ state.amount = handler[h].amount
  BY <1>1 DEF HandlerStates
<1> HIDE DEF state
<1>7. \A g \in Handlers : handler'[g] = IF g = h THEN state ELSE handler[g]
  BY <1>0 DEF TypeOK, HandlersOK
<1>8. TypeOK'
  <2>1. TablesOK' /\ ClosesOK'
    BY <1>0, <1>4 DEF TypeOK, TablesOK, ClosesOK
  <2>2. HandlersOK'
    BY <1>0, <1>1, <1>5, <1>6, <1>7 DEF TypeOK, HandlersOK
  <2> QED BY <2>1, <2>2 DEF TypeOK
<1>9. PayoutsAreOfRows'
  BY <1>0, <1>3 DEF IInv, PayoutsAreOfRows, IsPayable
<1>10. TransfersAreOfPayouts'
  BY <1>0, <1>3 DEF IInv, TransfersAreOfPayouts
<1>11. RequestsAreOfRows'
  BY <1>0, <1>1, <1>6, <1>7 DEF IInv, RequestsAreOfRows, IsPayable
<1>12. FailedBeforeRow'
  <2> SUFFICES ASSUME NEW g \in Handlers, handler'[g].pc = "failed"
               PROVE  payouts'[handler'[g].payout].status # "PENDING"
    BY DEF FailedBeforeRow
  <2>1. CASE g = h
    BY <1>0, <1>1, <1>6, <1>7, <2>1 DEF TypeOK, TablesOK
  <2>2. CASE g # h
    <3>1. handler[g].payout \in PayoutIds /\ payouts[handler[g].payout].status # "PENDING"
      BY <1>0, <1>7, <2>2 DEF IInv, FailedBeforeRow, TypeOK, HandlersOK, PayoutOf
    <3> QED BY <1>3, <1>7, <2>2, <3>1
  <2> QED BY <2>1, <2>2
<1>13. LedgerAgrees'
  BY <1>0, <1>3, <1>5 DEF IInv, LedgerAgrees, PayoutOf
<1> QED BY <1>8, <1>9, <1>10, <1>11, <1>12, <1>13 DEF IInv

LEMMA BumpStep ==
    ASSUME IInv, NEW h \in Handlers, Bump(h)
    PROVE  IInv'
<1> DEFINE p == handler[h].payout
           payout == [payouts[p] EXCEPT !.attempts = @ + 1]
<1>1. handler[h].pc = "bump" /\ p \in PayoutIds /\ payouts[p] \in LikeOf(p)
  BY HandlerHasPayout DEF Bump
<1>2. payout \in LikeOf(p) /\ payout.status = payouts[p].status
  BY <1>1 DEF LikeOf
<1>3. payouts' = [payouts EXCEPT ![p] = payout]
  BY <1>1 DEF Bump, IInv, TypeOK, TablesOK
<1> HIDE DEF payout
<1> QED BY <1>1, <1>2, <1>3, PayoutStep DEF Bump

(* The ack is stored whatever the payout has become, and changes no status.*)
LEMMA StoreAckStep ==
    ASSUME IInv, NEW h \in Handlers, StoreAck(h)
    PROVE  IInv'
<1> DEFINE p == handler[h].payout
           payout == [payouts[p] EXCEPT !.conversation = TRUE]
<1>1. handler[h].pc = "acked" /\ p \in PayoutIds /\ payouts[p] \in LikeOf(p)
  BY HandlerHasPayout DEF StoreAck
<1>2. payout \in LikeOf(p) /\ payout.status = payouts[p].status
  BY <1>1 DEF LikeOf
<1>3. payouts' = [payouts EXCEPT ![p] = payout]
  BY <1>1 DEF StoreAck, IInv, TypeOK, TablesOK
<1> HIDE DEF payout
<1> QED BY <1>1, <1>2, <1>3, PayoutStep DEF StoreAck

(* A refusal fails the payout unless it is settled already.                *)
LEMMA StoreRejectionStep ==
    ASSUME IInv, NEW h \in Handlers, StoreRejection(h)
    PROVE  IInv'
<1> DEFINE p == handler[h].payout
           payout == [payouts[p] EXCEPT !.status = IF @ = "PENDING" THEN "FAILED" ELSE @]
<1>1. handler[h].pc = "rejected" /\ p \in PayoutIds /\ payouts[p] \in LikeOf(p)
  BY HandlerHasPayout DEF StoreRejection
<1>2. /\ payout \in LikeOf(p) /\ payout.status # "PENDING"
      /\ payout.status # payouts[p].status =>
            payouts[p].status = "PENDING" /\ payout.status = "FAILED"
  BY <1>1 DEF LikeOf
<1>3. payouts' = [payouts EXCEPT ![p] = payout]
  BY <1>1 DEF StoreRejection, IInv, TypeOK, TablesOK
<1> HIDE DEF payout
<1> QED BY <1>1, <1>2, <1>3, PayoutStep DEF StoreRejection

(* UNIQUE(ledger_id): a payout is inserted for a row that has none.        *)
LEMMA InsertStep ==
    ASSUME IInv, NEW h \in Handlers, Insert(h)
    PROVE  IInv'
<1> DEFINE a == handler[h].row
<1>0. TablesOK /\ HandlersOK
  BY DEF IInv, TypeOK
<1>1. handler[h].pc = "insert"
  BY DEF Insert
<1>2. /\ handler[h] \in HandlerStates /\ a \in Attendants /\ a # NULL /\ IsPayable(a)
      /\ handler[h].amount = ledger[a].amount /\ handler[h].amount \in Amounts \cup {0}
  BY <1>0, <1>1, ConstantsAssumption DEF IInv, HandlersOK, HandlerStates, RequestsAreOfRows
<1>3. CASE HasPayout(a)
  BY <1>3, IdleHolds, HandlerOnlyStep DEF Insert
<1>4. CASE ~HasPayout(a)
  <2>1. PICK p \in PayoutIds :
            /\ payouts[p].status = "none"
            /\ payouts' = [payouts EXCEPT ![p] = [NoPayout EXCEPT
                   !.status = "PENDING", !.row = a, !.amount = handler[h].amount]]
            /\ handler' = [handler EXCEPT ![h].pc = "bump", ![h].payout = p]
    BY <1>4 DEF Insert
  <2>2. /\ UNCHANGED <<ledger, events, b2c, trigger, close, calls>>
    BY DEF Insert, daraja, commission
  <2> DEFINE payout == [NoPayout EXCEPT !.status = "PENDING", !.row = a,
                                        !.amount = handler[h].amount]
             state == [handler[h] EXCEPT !.pc = "bump", !.payout = p]
  <2>3. payouts' = [payouts EXCEPT ![p] = payout] /\ handler' = [handler EXCEPT ![h] = state]
    BY <1>0, <2>1 DEF HandlersOK
  <2>4. /\ payout \in [status: {"PENDING"}, row: {a}, amount: {ledger[a].amount},
                       conversation: BOOLEAN, attempts: Nat]
        /\ state \in HandlerStates /\ state.pc = "bump" /\ state.payout = p
        /\ state.row = a /\ state.amount = ledger[a].amount
    BY <1>2 DEF NoPayout, HandlerStates
  <2> HIDE DEF payout, state
  <2>5. \A q \in PayoutIds : payouts[q].row # a
    BY <1>4 DEF HasPayout, PayoutOf
  <2>6. payouts[p].row = NULL /\ b2c[p].status = "none"
    BY <2>1 DEF IInv, PayoutsAreOfRows, TransfersAreOfPayouts
  <2>7. \A q \in PayoutIds : payouts'[q] = IF q = p THEN payout ELSE payouts[q]
    BY <1>0, <2>3 DEF TablesOK
  <2>8. \A g \in Handlers : handler'[g] = IF g = h THEN state ELSE handler[g]
    BY <1>0, <2>3 DEF HandlersOK
  <2>9. \A b \in Attendants : PayoutOf(b)' = IF b = a THEN {p} ELSE PayoutOf(b)
    BY <1>2, <2>4, <2>5, <2>6, <2>7, ConstantsAssumption DEF PayoutOf
  <2>10. TypeOK'
    <3>1. TablesOK'
      BY <1>0, <1>2, <2>2, <2>3, <2>4 DEF TablesOK
    <3>2. ClosesOK'
      BY <2>2 DEF IInv, TypeOK, ClosesOK
    <3>3. \A g \in Handlers : handler'[g].pc \notin {"idle", "insert"} =>
              handler'[g].payout \in {q \in PayoutIds : payouts'[q].row = handler'[g].row}
      <4> SUFFICES ASSUME NEW g \in Handlers, handler'[g].pc \notin {"idle", "insert"}
                   PROVE  /\ handler'[g].payout \in PayoutIds
                          /\ payouts'[handler'[g].payout].row = handler'[g].row
        OBVIOUS
      <4>1. CASE g = h
        BY <2>4, <2>7, <2>8, <4>1
      <4>2. CASE g # h
        <5>1. handler'[g] = handler[g]
          BY <2>8, <4>2
        <5>2. /\ handler[g].payout \in PayoutIds
              /\ payouts[handler[g].payout].row = handler[g].row /\ handler[g].row # NULL
          BY <5>1, HandlerHasPayout
        <5> QED BY <2>6, <2>7, <5>1, <5>2
      <4> QED BY <4>1, <4>2
    <3>4. handler' \in [Handlers -> HandlerStates]
      BY <1>0, <2>3, <2>4 DEF HandlersOK
    <3>5. \A g \in Handlers : handler'[g].pc # "idle" => handler'[g].row \in Attendants
      BY <1>0, <1>2, <2>4, <2>8 DEF HandlersOK
    <3>6. HandlersOK'
      BY <3>3, <3>4, <3>5 DEF HandlersOK, PayoutOf
    <3> QED BY <3>1, <3>2, <3>6 DEF TypeOK
  <2>11. PayoutsAreOfRows'
    BY <1>2, <2>2, <2>4, <2>5, <2>7 DEF IInv, PayoutsAreOfRows, IsPayable
  <2>12. RequestsAreOfRows'
    BY <1>2, <2>2, <2>4, <2>8 DEF IInv, RequestsAreOfRows, IsPayable
  <2>13. FailedBeforeRow'
    <3> SUFFICES ASSUME NEW g \in Handlers, handler'[g].pc = "failed"
                 PROVE  payouts'[handler'[g].payout].status # "PENDING"
      BY DEF FailedBeforeRow
    <3>1. g # h /\ handler'[g] = handler[g]
      BY <2>4, <2>8
    <3>2. handler[g].payout \in PayoutIds /\ payouts[handler[g].payout].row # NULL
      BY <3>1, HandlerHasPayout
    <3> QED BY <2>6, <2>7, <3>1, <3>2 DEF IInv, FailedBeforeRow
  <2>14. TransfersAreOfPayouts'
    BY <2>2, <2>6, <2>7 DEF IInv, TransfersAreOfPayouts
  <2>15. LedgerAgrees'
    <3> SUFFICES ASSUME NEW b \in Attendants
                 PROVE  /\ ledger[b].status = "PAID" <=>
                              \E q \in PayoutOf(b)' : payouts'[q].status = "PAID"
                        /\ ledger[b].status = "FAILED" =>
                              \E q \in PayoutOf(b)' : payouts'[q].status = "FAILED"
                        /\ \A q \in PayoutOf(b)' :
                              payouts'[q].status = "PAID" => b2c[q].status = "success"
      BY <2>2 DEF LedgerAgrees
    <3>1. CASE b = a
      <4>1. PayoutOf(b) = {} /\ ledger[b].status \notin {"PAID", "FAILED"}
        BY <2>5, <3>1 DEF IInv, LedgerAgrees, PayoutOf
      <4> QED BY <2>4, <2>7, <2>9, <3>1, <4>1
    <3>2. CASE b # a
      <4>1. PayoutOf(b)' = PayoutOf(b) /\ \A q \in PayoutOf(b) : q \in PayoutIds /\ payouts'[q] = payouts[q]
        BY <2>6, <2>7, <2>9, <3>2, ConstantsAssumption DEF PayoutOf
      <4> QED BY <4>1 DEF IInv, LedgerAgrees
    <3> QED BY <3>1, <3>2
  <2> QED BY <2>10, <2>11, <2>12, <2>13, <2>14, <2>15 DEF IInv
<1> QED BY <1>3, <1>4

(* A request that reaches Daraja is for the amount of its payout.          *)
LEMMA SendStep ==
    ASSUME IInv, NEW h \in Handlers, Send(h)
    PROVE  IInv'
<1> DEFINE p == handler[h].payout
<1>0. TablesOK /\ ClosesOK /\ HandlersOK
  BY DEF IInv, TypeOK
<1>1. /\ p \in PayoutIds /\ payouts[p].row # NULL /\ payouts[p].amount = handler[h].amount
      /\ handler[h] \in HandlerStates /\ handler[h].row \in Attendants
      /\ p \in PayoutOf(handler[h].row) /\ payouts[p].row = handler[h].row
      /\ IsPayable(handler[h].row) /\ handler[h].amount = ledger[handler[h].row].amount
  BY HandlerHasPayout DEF Send, PayoutOf
<1>2. PICK answer \in {"acked", "rejected", "uncertain"}, reached \in BOOLEAN :
          /\ handler' = [handler EXCEPT ![h].pc = answer]
          /\ b2c' = IF reached /\ b2c[p].status = "none"
                    THEN [b2c EXCEPT ![p] = [status |-> "processing",
                                             amount |-> handler[h].amount]]
                    ELSE b2c
  BY DEF Send
<1>3. UNCHANGED <<ledger, payouts, events, trigger, close, calls>>
  BY DEF Send, commission
<1> DEFINE state == [handler[h] EXCEPT !.pc = answer]
<1>4. /\ state \in HandlerStates /\ state.pc = answer /\ state.payout = p
      /\ state.row = handler[h].row /\ state.amount = handler[h].amount
      /\ handler' = [handler EXCEPT ![h] = state]
  BY <1>0, <1>1, <1>2 DEF HandlerStates, HandlersOK
<1> HIDE DEF state
<1>5. \A g \in Handlers : handler'[g] = IF g = h THEN state ELSE handler[g]
  BY <1>0, <1>4 DEF HandlersOK
<1>6. /\ b2c' \in [PayoutIds -> [status: {"none", "processing", "success", "failed"},
                                 amount: Amounts \cup {0}]]
      /\ \A q \in PayoutIds : \/ b2c'[q] = b2c[q]
                              \/ /\ q = p /\ b2c[q].status = "none"
                                 /\ b2c'[q].amount = payouts[q].amount
  BY <1>0, <1>1, <1>2 DEF TablesOK, HandlerStates
<1>7. TypeOK'
  <2>1. TablesOK' /\ ClosesOK'
    BY <1>0, <1>3, <1>6 DEF TablesOK, ClosesOK
  <2>2. HandlersOK'
    BY <1>0, <1>1, <1>3, <1>4, <1>5 DEF HandlersOK, PayoutOf
  <2> QED BY <2>1, <2>2 DEF TypeOK
<1>8. PayoutsAreOfRows'
  BY <1>3 DEF IInv, PayoutsAreOfRows, IsPayable
<1>9. RequestsAreOfRows' /\ FailedBeforeRow'
  BY <1>1, <1>3, <1>4, <1>5 DEF IInv, RequestsAreOfRows, FailedBeforeRow, IsPayable
<1>10. TransfersAreOfPayouts'
  BY <1>1, <1>3, <1>6 DEF IInv, TransfersAreOfPayouts
<1>11. LedgerAgrees'
  BY <1>3, <1>6 DEF IInv, LedgerAgrees, PayoutOf
<1> QED BY <1>7, <1>8, <1>9, <1>10, <1>11 DEF IInv

(* A handler's last step on its row leaves the amount, and settles it only *)
(* as its payout is.                                                       *)
LEMMA RowStep ==
    ASSUME IInv, NEW a \in Attendants, NEW status,
           ledger' = [ledger EXCEPT ![a].status = status],
           \/ ledger[a].status = "COMPUTED" /\ status = "REQUESTED"
           \/ /\ status \in {"PAID", "FAILED"} /\ Open(a)
              /\ \E p \in PayoutOf(a) : payouts'[p].status = status,
           payouts' \in [PayoutIds -> [status: {"none", "PENDING", "PAID", "FAILED"},
                                  row: Attendants \cup {NULL}, amount: Amounts \cup {0},
                                  conversation: BOOLEAN, attempts: Nat]],
           \A q \in PayoutIds :
              /\ payouts'[q].row = payouts[q].row /\ payouts'[q].amount = payouts[q].amount
              /\ payouts[q].status # "PENDING" => payouts'[q].status = payouts[q].status
              /\ payouts'[q].status # payouts[q].status =>
                    /\ q \in PayoutOf(a) /\ payouts'[q].status = status
                    /\ status = "PAID" => b2c[q].status = "success",
           events' \in [Callbacks -> {"absent", "matched", "applied"}],
           \/ UNCHANGED handler
           \/ \E h \in Handlers : handler' = [handler EXCEPT ![h] = IdleHandler],
           UNCHANGED <<b2c, commission, calls>>
    PROVE  IInv'
<1>0. /\ TablesOK /\ ClosesOK /\ HandlersOK
      /\ UNCHANGED <<b2c, trigger, close, calls>>
  BY DEF IInv, TypeOK, commission
<1>1. /\ ledger' \in [Attendants -> [status: {"none", "COMPUTED", "REQUESTED", "PAID",
                                              "FAILED", "SKIPPED"}, amount: Amounts \cup {0}]]
      /\ \A b \in Attendants :
            /\ ledger'[b].amount = ledger[b].amount
            /\ ledger'[b].status = IF b = a THEN status ELSE ledger[b].status
            /\ IsPayable(b) => IsPayable(b)'
  BY <1>0 DEF TablesOK, Open, IsPayable
<1>2. \A b : PayoutOf(b)' = PayoutOf(b)
  BY DEF PayoutOf
<1>3. \A g \in Handlers : handler'[g] = handler[g] \/ handler'[g] = IdleHandler
  BY <1>0 DEF HandlersOK
<1>4. TypeOK'
  <2>1. TablesOK' /\ ClosesOK'
    BY <1>0, <1>1 DEF TablesOK, ClosesOK
  <2>2. handler' \in [Handlers -> HandlerStates]
    BY <1>0 DEF HandlersOK, HandlerStates, IdleHandler
  <2>3. HandlersOK'
    BY <1>0, <1>2, <1>3, <2>2 DEF HandlersOK, IdleHandler
  <2> QED BY <2>1, <2>3 DEF TypeOK
<1>5. PayoutsAreOfRows'
  <2>1. \A p \in PayoutIds : payouts[p].row # NULL => payouts[p].row \in Attendants
    BY <1>0 DEF TablesOK
  <2>2. \A p \in PayoutIds : payouts[p].status # "none" => payouts'[p].status # "none"
    BY <1>0 DEF TablesOK
  <2> QED BY <1>1, <2>1, <2>2 DEF IInv, PayoutsAreOfRows
<1>6. RequestsAreOfRows'
  <2>1. \A call \in calls : call[2] \in Attendants
    BY <1>0 DEF TablesOK
  <2>2. \A h \in Handlers : handler[h].pc # "idle" => handler[h].row \in Attendants
    BY <1>0 DEF HandlersOK
  <2> QED BY <1>0, <1>1, <1>3, <2>1, <2>2 DEF IInv, RequestsAreOfRows, IdleHandler
<1>7. FailedBeforeRow'
  <2>1. \A h \in Handlers : handler[h].pc = "failed" => handler[h].payout \in PayoutIds
    BY <1>0 DEF HandlersOK, PayoutOf
  <2> QED BY <1>3, <2>1 DEF IInv, FailedBeforeRow, IdleHandler
<1>8. TransfersAreOfPayouts'
  BY <1>0 DEF IInv, TransfersAreOfPayouts
<1>9. LedgerAgrees'
  <2> SUFFICES ASSUME NEW b \in Attendants
               PROVE  /\ ledger'[b].status = "PAID" <=>
                            \E q \in PayoutOf(b) : payouts'[q].status = "PAID"
                      /\ ledger'[b].status = "FAILED" =>
                            \E q \in PayoutOf(b) : payouts'[q].status = "FAILED"
                      /\ \A q \in PayoutOf(b) :
                            payouts'[q].status = "PAID" => b2c[q].status = "success"
    BY <1>0, <1>2 DEF LedgerAgrees
  <2>0. /\ ledger[b].status = "PAID" <=> \E q \in PayoutOf(b) : payouts[q].status = "PAID"
        /\ ledger[b].status = "FAILED" => \E q \in PayoutOf(b) : payouts[q].status = "FAILED"
        /\ \A q \in PayoutOf(b) : payouts[q].status = "PAID" => b2c[q].status = "success"
    BY DEF IInv, LedgerAgrees
  <2>1. \A q \in PayoutOf(b) : q \in PayoutIds /\ payouts[q].row = b
    BY DEF PayoutOf
  <2>2. \A q \in PayoutOf(b) : payouts'[q].status = "PAID" => b2c[q].status = "success"
    BY <2>0, <2>1
  <2>3. CASE b # a
    <3>1. \A q \in PayoutOf(b) : payouts'[q].status = payouts[q].status
      BY <2>1, <2>3 DEF PayoutOf
    <3> QED BY <1>1, <2>0, <2>2, <2>3, <3>1
  <2>4. CASE b = a
    <3>1. \A p, q \in PayoutOf(a) : p = q
      BY <2>1, <2>4, ConstantsAssumption DEF IInv, PayoutsAreOfRows
    <3>2. \A q \in PayoutOf(a) : payouts[q].status # "PAID"
      BY <2>0, <2>4 DEF Open
    <3>3. CASE status = "REQUESTED"
      BY <1>1, <2>1, <2>2, <2>4, <3>2, <3>3
    <3>4. CASE status \in {"PAID", "FAILED"}
      BY <1>1, <2>2, <2>4, <3>1, <3>4
    <3> QED BY <3>3, <3>4
  <2> QED BY <2>3, <2>4
<1> QED BY <1>4, <1>5, <1>6, <1>7, <1>8, <1>9 DEF IInv

(* The ack of a row that is still COMPUTED makes it REQUESTED.             *)
LEMMA MarkRequestedStep ==
    ASSUME IInv, NEW h \in Handlers, MarkRequested(h)
    PROVE  IInv'
<1> DEFINE a == handler[h].row
<1>0. TablesOK
  BY DEF IInv, TypeOK
<1>1. a \in Attendants
  BY HandlerHasPayout DEF MarkRequested
<1>2. UNCHANGED <<payouts, events, b2c, commission, calls>>
  BY DEF MarkRequested, daraja
<1>3. CASE ledger[a].status = "COMPUTED"
  <2>1. ledger' = [ledger EXCEPT ![a].status = "REQUESTED"]
    BY <1>0, <1>1, <1>3 DEF MarkRequested, Requested, TablesOK
  <2>2. /\ payouts' \in [PayoutIds -> [status: {"none", "PENDING", "PAID", "FAILED"},
                                       row: Attendants \cup {NULL}, amount: Amounts \cup {0},
                                       conversation: BOOLEAN, attempts: Nat]]
        /\ events' \in [Callbacks -> {"absent", "matched", "applied"}]
        /\ payouts' = payouts
    BY <1>0, <1>2 DEF TablesOK
  <2>3. handler' = [handler EXCEPT ![h] = IdleHandler]
    BY DEF MarkRequested
  <2> HIDE DEF a
  <2>4. IInv'
    BY <1>1, <1>2, <1>3, <2>1, <2>2, <2>3, RowStep
  <2> QED BY <2>4
<1>4. CASE ledger[a].status # "COMPUTED"
  <2>1. ledger' = ledger
    BY <1>0, <1>1, <1>4 DEF MarkRequested, Requested, TablesOK
  <2> QED BY <1>2, <2>1, IdleHolds, HandlerOnlyStep DEF MarkRequested
<1> QED BY <1>3, <1>4

(* The row of a refused request fails after its payout, if it is open: the *)
(* payout is not PAID, or the row were, so the refusal has failed it.      *)
LEMMA MarkFailedStep ==
    ASSUME IInv, NEW h \in Handlers, MarkFailed(h)
    PROVE  IInv'
<1> DEFINE a == handler[h].row
           p == handler[h].payout
<1>0. TablesOK
  BY DEF IInv, TypeOK
<1>1. /\ handler[h].pc = "failed" /\ a \in Attendants /\ p \in PayoutOf(a)
      /\ payouts[p] \in LikeOf(p)
  BY HandlerHasPayout DEF MarkFailed, PayoutOf
<1>2. UNCHANGED <<payouts, events, b2c, commission, calls>>
  BY DEF MarkFailed, daraja
<1>3. CASE Open(a)
  <2>1. ledger' = [ledger EXCEPT ![a].status = "FAILED"]
    BY <1>3 DEF MarkFailed
  <2>2. payouts[p].status # "PAID"
    BY <1>1, <1>3 DEF IInv, LedgerAgrees, Open
  <2>3. payouts[p].status = "FAILED"
    BY <1>1, <2>2 DEF IInv, FailedBeforeRow, LikeOf
  <2>4. \E q \in PayoutOf(a) : payouts'[q].status = "FAILED"
    BY <1>1, <1>2, <2>3
  <2>5. /\ payouts' \in [PayoutIds -> [status: {"none", "PENDING", "PAID", "FAILED"},
                                       row: Attendants \cup {NULL}, amount: Amounts \cup {0},
                                       conversation: BOOLEAN, attempts: Nat]]
        /\ events' \in [Callbacks -> {"absent", "matched", "applied"}]
        /\ payouts' = payouts
    BY <1>0, <1>2 DEF TablesOK
  <2>6. handler' = [handler EXCEPT ![h] = IdleHandler]
    BY DEF MarkFailed
  <2> HIDE DEF a, p
  <2> QED BY <1>1, <1>2, <1>3, <2>1, <2>4, <2>5, <2>6, RowStep
<1>4. CASE ~Open(a)
  BY <1>2, <1>4, IdleHolds, HandlerOnlyStep DEF MarkFailed
<1> QED BY <1>3, <1>4

-----------------------------------------------------------------------------
(* Daraja and its result callbacks. *)

LEMMA TransferEndsStep ==
    ASSUME IInv, NEW p \in PayoutIds, TransferEnds(p)
    PROVE  IInv'
<1>0. TablesOK /\ ClosesOK /\ HandlersOK
  BY DEF IInv, TypeOK
<1>1. PICK result \in {"success", "failed"} : b2c' = [b2c EXCEPT ![p].status = result]
  BY DEF TransferEnds
<1>2. b2c[p].status = "processing" /\ UNCHANGED <<ledger, payouts, events, trigger, close, calls, handler>>
  BY DEF TransferEnds, commission
<1>3. /\ b2c' \in [PayoutIds -> [status: {"none", "processing", "success", "failed"},
                                 amount: Amounts \cup {0}]]
      /\ \A q \in PayoutIds : /\ b2c'[q].amount = b2c[q].amount
                              /\ b2c'[q].status # "none" => b2c[q].status # "none"
                              /\ b2c[q].status = "success" => b2c'[q].status = "success"
  BY <1>0, <1>1, <1>2 DEF TablesOK
<1>4. TypeOK'
  BY <1>0, <1>2, <1>3 DEF TypeOK, TablesOK, ClosesOK, HandlersOK, PayoutOf
<1>5. PayoutsAreOfRows' /\ RequestsAreOfRows' /\ FailedBeforeRow'
  BY <1>2 DEF IInv, PayoutsAreOfRows, RequestsAreOfRows, FailedBeforeRow, IsPayable
<1>6. TransfersAreOfPayouts'
  BY <1>2, <1>3 DEF IInv, TransfersAreOfPayouts
<1>7. LedgerAgrees'
  BY <1>2, <1>3 DEF IInv, LedgerAgrees, PayoutOf
<1> QED BY <1>4, <1>5, <1>6, <1>7 DEF IInv

(* A result settles a payout that is PENDING, and with it its row, which is*)
(* open: it could only be PAID, or FAILED, with this payout.               *)
LEMMA CallbackStep ==
    ASSUME IInv, NEW p \in PayoutIds, NEW kind \in {"paid", "wrong_amount", "failed"},
           Callback(p, kind)
    PROVE  IInv'
<1> DEFINE a == payouts[p].row
           outcome == IF kind = "failed" THEN "FAILED" ELSE "PAID"
<1>0. TablesOK /\ ClosesOK /\ HandlersOK
  BY DEF IInv, TypeOK
<1>1. CASE Settles(p, kind)
  <2>1. /\ payouts' = [payouts EXCEPT ![p].status = outcome]
        /\ ledger' = IF Open(a) THEN [ledger EXCEPT ![a].status = outcome] ELSE ledger
        /\ events' = [events EXCEPT ![<<p, kind>>] = "applied"]
        /\ UNCHANGED <<b2c, commission, calls, handler>>
        /\ payouts[p].status = "PENDING" /\ kind \in {"paid", "failed"}
    BY <1>1 DEF Callback, Settles
  <2>2. b2c[p].status # "none" /\ (outcome = "PAID" => b2c[p].status = "success")
    BY DEF Callback, CanArrive
  <2>3. a \in Attendants /\ a # NULL /\ IsPayable(a) /\ p \in PayoutOf(a)
    BY <1>0, <2>2 DEF IInv, TransfersAreOfPayouts, PayoutsAreOfRows, TablesOK, PayoutOf
  <2>4. \A q \in PayoutOf(a) : q = p
    BY <2>3 DEF IInv, PayoutsAreOfRows, PayoutOf
  <2>5. ledger[a].status \notin {"PAID", "FAILED"}
    BY <2>1, <2>3, <2>4 DEF IInv, LedgerAgrees
  <2>6. Open(a)
    BY <1>0, <2>3, <2>5 DEF TablesOK, Open, IsPayable
  <2>7. /\ payouts' \in [PayoutIds -> [status: {"none", "PENDING", "PAID", "FAILED"},
                                       row: Attendants \cup {NULL}, amount: Amounts \cup {0},
                                       conversation: BOOLEAN, attempts: Nat]]
        /\ payouts'[p].status = outcome
        /\ \A q \in PayoutIds :
              /\ payouts'[q].row = payouts[q].row /\ payouts'[q].amount = payouts[q].amount
              /\ payouts'[q].status # payouts[q].status => q = p
    <3>1. outcome \in {"PAID", "FAILED"} /\ payouts' = [payouts EXCEPT ![p].status = outcome]
      BY <2>1
    <3> HIDE DEF a, outcome
    <3>2. payouts[p] \in [status: {"none", "PENDING", "PAID", "FAILED"},
                          row: Attendants \cup {NULL}, amount: Amounts \cup {0},
                          conversation: BOOLEAN, attempts: Nat]
      BY <1>0 DEF TablesOK
    <3>3. \A q \in PayoutIds :
              payouts'[q] = IF q = p THEN [payouts[p] EXCEPT !.status = outcome] ELSE payouts[q]
      BY <1>0, <3>1 DEF TablesOK
    <3>4. payouts' \in [PayoutIds -> [status: {"none", "PENDING", "PAID", "FAILED"},
                                     row: Attendants \cup {NULL}, amount: Amounts \cup {0},
                                     conversation: BOOLEAN, attempts: Nat]]
      BY <1>0, <3>1, <3>2 DEF TablesOK
    <3> QED BY <3>2, <3>3, <3>4
  <2>8. events' \in [Callbacks -> {"absent", "matched", "applied"}]
    BY <1>0, <2>1 DEF TablesOK
  <2>9. \A q \in PayoutIds :
           /\ payouts[q].status # "PENDING" => payouts'[q].status = payouts[q].status
           /\ payouts'[q].status # payouts[q].status =>
                 /\ q \in PayoutOf(a) /\ payouts'[q].status = outcome
                 /\ outcome = "PAID" => b2c[q].status = "success"
    BY <2>1, <2>2, <2>3, <2>7
  <2>10. outcome \in {"PAID", "FAILED"} /\ ledger' = [ledger EXCEPT ![a].status = outcome]
    BY <2>1, <2>6
  <2>11. \E q \in PayoutOf(a) : payouts'[q].status = outcome
    BY <2>3, <2>7
  <2> HIDE DEF a, outcome
  <2> QED BY <2>1, <2>3, <2>6, <2>7, <2>8, <2>9, <2>10, <2>11, RowStep
<1>2. CASE ~Settles(p, kind)
  <2>1. /\ events' = [events EXCEPT ![<<p, kind>>] = "matched"]
        /\ UNCHANGED <<ledger, payouts, b2c, trigger, close, calls, handler>>
    BY <1>2 DEF Callback, commission
  <2>2. TypeOK'
    BY <1>0, <2>1 DEF TypeOK, TablesOK, ClosesOK, HandlersOK, PayoutOf
  <2>3. PayoutsAreOfRows' /\ RequestsAreOfRows' /\ FailedBeforeRow' /\ TransfersAreOfPayouts'
    BY <2>1 DEF IInv, PayoutsAreOfRows, RequestsAreOfRows, FailedBeforeRow,
                TransfersAreOfPayouts, IsPayable
  <2>4. LedgerAgrees'
    BY <2>1 DEF IInv, LedgerAgrees, PayoutOf
  <2> QED BY <2>2, <2>3, <2>4 DEF IInv
<1> QED BY <1>1, <1>2

-----------------------------------------------------------------------------
(* Every step of the day keeps the invariant.                              *)
LEMMA NextIInv == IInv /\ [Next]_vars => IInv'
<1> SUFFICES ASSUME IInv, [Next]_vars PROVE IInv'
  OBVIOUS
<1>1. ASSUME NEW k \in Closers, CloseStep(k)
      PROVE  IInv'
  BY <1>1, InsertRowStep, RequestPayoutStep, PayoutAnsweredStep, EndCloseStep DEF CloseStep
<1>2. ASSUME NEW h \in Handlers, HandlerStep(h)
      PROVE  IInv'
  BY <1>2, LookUpStep, InsertStep, BumpStep, SendStep, StoreAckStep, MarkRequestedStep,
     StoreRejectionStep, MarkFailedStep, EndHandlerStep DEF HandlerStep
<1>3. ASSUME NEW cb \in Callbacks, Callback(cb[1], cb[2])
      PROVE  IInv'
  BY <1>3, CallbackStep DEF Callbacks
<1>4. CASE UNCHANGED vars
  <2>1. ClosesOK /\ TablesOK
    BY DEF IInv, TypeOK
  <2>2. ClosesOK' /\ UNCHANGED <<ledger, payouts, daraja, trigger, calls, handler>>
    BY <1>4, <2>1 DEF vars, daraja, ClosesOK
  <2> QED BY <2>1, <2>2, CloseOnlyStep DEF TablesOK
<1> QED BY <1>1, <1>2, <1>3, <1>4, ReceiveStep, StartDrillStep, DeadLetterStep, TransferEndsStep
        DEF Next

(* The invariant holds of every reachable state.                           *)
THEOREM PayoutsInvariant == Spec => []IInv
BY InitIInv, NextIInv, PTL DEF Spec

(* Every variable keeps to its kind, and no close or handler of POST       *)
(* /payouts writes for a row or a payout it does not have.                 *)
THEOREM PayoutsTypeCorrect == Spec => []TypeOK
<1>1. IInv => TypeOK
  BY DEF IInv
<1> QED BY <1>1, PayoutsInvariant, PTL

(* I4, "duplicate disbursement = 0": Daraja is asked to pay a row of the   *)
(* ledger under one OriginatorConversationID, however many triggers,       *)
(* closes and requests there are (createPayout, UNIQUE(ledger_id)).        *)
THEOREM DisbursedOnce == Spec => []OneDisbursement
<1>1. IInv => OneDisbursement
  BY DEF IInv, OneDisbursement, TransfersAreOfPayouts, PayoutsAreOfRows
<1> QED BY <1>1, PayoutsInvariant, PTL

(* What Daraja is asked to pay is what the row was computed with: the      *)
(* payout copies it, and no later close changes it (ON CONFLICT DO         *)
(* NOTHING).                                                               *)
THEOREM AmountsKept == Spec => []AmountsAgree
<1>1. IInv => AmountsAgree
  BY DEF IInv, AmountsAgree, TransfersAreOfPayouts, PayoutsAreOfRows
<1> QED BY <1>1, PayoutsInvariant, PTL

(* A row is PAID exactly when its payout is, and FAILED only with it, in   *)
(* whatever order ack, refusal and result come.                            *)
THEOREM LedgerFollowsPayouts == Spec => []LedgerAgrees
<1>1. IInv => LedgerAgrees
  BY DEF IInv
<1> QED BY <1>1, PayoutsInvariant, PTL

-----------------------------------------------------------------------------
(* The action property. *)

FinalRows ==
    \A a \in Attendants :
        /\ ledger[a].status \in {"PAID", "FAILED", "SKIPPED"} =>
              ledger'[a].status = ledger[a].status
        /\ ledger[a].status # "none" => ledger'[a].status # "none"
                                        /\ ledger'[a].amount = ledger[a].amount

(* Only four steps write the ledger, and each looks at the row it writes.  *)
LEMMA LedgerWriters ==
    ASSUME Next
    PROVE  \/ UNCHANGED ledger
           \/ \E k \in Closers : InsertRow(k)
           \/ \E h \in Handlers : MarkRequested(h) \/ MarkFailed(h)
           \/ \E cb \in Callbacks : Callback(cb[1], cb[2])
BY DEF Next, Receive, StartDrill, CloseStep, RequestPayout, PayoutAnswered, Finish, Abort,
       DeadLetter, HandlerStep, LookUp, Insert, Bump, Send, StoreAck, StoreRejection,
       EndHandler, TransferEnds

LEMMA StepKeepsRows == TypeOK /\ [Next]_vars => FinalRows
<1> SUFFICES ASSUME TypeOK, [Next]_vars PROVE FinalRows
  OBVIOUS
<1>0. ledger \in [Attendants -> [status: {"none", "COMPUTED", "REQUESTED", "PAID", "FAILED",
                                         "SKIPPED"}, amount: Amounts \cup {0}]]
  BY DEF TypeOK, TablesOK
<1>1. CASE UNCHANGED ledger
  BY <1>1 DEF FinalRows
<1>2. ASSUME NEW k \in Closers, InsertRow(k)
      PROVE  FinalRows
  BY <1>0, <1>2 DEF InsertRow, Inserted, Computed, FinalRows
<1>3. ASSUME NEW h \in Handlers, MarkRequested(h)
      PROVE  FinalRows
  BY <1>0, <1>3 DEF MarkRequested, Requested, FinalRows
<1>4. ASSUME NEW a, NEW status \in {"PAID", "FAILED"}, Open(a),
             ledger' = [ledger EXCEPT ![a].status = status]
      PROVE  FinalRows
  BY <1>0, <1>4 DEF Open, FinalRows
<1>5. ASSUME NEW h \in Handlers, MarkFailed(h)
      PROVE  FinalRows
  BY <1>1, <1>4, <1>5 DEF MarkFailed
<1>6. ASSUME NEW cb \in Callbacks, Callback(cb[1], cb[2])
      PROVE  FinalRows
  BY <1>1, <1>4, <1>6 DEF Callback
<1> QED BY <1>1, <1>2, <1>3, <1>5, <1>6, LedgerWriters DEF vars

(* PAID, FAILED and SKIPPED rows stay what they are, and no row is computed*)
(* twice, whatever ack, refusal, result or replay comes late.              *)
THEOREM RowsStayFinal == Spec => RowsAreFinal
<1>1. TypeOK /\ [Next]_vars => [FinalRows]_vars
  BY StepKeepsRows
<1> QED BY <1>1, PayoutsTypeCorrect, PTL DEF Spec, RowsAreFinal, FinalRows

=============================================================================
