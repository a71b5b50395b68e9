---------------------------- MODULE ChargesProofs ----------------------------
(***************************************************************************)
(* Theorems about Charges, for every set of charges, sales, handlers and   *)
(* passes, every limit and every mix of customers and anomalies.           *)
(***************************************************************************)
EXTENDS Charges, TLAPS

LEMMA InitTypeOK == Init => TypeOK
  BY ConstantsAssumption
  DEF Init, TypeOK, RowsOK, RequestsOK, DeliveriesOK, PassesOK, Row, NoRow, Callbacks,
      Verdicts, IdleRequest, IdleDelivery, IdlePass, RequestState, DeliveryState, PassState

LEMMA RequestTypeOK ==
  ASSUME TypeOK, NEW p \in Requests, RequestStep(p)
  PROVE  TypeOK'
<1> USE ConstantsAssumption DEF TypeOK
<1>1. CASE \E s \in Sales : LookUp(p, s)
  <2>1. RowsOK'
    BY <1>1 DEF LookUp, RowsOK
  <2>2. RequestsOK'
    BY <1>1 DEF LookUp, RequestsOK, RequestState
  <2>3. DeliveriesOK'
    BY <1>1 DEF LookUp, DeliveriesOK
  <2>4. PassesOK'
    BY <1>1 DEF LookUp, PassesOK
  <2>5. QED
    BY <2>1, <2>2, <2>3, <2>4 DEF TypeOK
<1>2. CASE Insert(p)
  <2>1. RowsOK'
    <3>1. request[p].sale \in Sales
      BY <1>2 DEF Insert, RequestsOK
    <3>2. [NoRow EXCEPT !.status = "PENDING", !.sale = request[p].sale, !.createdAt = clock] \in Row
      <4>1. clock \in Nat
        BY DEF RowsOK
      <4>2. QED
        BY <3>1, <4>1 DEF NoRow, Row
    <3>3. charges' \in [ChargeIds -> Row]
      BY <1>2, <3>2 DEF Insert, RowsOK
    <3>4. QED
      BY <1>2, <3>3 DEF Insert, RowsOK
  <2>2. RequestsOK'
    BY <1>2 DEF Insert, RequestsOK, RequestState, IdleRequest
  <2>3. DeliveriesOK'
    BY <1>2 DEF Insert, DeliveriesOK
  <2>4. PassesOK'
    BY <1>2 DEF Insert, PassesOK
  <2>5. QED
    BY <2>1, <2>2, <2>3, <2>4 DEF TypeOK
<1>3. CASE Push(p)
  <2>1. RowsOK'
    BY <1>3 DEF Push, RowsOK, RequestsOK
  <2>2. RequestsOK'
    BY <1>3 DEF Push, RequestsOK, RequestState
  <2>3. DeliveriesOK'
    BY <1>3 DEF Push, DeliveriesOK
  <2>4. PassesOK'
    BY <1>3 DEF Push, PassesOK
  <2>5. QED
    BY <2>1, <2>2, <2>3, <2>4 DEF TypeOK
<1>4. CASE StoreAck(p)
  <2>1. RowsOK'
    BY <1>4 DEF StoreAck, RowsOK, Row, RequestsOK
  <2>2. RequestsOK'
    BY <1>4 DEF StoreAck, RequestsOK, RequestState, IdleRequest
  <2>3. DeliveriesOK'
    BY <1>4 DEF StoreAck, DeliveriesOK
  <2>4. PassesOK'
    BY <1>4 DEF StoreAck, PassesOK
  <2>5. QED
    BY <2>1, <2>2, <2>3, <2>4 DEF TypeOK
<1>5. CASE StoreRejection(p)
  <2>1. RowsOK'
    BY <1>5 DEF StoreRejection, Refused, RowsOK, Row, RequestsOK
  <2>2. RequestsOK'
    BY <1>5 DEF StoreRejection, RequestsOK, RequestState, IdleRequest
  <2>3. DeliveriesOK'
    BY <1>5 DEF StoreRejection, DeliveriesOK
  <2>4. PassesOK'
    BY <1>5 DEF StoreRejection, PassesOK
  <2>5. QED
    BY <2>1, <2>2, <2>3, <2>4 DEF TypeOK
<1>6. CASE EndRequest(p)
  <2>1. RowsOK'
    BY <1>6 DEF EndRequest, RowsOK
  <2>2. RequestsOK'
    BY <1>6 DEF EndRequest, RequestsOK, RequestState, IdleRequest
  <2>3. DeliveriesOK'
    BY <1>6 DEF EndRequest, DeliveriesOK
  <2>4. PassesOK'
    BY <1>6 DEF EndRequest, PassesOK
  <2>5. QED
    BY <2>1, <2>2, <2>3, <2>4 DEF TypeOK
<1>7. QED
  BY <1>1, <1>2, <1>3, <1>4, <1>5, <1>6 DEF RequestStep

(* A delivery that has found its charge keeps to its type. *)
LEMMA CommitState ==
  ASSUME NEW x \in DeliveryState, NEW c \in ChargeIds, NEW h \in BOOLEAN
  PROVE  /\ [x EXCEPT !.pc = "commit", !.charge = c, !.adopt = h] \in DeliveryState
         /\ [x EXCEPT !.pc = "commit", !.charge = c, !.sawHold = h] \in DeliveryState
  BY DEF DeliveryState

LEMMA DeliveryUpdate ==
  ASSUME DeliveriesOK, NEW d \in Deliveries, NEW x \in DeliveryState,
         delivery' = [delivery EXCEPT ![d] = x],
         x.pc # "idle" => x.cb \in Callbacks,
         x.pc = "commit" => x.charge \in ChargeIds
  PROVE  DeliveriesOK'
  BY DEF DeliveriesOK

LEMMA HoldRow ==
  ASSUME NEW x \in Row
  PROVE  [x EXCEPT !.held = TRUE] \in Row
  BY DEF Row

LEMMA ReleaseRow ==
  ASSUME NEW x \in Row
  PROVE  [x EXCEPT !.held = FALSE, !.attempts = 0] \in Row
  BY DEF Row

LEMMA BatchState ==
  ASSUME NEW x \in PassState, NEW b \in SUBSET (ChargeIds \X (ChargeIds \cup {NULL}))
  PROVE  [x EXCEPT !.pc = "next", !.batch = b] \in PassState
  BY DEF PassState

LEMMA DeliveryTypeOK ==
  ASSUME TypeOK, NEW d \in Deliveries, DeliveryStep(d)
  PROVE  TypeOK'
<1> USE ConstantsAssumption DEF TypeOK
<1>1. CASE \E cb \in Callbacks : Receive(d, cb)
  <2>1. RowsOK'
    BY <1>1 DEF Receive, RowsOK
  <2>2. RequestsOK'
    BY <1>1 DEF Receive, RequestsOK
  <2>3. DeliveriesOK'
    <3>1. PICK cb \in Callbacks : Receive(d, cb)
      BY <1>1
    <3>2. PICK pc \in {"ask", "record"}, v \in Verdicts :
             delivery' = [delivery EXCEPT ![d] =
                 [IdleDelivery EXCEPT !.cb = cb, !.pc = pc, !.verdict = v]]
      BY <3>1 DEF Receive, Verdicts
    <3>3. [IdleDelivery EXCEPT !.cb = cb, !.pc = pc, !.verdict = v] \in DeliveryState
      BY DEF IdleDelivery, DeliveryState
    <3>4. QED
      BY <3>2, <3>3 DEF DeliveriesOK, IdleDelivery
  <2>4. PassesOK'
    BY <1>1 DEF Receive, PassesOK
  <2>5. QED
    BY <2>1, <2>2, <2>3, <2>4 DEF TypeOK
<1>2. CASE Ask(d)
  <2>1. RowsOK'
    BY <1>2 DEF Ask, RowsOK
  <2>2. RequestsOK'
    BY <1>2 DEF Ask, RequestsOK
  <2>3. DeliveriesOK'
    BY <1>2 DEF Ask, DeliveriesOK, DeliveryState, IdleDelivery, Verdicts
  <2>4. PassesOK'
    BY <1>2 DEF Ask, PassesOK
  <2>5. QED
    BY <2>1, <2>2, <2>3, <2>4 DEF TypeOK
<1>3. CASE Record(d)
  <2>1. RowsOK'
    BY <1>3 DEF Record, RowsOK, DeliveriesOK
  <2>2. RequestsOK'
    BY <1>3 DEF Record, RequestsOK
  <2>3. DeliveriesOK'
    <3>1. delivery[d].cb \in Callbacks
      BY <1>3 DEF Record, DeliveriesOK
    <3>2. ASSUME NEW c \in ChargeIds,
                 delivery' = [delivery EXCEPT ![d].pc = "commit", ![d].charge = c,
                                              ![d].sawHold = charges[c].held]
          PROVE  DeliveriesOK'
      <4> DEFINE x == [delivery[d] EXCEPT !.pc = "commit", !.charge = c,
                                          !.sawHold = charges[c].held]
      <4>1. charges[c].held \in BOOLEAN
        BY DEF RowsOK, Row
      <4>2. delivery[d] \in DeliveryState
        BY DEF DeliveriesOK
      <4>3. x \in DeliveryState
        BY <4>1, <4>2, CommitState
      <4>4. x.cb = delivery[d].cb /\ x.charge = c
        BY <4>2 DEF DeliveryState
      <4>5. delivery' = [delivery EXCEPT ![d] = x]
        BY <3>2
      <4> HIDE DEF x
      <4>6. QED
        BY <3>1, <4>3, <4>4, <4>5, DeliveryUpdate
    <3>3. CASE delivery' = [delivery EXCEPT ![d].pc = "adopt"]
      BY <3>1, <3>3 DEF DeliveriesOK, DeliveryState
    <3>4. CASE delivery' = [delivery EXCEPT ![d] = IdleDelivery]
      BY <3>4 DEF DeliveriesOK, DeliveryState, IdleDelivery, Verdicts
    <3>5. QED
      BY <1>3, <3>2, <3>3, <3>4 DEF Record
  <2>4. PassesOK'
    BY <1>3 DEF Record, PassesOK
  <2>5. QED
    BY <2>1, <2>2, <2>3, <2>4 DEF TypeOK
<1>4. CASE Adopt(d)
  <2>1. RowsOK'
    BY <1>4 DEF Adopt, RowsOK, DeliveriesOK
  <2>2. RequestsOK'
    BY <1>4 DEF Adopt, RequestsOK
  <2>3. DeliveriesOK'
    <3>1. delivery[d].cb \in Callbacks
      BY <1>4 DEF Adopt, DeliveriesOK
    <3>2. ASSUME NEW c \in ChargeIds,
                 delivery' = [delivery EXCEPT ![d].pc = "commit", ![d].charge = c,
                                              ![d].adopt = TRUE]
          PROVE  DeliveriesOK'
      <4> DEFINE x == [delivery[d] EXCEPT !.pc = "commit", !.charge = c, !.adopt = TRUE]
      <4>1. delivery[d] \in DeliveryState
        BY DEF DeliveriesOK
      <4>2. x \in DeliveryState
        BY <4>1, CommitState
      <4>3. x.cb = delivery[d].cb /\ x.charge = c
        BY <4>1 DEF DeliveryState
      <4>4. delivery' = [delivery EXCEPT ![d] = x]
        BY <3>2
      <4> HIDE DEF x
      <4>5. QED
        BY <3>1, <4>2, <4>3, <4>4, DeliveryUpdate
    <3>3. CASE delivery' = [delivery EXCEPT ![d] = IdleDelivery]
      BY <3>3 DEF DeliveriesOK, DeliveryState, IdleDelivery, Verdicts
    <3>4. QED
      BY <1>4, <3>2, <3>3 DEF Adopt, TheOnly, Adoptable
  <2>4. PassesOK'
    BY <1>4 DEF Adopt, PassesOK
  <2>5. QED
    BY <2>1, <2>2, <2>3, <2>4 DEF TypeOK
<1>5. CASE CommitUnclaimed(d)
  <2>1. RowsOK'
    BY <1>5 DEF CommitUnclaimed, RowsOK, DeliveriesOK
  <2>2. RequestsOK'
    BY <1>5 DEF CommitUnclaimed, RequestsOK
  <2>3. DeliveriesOK'
    BY <1>5 DEF CommitUnclaimed, DeliveriesOK, DeliveryState, IdleDelivery, Verdicts
  <2>4. PassesOK'
    BY <1>5 DEF CommitUnclaimed, PassesOK
  <2>5. QED
    BY <2>1, <2>2, <2>3, <2>4 DEF TypeOK
<1>6. CASE CommitHold(d)
  <2>1. RowsOK'
    <3>1. delivery[d].charge \in ChargeIds /\ delivery[d].cb \in Callbacks
      BY <1>6 DEF CommitHold, Claimed, DeliveriesOK
    <3>2. charges' \in [ChargeIds -> Row]
      <4>1. [charges[delivery[d].charge] EXCEPT !.held = TRUE] \in Row
        BY <3>1, HoldRow DEF RowsOK
      <4>2. QED
        BY <1>6, <3>1, <4>1 DEF CommitHold, RowsOK
    <3>3. events' \in [Callbacks -> {"absent", "unmatched", "matched", "applied"}]
      BY <1>6, <3>1 DEF CommitHold, RowsOK
    <3>4. QED
      BY <1>6, <3>2, <3>3 DEF CommitHold, RowsOK
  <2>2. RequestsOK'
    BY <1>6 DEF CommitHold, RequestsOK
  <2>3. DeliveriesOK'
    BY <1>6 DEF CommitHold, DeliveriesOK, DeliveryState, IdleDelivery, Verdicts
  <2>4. PassesOK'
    BY <1>6 DEF CommitHold, PassesOK
  <2>5. QED
    BY <2>1, <2>2, <2>3, <2>4 DEF TypeOK
<1>7. CASE CommitRefused(d)
  <2>1. RowsOK'
    BY <1>7 DEF CommitRefused, RowsOK, Claimed, Row, Callbacks, DeliveriesOK
  <2>2. RequestsOK'
    BY <1>7 DEF CommitRefused, RequestsOK
  <2>3. DeliveriesOK'
    BY <1>7 DEF CommitRefused, DeliveriesOK, DeliveryState, IdleDelivery, Verdicts
  <2>4. PassesOK'
    BY <1>7 DEF CommitRefused, PassesOK
  <2>5. QED
    BY <2>1, <2>2, <2>3, <2>4 DEF TypeOK
<1>8. CASE CommitResolve(d)
  <2>1. RowsOK'
    <3> DEFINE c == delivery[d].charge
               r == IF delivery[d].adopt THEN delivery[d].cb.ref ELSE charges[c].ref
    <3>1. c \in ChargeIds /\ delivery[d].cb \in Callbacks /\ delivery[d].verdict \in Verdicts
      BY <1>8 DEF CommitResolve, Claimed, DeliveriesOK, DeliveryState
    <3>2. r \in ChargeIds \cup {NULL}
      BY <3>1 DEF Callbacks, RowsOK, Row
    <3>3. Resolve(c, r, delivery[d].cb.kind = "paid", "callback", ~delivery[d].sawHold)
      BY <1>8 DEF CommitResolve
    <3>4. charges' \in [ChargeIds -> Row]
      <4> HIDE DEF c, r
      <4>1. QED
        BY <3>1, <3>2, <3>3 DEF Resolve, RowsOK, Row
    <3>5. outbox' \subseteq ChargeIds
      BY <3>1, <3>3 DEF Resolve, RowsOK
    <3>6. events' \in [Callbacks -> {"absent", "unmatched", "matched", "applied"}]
      BY <1>8, <3>1 DEF CommitResolve, RowsOK
    <3>7. evidence' \in [ChargeIds -> {"none"} \cup Verdicts]
      BY <1>8, <3>1 DEF CommitResolve, RowsOK
    <3>8. QED
      BY <1>8, <3>4, <3>5, <3>6, <3>7 DEF CommitResolve, RowsOK
  <2>2. RequestsOK'
    BY <1>8 DEF CommitResolve, RequestsOK
  <2>3. DeliveriesOK'
    BY <1>8 DEF CommitResolve, DeliveriesOK, DeliveryState, IdleDelivery, Verdicts
  <2>4. PassesOK'
    BY <1>8 DEF CommitResolve, PassesOK
  <2>5. QED
    BY <2>1, <2>2, <2>3, <2>4 DEF TypeOK
<1>9. CASE CrashDelivery(d)
  <2>1. RowsOK'
    BY <1>9 DEF CrashDelivery, RowsOK
  <2>2. RequestsOK'
    BY <1>9 DEF CrashDelivery, RequestsOK
  <2>3. DeliveriesOK'
    BY <1>9 DEF CrashDelivery, DeliveriesOK, DeliveryState, IdleDelivery, Verdicts
  <2>4. PassesOK'
    BY <1>9 DEF CrashDelivery, PassesOK
  <2>5. QED
    BY <2>1, <2>2, <2>3, <2>4 DEF TypeOK
<1>10. QED
  BY <1>1, <1>2, <1>3, <1>4, <1>5, <1>6, <1>7, <1>8, <1>9 DEF DeliveryStep

LEMMA PassTypeOK ==
  ASSUME TypeOK, NEW r \in Passes, PassStep(r)
  PROVE  TypeOK'
<1> USE ConstantsAssumption DEF TypeOK
<1>1. CASE StartPass(r)
  <2>1. RowsOK'
    BY <1>1 DEF StartPass, RowsOK
  <2>2. RequestsOK'
    BY <1>1 DEF StartPass, RequestsOK
  <2>3. DeliveriesOK'
    BY <1>1 DEF StartPass, DeliveriesOK
  <2>4. PassesOK'
    <3> DEFINE found == {<<c, charges[c].ref>> : c \in Candidates}
    <3>1. found \in SUBSET (ChargeIds \X (ChargeIds \cup {NULL}))
      BY DEF Candidates, RowsOK, Row
    <3>2. pass' = [pass EXCEPT ![r].pc = "next", ![r].batch = found]
      BY <1>1 DEF StartPass
    <3> HIDE DEF found
    <3>3. [pass[r] EXCEPT !.pc = "next", !.batch = found] \in PassState
      BY <3>1, BatchState DEF PassesOK
    <3>4. QED
      BY <3>2, <3>3 DEF PassesOK
  <2>5. QED
    BY <2>1, <2>2, <2>3, <2>4 DEF TypeOK
<1>2. CASE Examine(r)
  <2>1. RowsOK'
    <3>1. PICK e \in pass[r].batch : charges' = Bump(e[1])
      BY <1>2 DEF Examine
    <3>2. e[1] \in ChargeIds
      BY DEF PassesOK, PassState
    <3>3. charges' \in [ChargeIds -> Row]
      BY <3>1, <3>2 DEF Bump, RowsOK, Row
    <3>4. QED
      BY <1>2, <3>3 DEF Examine, RowsOK
  <2>2. RequestsOK'
    BY <1>2 DEF Examine, RequestsOK
  <2>3. DeliveriesOK'
    BY <1>2 DEF Examine, DeliveriesOK
  <2>4. PassesOK'
    <3>1. PICK e \in pass[r].batch : pass' = [pass EXCEPT ![r] = After(r, e)]
      BY <1>2 DEF Examine
    <3>2. /\ After(r, e) \in PassState
          /\ After(r, e).pc # "apply"
      BY DEF PassesOK, PassState, IdlePass, After
    <3>3. QED
      BY <3>1, <3>2 DEF PassesOK
  <2>5. QED
    BY <2>1, <2>2, <2>3, <2>4 DEF TypeOK
<1>3. CASE Query(r)
  <2>1. RowsOK'
    BY <1>3 DEF Query, RowsOK
  <2>2. RequestsOK'
    BY <1>3 DEF Query, RequestsOK
  <2>3. DeliveriesOK'
    BY <1>3 DEF Query, DeliveriesOK
  <2>4. PassesOK'
    BY <1>3 DEF Query, PassesOK, PassState, IdlePass, RowsOK
  <2>5. QED
    BY <2>1, <2>2, <2>3, <2>4 DEF TypeOK
<1>4. CASE ApplyAnswer(r)
  <2>1. RowsOK'
    BY <1>4 DEF ApplyAnswer, RowsOK, Bump, Row, Verdicts, PassesOK
  <2>2. RequestsOK'
    BY <1>4 DEF ApplyAnswer, RequestsOK
  <2>3. DeliveriesOK'
    BY <1>4 DEF ApplyAnswer, DeliveriesOK
  <2>4. PassesOK'
    BY <1>4 DEF ApplyAnswer, PassesOK, PassState, IdlePass
  <2>5. QED
    BY <2>1, <2>2, <2>3, <2>4 DEF TypeOK
<1>5. CASE CrashPass(r)
  <2>1. RowsOK'
    BY <1>5 DEF CrashPass, RowsOK
  <2>2. RequestsOK'
    BY <1>5 DEF CrashPass, RequestsOK
  <2>3. DeliveriesOK'
    BY <1>5 DEF CrashPass, DeliveriesOK
  <2>4. PassesOK'
    BY <1>5 DEF CrashPass, PassesOK, PassState, IdlePass
  <2>5. QED
    BY <2>1, <2>2, <2>3, <2>4 DEF TypeOK
<1>6. QED
  BY <1>1, <1>2, <1>3, <1>4, <1>5 DEF PassStep

LEMMA OthersTypeOK ==
  ASSUME TypeOK,
         \/ \E c \in ChargeIds : Release(c)
         \/ \E age \in PurgeAges : PurgeAbandoned(age)
         \/ \E c \in ChargeIds : CustomerAnswers(c)
         \/ Tick
  PROVE  TypeOK'
<1> USE DEF TypeOK
<1>1. RequestsOK' /\ DeliveriesOK' /\ PassesOK'
  BY DEF RequestsOK, DeliveriesOK, PassesOK, Release, PurgeAbandoned, CustomerAnswers, Tick
<1>2. RowsOK'
  <2>1. ASSUME NEW c \in ChargeIds, Release(c) PROVE RowsOK'
    <3>1. [charges[c] EXCEPT !.held = FALSE, !.attempts = 0] \in Row
      BY ReleaseRow DEF RowsOK
    <3>2. charges' \in [ChargeIds -> Row]
      BY <2>1, <3>1 DEF Release, RowsOK
    <3>3. QED
      BY <2>1, <3>2 DEF Release, RowsOK
  <2>2. ASSUME NEW age \in PurgeAges, PurgeAbandoned(age) PROVE RowsOK'
    <3>1. ASSUME NEW c \in ChargeIds PROVE charges'[c] \in Row
      BY <2>2, <3>1 DEF PurgeAbandoned, RowsOK, Row
    <3>2. charges' \in [ChargeIds -> Row]
      BY <2>2, <3>1 DEF PurgeAbandoned
    <3>3. QED
      BY <2>2, <3>2 DEF PurgeAbandoned, RowsOK
  <2>3. ASSUME NEW c \in ChargeIds, CustomerAnswers(c) PROVE RowsOK'
    BY <2>3 DEF CustomerAnswers, RowsOK
  <2>4. ASSUME Tick PROVE RowsOK'
    BY <2>4, ConstantsAssumption DEF Tick, RowsOK
  <2>5. QED
    BY <2>1, <2>2, <2>3, <2>4
<1>3. QED
  BY <1>1, <1>2

LEMMA StutterTypeOK == TypeOK /\ UNCHANGED vars => TypeOK'
  BY DEF vars, TypeOK, RowsOK, RequestsOK, DeliveriesOK, PassesOK

(* The types hold in every reachable state, of any instance. *)
THEOREM TypeCorrect == Spec => []TypeOK
<1>1. TypeOK /\ [Next]_vars => TypeOK'
  <2> SUFFICES ASSUME TypeOK, [Next]_vars PROVE TypeOK'
    OBVIOUS
  <2>1. CASE Next
    BY <2>1, RequestTypeOK, DeliveryTypeOK, PassTypeOK, OthersTypeOK DEF Next
  <2>2. CASE UNCHANGED vars
    BY <2>2, StutterTypeOK
  <2>3. QED
    BY <2>1, <2>2
<1>2. QED
  BY InitTypeOK, <1>1, PTL DEF Spec

-----------------------------------------------------------------------------
(***************************************************************************)
(* What one step may do to the table and the outbox.  Every safety theorem *)
(* below rests on these facts alone, so this is where the handlers are     *)
(* looked at one by one.                                                   *)
(***************************************************************************)

(* Steps that move no charge: rows keep everything the ledger is about.    *)
Keeps(c) ==
    /\ charges'[c].status = charges[c].status
    /\ charges'[c].sale = charges[c].sale
    /\ charges'[c].resolvedBy = charges[c].resolvedBy
    /\ Pending(c) \/ charges'[c].ref = charges[c].ref

Opens(c) ==
    /\ charges[c].status = "none" /\ charges'[c].status = "PENDING"
    /\ charges'[c].sale \in Sales
    /\ charges'[c].resolvedBy = "none"
    /\ ~HasCharge(charges'[c].sale)

Settles(c) ==
    /\ Unheld(c) /\ charges'[c].status = "PAID"
    /\ charges'[c].sale = charges[c].sale

Fails(c) ==
    /\ Pending(c) /\ charges'[c].status = "FAILED"
    /\ charges'[c].sale = charges[c].sale
    /\ Unheld(c) \/ charges'[c].resolvedBy = charges[c].resolvedBy

Drops(c) ==
    /\ Unheld(c) /\ charges[c].ref = NULL /\ charges'[c].status = "deleted"
    /\ charges'[c].sale = charges[c].sale
    /\ charges'[c].resolvedBy = charges[c].resolvedBy

Others(c) == \A b \in ChargeIds \ {c} : Keeps(b)

StepShape ==
    \/ /\ \A c \in ChargeIds : Keeps(c)
       /\ outbox' = outbox
    \/ \E c \in ChargeIds :
          /\ Others(c)
          /\ \/ Opens(c) /\ outbox' = outbox
             \/ Settles(c) /\ outbox' = outbox \cup {c}
             \/ Fails(c) /\ outbox' = outbox
    \/ /\ PurgeAges # {}
       /\ \A c \in ChargeIds : Keeps(c) \/ Drops(c)
       /\ outbox' = outbox

LEMMA RequestShape ==
  ASSUME TypeOK, NEW p \in Requests, RequestStep(p)
  PROVE  StepShape
<1> USE DEF TypeOK, RowsOK
<1>1. CASE \E s \in Sales : LookUp(p, s)
  BY <1>1 DEF LookUp, StepShape, Keeps
<1>2. CASE Insert(p)
  <2>1. CASE UNCHANGED charges
    BY <1>2, <2>1 DEF Insert, StepShape, Keeps
  <2>2. CASE \E c \in ChargeIds :
               /\ charges[c].status = "none"
               /\ charges' = [charges EXCEPT ![c] =
                      [NoRow EXCEPT !.status = "PENDING", !.sale = request[p].sale,
                                    !.createdAt = clock]]
    <3>1. PICK c \in ChargeIds :
             /\ charges[c].status = "none"
             /\ charges' = [charges EXCEPT ![c] =
                    [NoRow EXCEPT !.status = "PENDING", !.sale = request[p].sale,
                                  !.createdAt = clock]]
      BY <2>2
    <3>2. request[p].sale \in Sales
      BY <1>2 DEF Insert, RequestsOK
    <3>3. CASE HasCharge(request[p].sale)
      BY <1>2, <3>3 DEF Insert, StepShape, Keeps
    <3>4. CASE ~HasCharge(request[p].sale)
      <4>1. Opens(c)
        BY <3>1, <3>2, <3>4 DEF Opens, NoRow
      <4>2. Others(c)
        BY <3>1 DEF Others, Keeps
      <4>3. outbox' = outbox
        BY <1>2 DEF Insert
      <4>4. QED
        BY <4>1, <4>2, <4>3 DEF StepShape
    <3>5. QED
      BY <3>3, <3>4
  <2>3. QED
    BY <1>2, <2>1, <2>2 DEF Insert
<1>3. CASE Push(p)
  BY <1>3 DEF Push, StepShape, Keeps
<1>4. CASE StoreAck(p)
  BY <1>4 DEF StoreAck, StepShape, Keeps, Row, RequestsOK
<1>5. CASE StoreRejection(p)
  <2> DEFINE c == request[p].charge
  <2>1. c \in ChargeIds /\ outbox' = outbox
    BY <1>5 DEF StoreRejection, Refused, RequestsOK
  <2>2. CASE Pending(c)
    <3>1. Fails(c) /\ Others(c)
      BY <1>5, <2>1, <2>2 DEF StoreRejection, Fails, Others, Keeps, Row
    <3>2. QED
      BY <2>1, <3>1 DEF StepShape
  <2>3. CASE ~Pending(c)
    BY <1>5, <2>3 DEF StoreRejection, StepShape, Keeps
  <2>4. QED
    BY <2>2, <2>3
<1>6. CASE EndRequest(p)
  BY <1>6 DEF EndRequest, StepShape, Keeps
<1>7. QED
  BY <1>1, <1>2, <1>3, <1>4, <1>5, <1>6 DEF RequestStep

LEMMA DeliveryShape ==
  ASSUME TypeOK, NEW d \in Deliveries, DeliveryStep(d)
  PROVE  StepShape
<1> USE DEF TypeOK, RowsOK
<1>1. CASE \E cb \in Callbacks : Receive(d, cb)
  BY <1>1 DEF Receive, StepShape, Keeps
<1>2. CASE Ask(d) \/ Record(d) \/ Adopt(d) \/ CommitUnclaimed(d) \/ CrashDelivery(d)
  BY <1>2 DEF Ask, Record, Adopt, CommitUnclaimed, CrashDelivery, StepShape, Keeps
<1>3. CASE CommitHold(d)
  <2>1. delivery[d].charge \in ChargeIds
    BY <1>3 DEF CommitHold, Claimed, DeliveriesOK
  <2>2. QED
    BY <1>3, <2>1 DEF CommitHold, StepShape, Keeps, Row
<1>4. CASE CommitRefused(d)
  <2>1. delivery[d].charge \in ChargeIds
    BY <1>4 DEF CommitRefused, Claimed, DeliveriesOK
  <2>2. QED
    BY <1>4, <2>1 DEF CommitRefused, Claimed, Claims, StepShape, Keeps, Row
<1>5. CASE CommitResolve(d)
  <2> DEFINE c == delivery[d].charge
             r == IF delivery[d].adopt THEN delivery[d].cb.ref ELSE charges[c].ref
             paid == delivery[d].cb.kind = "paid"
  <2>1. c \in ChargeIds /\ (~Pending(c) => r = charges[c].ref)
    BY <1>5 DEF CommitResolve, Claimed, Claims, DeliveriesOK
  <2>2. Resolve(c, r, paid, "callback", ~delivery[d].sawHold)
    BY <1>5 DEF CommitResolve
  <2> HIDE DEF c, r, paid
  <2>3. CASE Unheld(c) /\ ~delivery[d].sawHold
    <3>1. Others(c)
      BY <2>1, <2>2, <2>3 DEF Resolve, Others, Keeps
    <3>2. CASE paid
      <4>1. Settles(c) /\ outbox' = outbox \cup {c}
        BY <2>1, <2>2, <2>3, <3>2 DEF Resolve, Settles, Row
      <4>2. QED
        BY <2>1, <3>1, <4>1 DEF StepShape
    <3>3. CASE ~paid
      <4>1. Fails(c) /\ outbox' = outbox
        BY <2>1, <2>2, <2>3, <3>3 DEF Resolve, Fails, Unheld, Row
      <4>2. QED
        BY <2>1, <3>1, <4>1 DEF StepShape
    <3>4. QED
      BY <3>2, <3>3
  <2>4. CASE ~(Unheld(c) /\ ~delivery[d].sawHold)
    BY <2>1, <2>2, <2>4 DEF Resolve, StepShape, Keeps, Row
  <2>5. QED
    BY <2>3, <2>4
<1>6. QED
  BY <1>1, <1>2, <1>3, <1>4, <1>5 DEF DeliveryStep

LEMMA PassShape ==
  ASSUME TypeOK, NEW r \in Passes, PassStep(r)
  PROVE  StepShape
<1> USE DEF TypeOK, RowsOK
<1>1. CASE StartPass(r) \/ Query(r) \/ CrashPass(r)
  BY <1>1 DEF StartPass, Query, CrashPass, StepShape, Keeps
<1>2. CASE Examine(r)
  <2>1. PICK e \in pass[r].batch : charges' = Bump(e[1])
    BY <1>2 DEF Examine
  <2>2. e[1] \in ChargeIds /\ outbox' = outbox
    BY <1>2 DEF Examine, PassesOK, PassState
  <2>3. QED
    BY <2>1, <2>2 DEF Bump, StepShape, Keeps, Row
<1>3. CASE ApplyAnswer(r)
  <2> DEFINE c == pass[r].charge
             paid == pass[r].answer = "success"
  <2>1. c \in ChargeIds
    BY <1>3 DEF ApplyAnswer, PassesOK
  <2>2. CASE Unheld(c)
    <3>1. Others(c)
      BY <1>3, <2>1, <2>2 DEF ApplyAnswer, Others, Keeps
    <3>2. CASE paid
      <4>1. Settles(c) /\ outbox' = outbox \cup {c}
        BY <1>3, <2>1, <2>2, <3>2 DEF ApplyAnswer, Settles, Row
      <4>2. QED
        BY <2>1, <3>1, <4>1 DEF StepShape
    <3>3. CASE ~paid
      <4>1. Fails(c) /\ outbox' = outbox
        BY <1>3, <2>1, <2>2, <3>3 DEF ApplyAnswer, Fails, Unheld, Row
      <4>2. QED
        BY <2>1, <3>1, <4>1 DEF StepShape
    <3>4. QED
      BY <3>2, <3>3
  <2>3. CASE ~Unheld(c)
    BY <1>3, <2>1, <2>3 DEF ApplyAnswer, Bump, StepShape, Keeps, Row
  <2>4. QED
    BY <2>2, <2>3
<1>4. QED
  BY <1>1, <1>2, <1>3 DEF PassStep

LEMMA NextShape ==
  ASSUME TypeOK, [Next]_vars
  PROVE  StepShape
<1> USE DEF TypeOK, RowsOK
<1>1. ASSUME NEW c \in ChargeIds, Release(c) PROVE StepShape
  BY <1>1 DEF Release, StepShape, Keeps, Row
<1>2. ASSUME NEW age \in PurgeAges, PurgeAbandoned(age) PROVE StepShape
  <2>1. ASSUME NEW c \in ChargeIds PROVE Keeps(c) \/ Drops(c)
    BY <1>2 DEF PurgeAbandoned, Abandoned, Keeps, Drops, Row
  <2>2. QED
    BY <1>2, <2>1 DEF PurgeAbandoned, StepShape
<1>3. ASSUME NEW c \in ChargeIds, CustomerAnswers(c) PROVE StepShape
  BY <1>3 DEF CustomerAnswers, StepShape, Keeps
<1>4. CASE Tick \/ UNCHANGED vars
  BY <1>4 DEF Tick, vars, StepShape, Keeps
<1>5. QED
  BY <1>1, <1>2, <1>3, <1>4, RequestShape, DeliveryShape, PassShape DEF Next

-----------------------------------------------------------------------------
(***************************************************************************)
(* The ledger.                                                             *)
(***************************************************************************)

(* UNIQUE(sale_id): no two rows for a sale. *)
OneChargePerSale ==
    \A c, d \in ChargeIds :
        Exists(c) /\ Exists(d) /\ charges[c].sale = charges[d].sale => c = d

(* What makes LedgerMatchesStatus and the refinement inductive.            *)
LedgerInv ==
    /\ LedgerMatchesStatus
    /\ OneChargePerSale
    /\ \A c \in ChargeIds : Exists(c) => charges[c].sale \in Sales

LEMMA LedgerStep ==
  ASSUME TypeOK, LedgerInv, StepShape
  PROVE  LedgerInv'
<1> USE DEF LedgerInv
<1>1. CASE (\A c \in ChargeIds : Keeps(c)) /\ outbox' = outbox
  BY <1>1 DEF Keeps, LedgerMatchesStatus, OneChargePerSale, Exists
<1>2. ASSUME NEW c \in ChargeIds, Others(c), Opens(c), outbox' = outbox
      PROVE  LedgerInv'
  <2>1. LedgerMatchesStatus'
    BY <1>2 DEF Others, Opens, Keeps, LedgerMatchesStatus
  <2>2. OneChargePerSale'
    BY <1>2 DEF Others, Opens, Keeps, OneChargePerSale, HasCharge, Exists
  <2>3. QED
    BY <1>2, <2>1, <2>2 DEF Others, Opens, Keeps, Exists
<1>3. ASSUME NEW c \in ChargeIds, Others(c), Settles(c), outbox' = outbox \cup {c}
      PROVE  LedgerInv'
  BY <1>3 DEF Others, Settles, Keeps, LedgerMatchesStatus, OneChargePerSale, Exists,
              Unheld, Pending
<1>4. ASSUME NEW c \in ChargeIds, Others(c), Fails(c), outbox' = outbox
      PROVE  LedgerInv'
  BY <1>4 DEF Others, Fails, Keeps, LedgerMatchesStatus, OneChargePerSale, Exists, Pending
<1>5. CASE (\A c \in ChargeIds : Keeps(c) \/ Drops(c)) /\ outbox' = outbox
  BY <1>5 DEF Keeps, Drops, LedgerMatchesStatus, OneChargePerSale, Exists, Unheld, Pending
<1>6. QED
  BY <1>1, <1>2, <1>3, <1>4, <1>5 DEF StepShape

THEOREM LedgerInvariant == Spec => [](TypeOK /\ LedgerInv)
<1>1. Init => LedgerInv
  BY DEF Init, NoRow, LedgerInv, LedgerMatchesStatus, OneChargePerSale, Exists
<1>2. TypeOK /\ LedgerInv /\ [Next]_vars => LedgerInv'
  BY NextShape, LedgerStep
<1>3. QED
  BY <1>1, <1>2, TypeCorrect, PTL DEF Spec

(* I3 for every instance: the outbox holds the event of a charge exactly   *)
(* when the charge is PAID.                                                *)
THEOREM LedgerCorrect == Spec => []LedgerMatchesStatus
<1>1. LedgerInv => LedgerMatchesStatus
  BY DEF LedgerInv
<1>2. QED
  BY <1>1, LedgerInvariant, PTL

(* A resolved charge keeps its status, its reference and its resolver      *)
(* through every step anyone takes.                                        *)
THEOREM TerminalCorrect == Spec => TerminalIsFinal
<1>1. ASSUME TypeOK, [Next]_vars,
             NEW c \in ChargeIds, charges[c].status \in {"PAID", "FAILED"}
      PROVE  /\ charges'[c].status = charges[c].status
             /\ charges'[c].ref = charges[c].ref
             /\ charges'[c].resolvedBy = charges[c].resolvedBy
  <2>1. StepShape
    BY <1>1, NextShape
  <2>2. Keeps(c)
    BY <1>1, <2>1 DEF StepShape, Others, Opens, Settles, Fails, Drops, Unheld, Pending
  <2>3. QED
    BY <1>1, <2>2 DEF Keeps, Pending
<1>2. TypeOK /\ [Next]_vars =>
        [\A c \in ChargeIds : charges[c].status \in {"PAID", "FAILED"} =>
           /\ charges'[c].status = charges[c].status
           /\ charges'[c].ref = charges[c].ref
           /\ charges'[c].resolvedBy = charges[c].resolvedBy]_vars
  BY <1>1
<1>3. QED
  BY <1>2, TypeCorrect, PTL DEF Spec, TerminalIsFinal

(* No callback and no pass resolves a charge while it is on hold.          *)
THEOREM HeldCorrect == Spec => HeldIsFrozen
<1>1. ASSUME TypeOK, [Next]_vars,
             NEW c \in ChargeIds, Pending(c), charges[c].held
      PROVE  /\ charges'[c].resolvedBy = charges[c].resolvedBy
             /\ charges'[c].status # "PAID"
  <2>1. StepShape
    BY <1>1, NextShape
  <2>2. Keeps(c) \/ Fails(c)
    BY <1>1, <2>1 DEF StepShape, Others, Opens, Settles, Fails, Drops, Unheld, Pending
  <2>3. QED
    BY <1>1, <2>2 DEF Keeps, Fails, Unheld, Pending
<1>2. TypeOK /\ [Next]_vars =>
        [\A c \in ChargeIds : Pending(c) /\ charges[c].held =>
           /\ charges'[c].resolvedBy = charges[c].resolvedBy
           /\ charges'[c].status # "PAID"]_vars
  BY <1>1
<1>3. QED
  BY <1>2, TypeCorrect, PTL DEF Spec, HeldIsFrozen

-----------------------------------------------------------------------------
(***************************************************************************)
(* Charges implements ChargeLedger.                                        *)
(***************************************************************************)

(* The state of a sale is that of its one charge, before a step ... *)
LEMMA SaleStateOf ==
  ASSUME OneChargePerSale, NEW c \in ChargeIds, Exists(c), charges[c].sale \in Sales
  PROVE  /\ charges[c].status = "PAID" => SaleState[charges[c].sale] = "paid"
         /\ charges[c].status = "FAILED" => SaleState[charges[c].sale] = "failed"
         /\ charges[c].status = "PENDING" => SaleState[charges[c].sale] = "open"
<1>1. ChargesOf(charges[c].sale) = {c}
  BY DEF OneChargePerSale, ChargesOf
<1>2. QED
  BY <1>1 DEF SaleState

(* ... and after it. *)
LEMMA SaleStateOfNext ==
  ASSUME OneChargePerSale', NEW s \in Sales, NEW c \in ChargeIds,
         Exists(c)', charges'[c].sale = s
  PROVE  /\ charges'[c].status = "PAID" => SaleState'[s] = "paid"
         /\ charges'[c].status = "FAILED" => SaleState'[s] = "failed"
         /\ charges'[c].status = "PENDING" => SaleState'[s] = "open"
<1>1. ChargesOf(s)' = {c}
  BY DEF OneChargePerSale, ChargesOf
<1>2. QED
  BY <1>1 DEF SaleState

LEMMA SaleStateChange ==
  ASSUME NEW s \in Sales, NEW v, SaleState'[s] = v,
         \A t \in Sales \ {s} : SaleState'[t] = SaleState[t]
  PROVE  SaleState' = [SaleState EXCEPT ![s] = v]
<1>1. /\ SaleState = [t \in Sales |-> SaleState[t]]
      /\ SaleState' = [t \in Sales |-> SaleState'[t]]
  BY DEF SaleState
<1>2. QED
  BY <1>1

LEMMA CreditsKept ==
  ASSUME outbox \subseteq ChargeIds, outbox' = outbox,
         \A c \in outbox : charges'[c].sale = charges[c].sale
  PROVE  Credits' = Credits
<1>1. ASSUME NEW s \in Sales
      PROVE  {c \in outbox : charges'[c].sale = s} = {c \in outbox : charges[c].sale = s}
  OBVIOUS
<1>2. QED
  BY <1>1 DEF Credits

(* A sale whose charge a step does not touch keeps its state.              *)
LEMMA SaleStateKept ==
  ASSUME NEW s \in Sales,
         \A c \in ChargeIds : Exists(c) /\ charges[c].sale = s =>
             Exists(c)' /\ charges'[c].sale = s /\ charges'[c].status = charges[c].status,
         \A c \in ChargeIds : Exists(c)' /\ charges'[c].sale = s =>
             Exists(c) /\ charges[c].sale = s
  PROVE  SaleState'[s] = SaleState[s]
<1>1. ChargesOf(s)' = ChargesOf(s)
  BY DEF ChargesOf
<1>2. \A c \in ChargesOf(s) : charges'[c].status = charges[c].status
  BY DEF ChargesOf
<1>3. QED
  BY <1>1, <1>2 DEF SaleState

LEMMA OpenImplements ==
  ASSUME TypeOK, LedgerInv, LedgerInv', NEW c \in ChargeIds, Others(c), Opens(c),
         outbox' = outbox
  PROVE  Ledger!Next
<1> DEFINE s == charges'[c].sale
<1> USE DEF LedgerInv
<1>1. s \in Sales
  BY DEF Opens
<1>2. SaleState[s] = "none"
  BY <1>1 DEF Opens, HasCharge, SaleState, ChargesOf
<1>3. SaleState'[s] = "open"
  BY <1>1, SaleStateOfNext DEF Opens, Exists
<1>4. ASSUME NEW t \in Sales \ {s} PROVE SaleState'[t] = SaleState[t]
  BY SaleStateKept DEF Others, Keeps, Opens, Exists
<1>5. SaleState' = [SaleState EXCEPT ![s] = "open"]
  BY <1>1, <1>3, <1>4, SaleStateChange
<1>6. Credits' = Credits
  BY CreditsKept DEF TypeOK, RowsOK, Others, Keeps, Opens, LedgerMatchesStatus
<1>7. QED
  BY <1>1, <1>2, <1>5, <1>6 DEF Ledger!Next, Ledger!Open

LEMMA SettleImplements ==
  ASSUME TypeOK, LedgerInv, LedgerInv', NEW c \in ChargeIds, Others(c), Settles(c),
         outbox' = outbox \cup {c}
  PROVE  Ledger!Next
<1> DEFINE s == charges[c].sale
<1> USE DEF LedgerInv
<1>1. s \in Sales /\ charges'[c].sale = s
  BY DEF Settles, Unheld, Pending, Exists
<1>2. SaleState[s] = "open"
  BY <1>1, SaleStateOf DEF Settles, Unheld, Pending, Exists
<1>3. SaleState'[s] = "paid"
  BY <1>1, SaleStateOfNext DEF Settles, Exists
<1>4. ASSUME NEW t \in Sales \ {s} PROVE SaleState'[t] = SaleState[t]
  BY <1>1, SaleStateKept DEF Others, Keeps, Exists
<1>5. SaleState' = [SaleState EXCEPT ![s] = "paid"]
  BY <1>1, <1>3, <1>4, SaleStateChange
<1>6. \A b \in outbox : b \in ChargeIds \ {c} /\ charges'[b].sale = charges[b].sale
                        /\ charges[b].sale # s
  BY <1>1 DEF LedgerMatchesStatus, OneChargePerSale, Exists, Settles, Unheld, Pending,
              Others, Keeps, TypeOK, RowsOK
<1>7. Credits' = [Credits EXCEPT ![s] = {c}]
  BY <1>1, <1>6 DEF Credits
<1>8. QED
  <2>1. \A t \in Sales : c \notin Credits[t]
    BY <1>6 DEF Credits
  <2>2. QED
    BY <1>1, <1>2, <1>5, <1>7, <2>1 DEF Ledger!Next, Ledger!Settle

LEMMA FailImplements ==
  ASSUME TypeOK, LedgerInv, LedgerInv', NEW c \in ChargeIds, Others(c), Fails(c),
         outbox' = outbox
  PROVE  Ledger!Next
<1> DEFINE s == charges[c].sale
<1> USE DEF LedgerInv
<1>1. s \in Sales /\ charges'[c].sale = s
  BY DEF Fails, Pending, Exists
<1>2. SaleState[s] = "open"
  BY <1>1, SaleStateOf DEF Fails, Pending, Exists
<1>3. SaleState'[s] = "failed"
  BY <1>1, SaleStateOfNext DEF Fails, Exists
<1>4. ASSUME NEW t \in Sales \ {s} PROVE SaleState'[t] = SaleState[t]
  BY <1>1, SaleStateKept DEF Others, Keeps, Exists
<1>5. SaleState' = [SaleState EXCEPT ![s] = "failed"]
  BY <1>1, <1>3, <1>4, SaleStateChange
<1>6. Credits' = Credits
  BY <1>1, CreditsKept DEF TypeOK, RowsOK, Others, Keeps
<1>7. QED
  BY <1>1, <1>2, <1>5, <1>6 DEF Ledger!Next, Ledger!Fail

LEMMA DropImplements ==
  ASSUME TypeOK, LedgerInv, LedgerInv',
         \A c \in ChargeIds : Keeps(c) \/ Drops(c), outbox' = outbox
  PROVE  Ledger!Next
<1> DEFINE S == {s \in Sales : \E c \in ChargeIds : Drops(c) /\ charges[c].sale = s}
<1> USE DEF LedgerInv
<1>1. ASSUME NEW s \in S PROVE SaleState[s] = "open" /\ SaleState'[s] = "none"
  <2>1. PICK c \in ChargeIds : Drops(c) /\ charges[c].sale = s
    OBVIOUS
  <2>2. SaleState[s] = "open"
    BY <2>1, SaleStateOf DEF Drops, Unheld, Pending, Exists
  <2>3. ~HasCharge(s)'
    BY <2>1 DEF HasCharge, OneChargePerSale, Keeps, Drops, Unheld, Pending, Exists
  <2>4. QED
    BY <2>2, <2>3 DEF SaleState, ChargesOf, HasCharge
<1>2. ASSUME NEW s \in Sales \ S PROVE SaleState'[s] = SaleState[s]
  BY SaleStateKept DEF Keeps, Drops, Unheld, Pending, Exists
<1>3. SaleState' = [s \in Sales |-> IF s \in S THEN "none" ELSE SaleState[s]]
  BY <1>1, <1>2 DEF SaleState
<1>4. Credits' = Credits
  BY CreditsKept DEF TypeOK, RowsOK, Keeps, Drops
<1>5. QED
  BY <1>1, <1>3, <1>4 DEF Ledger!Next, Ledger!Abandon

(* Every step of the service is a step of the ledger, or none. *)
LEMMA StepImplements ==
  ASSUME TypeOK, LedgerInv, LedgerInv', StepShape
  PROVE  [Ledger!Next]_Ledger!vars
<1>1. CASE (\A c \in ChargeIds : Keeps(c)) /\ outbox' = outbox
  <2>1. ASSUME NEW s \in Sales PROVE SaleState'[s] = SaleState[s]
    BY <1>1, SaleStateKept DEF Keeps, Exists
  <2>2. SaleState' = SaleState
    BY <2>1 DEF SaleState
  <2>3. Credits' = Credits
    BY <1>1, CreditsKept DEF TypeOK, RowsOK, Keeps
  <2>4. QED
    BY <2>2, <2>3 DEF Ledger!vars
<1>2. QED
  BY <1>1, OpenImplements, SettleImplements, FailImplements, DropImplements DEF StepShape

(* For every instance, purge included: a sale is opened, settled with one  *)
(* effect or failed, for good; only an open sale is ever given up.         *)
THEOREM Refinement == Spec => ImplementsLedger
<1>1. Init => Ledger!Init
  BY DEF Init, NoRow, Ledger!Init, SaleState, Credits, ChargesOf, Exists
<1>2. TypeOK /\ LedgerInv /\ LedgerInv' /\ [Next]_vars => [Ledger!Next]_Ledger!vars
  BY NextShape, StepImplements
<1>3. QED
  BY <1>1, <1>2, LedgerInvariant, PTL DEF Spec, ImplementsLedger, Ledger!Spec

-----------------------------------------------------------------------------
(***************************************************************************)
(* Callbacks and the charges they resolve.                                 *)
(***************************************************************************)

(* Only a row that is there has a reference, and only one that is resolved *)
(* a resolver.                                                             *)
RowIsSane(c) ==
    /\ ~Exists(c) => charges[c].ref = NULL
    /\ charges[c].status \notin {"PAID", "FAILED"} => charges[c].resolvedBy = "none"
    /\ charges[c].resolvedBy = "callback" => charges[c].ref # NULL

(* UNIQUE(checkout_request_id).                                            *)
RefsAreUnique ==
    \A c, d \in ChargeIds : charges[c].ref # NULL /\ charges[c].ref = charges[d].ref => c = d

(* A transaction that holds the row of its callback is the first for these *)
(* bytes; it has found its charge by the reference, or means to claim one. *)
Holds(d) == delivery[d].pc \in {"adopt", "commit"}

HoldsItsCallback(d) ==
    /\ delivery[d].adopt => delivery[d].pc = "commit" /\ delivery[d].cb.kind = "paid"
    /\ Holds(d) => events[delivery[d].cb] = "absent"
    /\ \A e \in Deliveries : Holds(d) /\ Holds(e) /\ delivery[d].cb = delivery[e].cb => d = e
    /\ delivery[d].pc = "commit" /\ ~delivery[d].adopt =>
           charges[delivery[d].charge].ref = delivery[d].cb.ref

CallbackInv ==
    /\ \A c \in ChargeIds : RowIsSane(c)
    /\ RefsAreUnique
    /\ \A d \in Deliveries : HoldsItsCallback(d)
    /\ AppliedIsResolution

(* What a step outside a callback's transaction does to a row: it opens,   *)
(* settles, fails or drops a charge without touching its reference.        *)
RowGoesOn(c) ==
    /\ charges'[c].ref = charges[c].ref
    /\ \/ /\ charges'[c].status = charges[c].status
          /\ charges'[c].resolvedBy = charges[c].resolvedBy
       \/ /\ charges[c].status = "none" /\ charges'[c].status = "PENDING"
          /\ charges'[c].resolvedBy = "none"
       \/ /\ Pending(c) /\ charges'[c].status \in {"PAID", "FAILED"}
          /\ charges'[c].resolvedBy \in {"none", "query"}
       \/ /\ Pending(c) /\ charges'[c].status = "deleted" /\ charges[c].ref = NULL
          /\ charges'[c].resolvedBy = charges[c].resolvedBy

LEMMA OutsideCallbacks ==
    ASSUME TypeOK, CallbackInv, UNCHANGED events,
           \A c \in ChargeIds : RowGoesOn(c),
           \A d \in Deliveries : HoldsItsCallback(d)'
    PROVE  CallbackInv'
<1>1. \A c \in ChargeIds : RowIsSane(c)'
  BY DEF CallbackInv, RowIsSane, RowGoesOn, Exists, Pending
<1>2. RefsAreUnique'
  BY DEF CallbackInv, RefsAreUnique, RowGoesOn
<1>3. \A c \in ChargeIds : charges[c].resolvedBy = "callback" \/ charges'[c].resolvedBy = "callback" =>
         /\ charges'[c].resolvedBy = charges[c].resolvedBy
         /\ charges'[c].status = charges[c].status
         /\ charges'[c].ref = charges[c].ref
  BY DEF CallbackInv, RowIsSane, RowGoesOn, Pending
<1>4. AppliedIsResolution'
  BY <1>3 DEF CallbackInv, AppliedIsResolution
<1> QED BY <1>1, <1>2, <1>4 DEF CallbackInv

(* A transaction keeps the row it found, as long as its reference stays.   *)
LEMMA HoldsOn ==
    ASSUME CallbackInv, DeliveriesOK, UNCHANGED <<events, delivery>>,
           \A c \in ChargeIds : charges[c].ref # NULL => charges'[c].ref = charges[c].ref
    PROVE  \A d \in Deliveries : HoldsItsCallback(d)'
<1> SUFFICES ASSUME NEW d \in Deliveries PROVE HoldsItsCallback(d)'
  OBVIOUS
<1>1. HoldsItsCallback(d)
  BY DEF CallbackInv
<1>2. delivery[d].pc = "commit" /\ ~delivery[d].adopt =>
         charges'[delivery[d].charge].ref = delivery[d].cb.ref
  BY <1>1, ConstantsAssumption DEF HoldsItsCallback, DeliveriesOK, Callbacks
<1> QED BY <1>1, <1>2 DEF HoldsItsCallback, Holds

LEMMA RequestCallbacks ==
    ASSUME TypeOK, CallbackInv, NEW p \in Requests, RequestStep(p)
    PROVE  CallbackInv'
<1> USE DEF TypeOK
<1>1. UNCHANGED <<events, delivery>>
  BY DEF RequestStep, LookUp, Insert, Push, StoreAck, StoreRejection, EndRequest
<1>2. CASE UNCHANGED charges
  <2>1. \A c \in ChargeIds : RowGoesOn(c)
    BY <1>2 DEF RowGoesOn
  <2> QED BY <1>1, <1>2, <2>1, HoldsOn, OutsideCallbacks
<1>3. CASE Insert(p) /\ ~UNCHANGED charges
  <2>1. PICK c \in ChargeIds :
           /\ charges[c].status = "none"
           /\ charges' = [charges EXCEPT ![c] =
                  [NoRow EXCEPT !.status = "PENDING", !.sale = request[p].sale,
                                !.createdAt = clock]]
    BY <1>3 DEF Insert
  <2>2. charges[c].ref = NULL
    BY <2>1 DEF CallbackInv, RowIsSane, Exists
  <2>3. \A b \in ChargeIds : RowGoesOn(b)
    BY <2>1, <2>2 DEF RowGoesOn, RowsOK, NoRow
  <2>4. \A b \in ChargeIds : charges'[b].ref = charges[b].ref
    BY <2>3 DEF RowGoesOn
  <2> QED BY <1>1, <2>3, <2>4, HoldsOn, OutsideCallbacks
<1>4. CASE StoreAck(p) /\ ~UNCHANGED charges
  <2> DEFINE c == request[p].charge
  <2>1. /\ c \in ChargeIds /\ Pending(c) /\ charges[c].ref = NULL /\ RefIsFree(c, c)
        /\ charges' = [charges EXCEPT ![c].ref = c]
    BY <1>4 DEF StoreAck, RequestsOK
  <2>2. /\ charges'[c].ref = c /\ charges'[c].status = charges[c].status
        /\ charges'[c].resolvedBy = charges[c].resolvedBy
        /\ \A b \in ChargeIds : b # c => charges'[b] = charges[b]
    BY <2>1 DEF RowsOK, Row
  <2> HIDE DEF c
  <2>3. \A b \in ChargeIds : charges[b].ref # NULL => Exists(b)
    BY DEF CallbackInv, RowIsSane
  <2>4. \A b \in ChargeIds : b # c => charges[b].ref # c
    BY <2>1, <2>3, ConstantsAssumption DEF RefIsFree
  <2>5. RefsAreUnique'
    BY <2>2, <2>4 DEF CallbackInv, RefsAreUnique
  <2>6. \A b \in ChargeIds : RowIsSane(b)'
    BY <2>1, <2>2 DEF CallbackInv, RowIsSane, Exists, Pending
  <2>7. charges[c].resolvedBy = "none"
    BY <2>1 DEF CallbackInv, RowIsSane, Pending
  <2>8. AppliedIsResolution'
    <3>1. \A b \in ChargeIds :
             charges[b].resolvedBy = "callback" \/ charges'[b].resolvedBy = "callback" =>
                 charges'[b] = charges[b]
      BY <2>2, <2>7
    <3> QED BY <1>1, <3>1 DEF CallbackInv, AppliedIsResolution
  <2>9. \A d \in Deliveries : HoldsItsCallback(d)'
    BY <1>1, <2>1, <2>2, HoldsOn
  <2> QED BY <2>5, <2>6, <2>8, <2>9 DEF CallbackInv
<1>5. CASE StoreRejection(p) /\ ~UNCHANGED charges
  <2> DEFINE c == request[p].charge
  <2>1. c \in ChargeIds /\ Pending(c) /\ charges' = [charges EXCEPT ![c].status = "FAILED"]
    BY <1>5 DEF StoreRejection, Refused, RequestsOK
  <2> HIDE DEF c
  <2>2. charges[c].resolvedBy = "none"
    BY <2>1 DEF CallbackInv, RowIsSane, Pending
  <2>3. \A b \in ChargeIds : RowGoesOn(b)
    BY <2>1, <2>2 DEF RowGoesOn, RowsOK, Row
  <2>4. \A b \in ChargeIds : charges'[b].ref = charges[b].ref
    BY <2>3 DEF RowGoesOn
  <2> QED BY <1>1, <2>3, <2>4, HoldsOn, OutsideCallbacks
<1>6. UNCHANGED charges \/ Insert(p) \/ StoreAck(p) \/ StoreRejection(p)
  BY DEF RequestStep, LookUp, Push, EndRequest
<1> QED BY <1>2, <1>3, <1>4, <1>5, <1>6

LEMMA PassCallbacks ==
    ASSUME TypeOK, CallbackInv, NEW r \in Passes, PassStep(r)
    PROVE  CallbackInv'
<1> USE DEF TypeOK
<1>1. UNCHANGED <<events, delivery>>
  BY DEF PassStep, StartPass, Examine, Query, ApplyAnswer, CrashPass
<1>2. \A c \in ChargeIds : RowGoesOn(c)
  <2>1. CASE UNCHANGED charges
    BY <2>1 DEF RowGoesOn
  <2>2. ASSUME NEW c \in ChargeIds, charges' = Bump(c)
        PROVE  \A b \in ChargeIds : RowGoesOn(b)
    BY <2>2 DEF Bump, RowGoesOn, RowsOK, Row
  <2>3. CASE Examine(r)
    BY <2>2, <2>3 DEF Examine, PassesOK, PassState
  <2>4. CASE ApplyAnswer(r)
    <3>1. pass[r].charge \in ChargeIds
      BY <2>4 DEF ApplyAnswer, PassesOK
    <3>2. CASE Unheld(pass[r].charge)
      BY <2>4, <3>1, <3>2 DEF ApplyAnswer, RowGoesOn, RowsOK, Row, Unheld
    <3>3. CASE ~Unheld(pass[r].charge)
      BY <2>2, <2>4, <3>1, <3>3 DEF ApplyAnswer
    <3> QED BY <3>2, <3>3
  <2> QED BY <2>1, <2>3, <2>4 DEF PassStep, StartPass, Query, CrashPass
<1>3. \A c \in ChargeIds : charges'[c].ref = charges[c].ref
  BY <1>2 DEF RowGoesOn
<1> QED BY <1>1, <1>2, <1>3, HoldsOn, OutsideCallbacks

LEMMA OtherCallbacks ==
    ASSUME TypeOK, CallbackInv,
           \/ \E c \in ChargeIds : Release(c)
           \/ \E age \in PurgeAges : PurgeAbandoned(age)
           \/ \E c \in ChargeIds : CustomerAnswers(c)
           \/ Tick
           \/ UNCHANGED vars
    PROVE  CallbackInv'
<1>1. UNCHANGED <<events, delivery>>
  BY DEF Release, PurgeAbandoned, CustomerAnswers, Tick, vars
<1>2. \A c \in ChargeIds : RowGoesOn(c)
  <2>1. CASE UNCHANGED charges
    BY <2>1 DEF RowGoesOn
  <2>2. ASSUME NEW c \in ChargeIds, Release(c)
        PROVE  \A b \in ChargeIds : RowGoesOn(b)
    BY <2>2 DEF Release, RowGoesOn, TypeOK, RowsOK, Row
  <2>3. ASSUME NEW age \in PurgeAges, PurgeAbandoned(age)
        PROVE  \A b \in ChargeIds : RowGoesOn(b)
    BY <2>3 DEF PurgeAbandoned, Abandoned, Unheld, RowGoesOn, TypeOK, RowsOK, Row
  <2> QED BY <2>1, <2>2, <2>3 DEF CustomerAnswers, Tick, vars
<1>3. \A c \in ChargeIds : charges'[c].ref = charges[c].ref
  BY <1>2 DEF RowGoesOn
<1> QED BY <1>1, <1>2, <1>3, HoldsOn, OutsideCallbacks DEF TypeOK

(* One delivery goes on to state x.                                        *)
LEMMA DeliveryMoves ==
    ASSUME CallbackInv, DeliveriesOK, NEW d \in Deliveries, NEW x,
           delivery' = [delivery EXCEPT ![d] = x],
           \A c \in ChargeIds : charges[c].ref # NULL => charges'[c].ref = charges[c].ref,
           \A e \in Deliveries \ {d} : Holds(e) =>
               /\ events'[delivery[e].cb] = events[delivery[e].cb]
               /\ x.pc \in {"adopt", "commit"} => x.cb # delivery[e].cb,
           x.adopt => x.pc = "commit" /\ x.cb.kind = "paid",
           x.pc \in {"adopt", "commit"} => events'[x.cb] = "absent",
           x.pc = "commit" /\ ~x.adopt => charges'[x.charge].ref = x.cb.ref
    PROVE  \A e \in Deliveries : HoldsItsCallback(e)'
<1>1. \A e \in Deliveries : delivery'[e] = IF e = d THEN x ELSE delivery[e]
  BY DEF DeliveriesOK
<1>2. \A e \in Deliveries : HoldsItsCallback(e)
  BY DEF CallbackInv
<1>3. \A e \in Deliveries : delivery[e].pc = "commit" /\ ~delivery[e].adopt =>
         charges'[delivery[e].charge].ref = delivery[e].cb.ref
  BY <1>2, ConstantsAssumption DEF HoldsItsCallback, DeliveriesOK, Callbacks
<1>4. ASSUME NEW e \in Deliveries, e # d
      PROVE  HoldsItsCallback(e)'
  <2>1. delivery'[e] = delivery[e]
    BY <1>1, <1>4
  <2>2. HoldsItsCallback(e)
    BY <1>2
  <2>3. delivery'[e].adopt => delivery'[e].pc = "commit" /\ delivery'[e].cb.kind = "paid"
    BY <2>1, <2>2 DEF HoldsItsCallback
  <2>4. Holds(e)' => events'[delivery'[e].cb] = "absent"
    BY <1>4, <2>1, <2>2 DEF HoldsItsCallback, Holds
  <2>5. \A f \in Deliveries : Holds(e)' /\ Holds(f)' /\ delivery'[e].cb = delivery'[f].cb => e = f
    BY <1>1, <1>4, <2>1, <2>2 DEF HoldsItsCallback, Holds
  <2>6. delivery'[e].pc = "commit" /\ ~delivery'[e].adopt =>
           charges'[delivery'[e].charge].ref = delivery'[e].cb.ref
    BY <1>3, <2>1
  <2> QED BY <2>3, <2>4, <2>5, <2>6 DEF HoldsItsCallback
<1>5. HoldsItsCallback(d)'
  <2>1. delivery'[d] = x
    BY <1>1
  <2>2. \A e \in Deliveries : Holds(e)' /\ Holds(d)' /\ delivery'[e].cb = delivery'[d].cb => e = d
    BY <1>1 DEF Holds
  <2>3. Holds(d)' => events'[delivery'[d].cb] = "absent"
    BY <2>1 DEF Holds
  <2> QED BY <2>1, <2>2, <2>3 DEF HoldsItsCallback
<1> QED BY <1>4, <1>5

(* A transaction ends: it frees its callback, which it may have written.   *)
LEMMA DeliveryEnds ==
    ASSUME CallbackInv, TypeOK, NEW d \in Deliveries,
           delivery' = [delivery EXCEPT ![d] = IdleDelivery],
           \A c \in ChargeIds : charges[c].ref # NULL => charges'[c].ref = charges[c].ref,
           \/ UNCHANGED events
           \/ Holds(d) /\ \E v : events' = [events EXCEPT ![delivery[d].cb] = v]
    PROVE  \A e \in Deliveries : HoldsItsCallback(e)'
<1>1. \A e \in Deliveries \ {d} : Holds(e) => events'[delivery[e].cb] = events[delivery[e].cb]
  <2> SUFFICES ASSUME NEW e \in Deliveries \ {d}, Holds(e)
               PROVE  events'[delivery[e].cb] = events[delivery[e].cb]
    OBVIOUS
  <2>1. Holds(d) => delivery[d].cb # delivery[e].cb
    BY DEF CallbackInv, HoldsItsCallback
  <2>2. delivery[e].cb \in Callbacks
    BY DEF TypeOK, DeliveriesOK, Holds
  <2> QED BY <2>1, <2>2 DEF TypeOK, RowsOK
<1>2. ~IdleDelivery.adopt /\ IdleDelivery.pc = "idle"
  BY DEF IdleDelivery
<1> HIDE DEF IdleDelivery
<1> QED BY <1>1, <1>2, DeliveryMoves DEF TypeOK

(* What is recorded of other callbacks, and of charges they have not       *)
(* resolved, does not count.                                               *)
LEMMA AppliedKept ==
    ASSUME AppliedIsResolution,
           \A x \in Callbacks : events'[x] = "applied" <=> events[x] = "applied",
           \A c \in ChargeIds :
               /\ charges'[c].resolvedBy = charges[c].resolvedBy
               /\ charges[c].resolvedBy = "callback" =>
                      charges'[c].ref = charges[c].ref /\ charges'[c].status = charges[c].status
    PROVE  AppliedIsResolution'
<1>1. \A cb \in Callbacks : events'[cb] = "applied" =>
         \E c \in ChargeIds :
             /\ charges'[c].ref = cb.ref /\ charges'[c].resolvedBy = "callback"
             /\ charges'[c].status = (IF cb.kind = "paid" THEN "PAID" ELSE "FAILED")
  BY DEF AppliedIsResolution
<1>2. ASSUME NEW c \in ChargeIds, charges'[c].resolvedBy = "callback"
      PROVE  \E cb \in Callbacks :
                {x \in Callbacks : x.ref = charges'[c].ref /\ events'[x] = "applied"} = {cb}
  <2>1. PICK cb \in Callbacks :
           {x \in Callbacks : x.ref = charges[c].ref /\ events[x] = "applied"} = {cb}
    BY <1>2 DEF AppliedIsResolution
  <2>2. {x \in Callbacks : x.ref = charges'[c].ref /\ events'[x] = "applied"} = {cb}
    BY <1>2, <2>1
  <2> QED BY <2>2
<1> QED BY <1>1, <1>2 DEF AppliedIsResolution

(* A step of a delivery that leaves the rows alone and applies nothing.    *)
LEMMA NoRowMoves ==
    ASSUME CallbackInv, UNCHANGED charges,
           \A x \in Callbacks : events'[x] = "applied" <=> events[x] = "applied",
           \A e \in Deliveries : HoldsItsCallback(e)'
    PROVE  CallbackInv'
<1>1. \A c \in ChargeIds : RowIsSane(c)'
  BY DEF CallbackInv, RowIsSane, Exists
<1>2. RefsAreUnique'
  BY DEF CallbackInv, RefsAreUnique
<1>3. AppliedIsResolution'
  BY AppliedKept DEF CallbackInv
<1> QED BY <1>1, <1>2, <1>3 DEF CallbackInv

(* The reference a claimed charge gets, or has.                            *)
LEMMA ClaimedRef ==
    ASSUME TypeOK, CallbackInv, NEW d \in Deliveries, Claimed(d)
    PROVE  LET c == delivery[d].charge
               cb == delivery[d].cb
               r == IF delivery[d].adopt THEN cb.ref ELSE charges[c].ref
           IN  /\ c \in ChargeIds /\ cb \in Callbacks /\ events[cb] = "absent" /\ Holds(d)
               /\ r = cb.ref /\ r \in ChargeIds /\ r # NULL /\ Exists(c)
               /\ charges[c].ref \in {NULL, r}
               /\ \A b \in ChargeIds : b # c => charges[b].ref # r
<1> DEFINE c == delivery[d].charge
           cb == delivery[d].cb
           r == IF delivery[d].adopt THEN cb.ref ELSE charges[c].ref
<1>1. c \in ChargeIds /\ cb \in Callbacks /\ delivery[d].pc = "commit" /\ Holds(d)
  BY DEF TypeOK, DeliveriesOK, Claimed, Holds
<1>2. HoldsItsCallback(d) /\ \A b \in ChargeIds : RowIsSane(b)
  BY DEF CallbackInv
<1>3. events[cb] = "absent" /\ r = cb.ref
  BY <1>1, <1>2 DEF HoldsItsCallback
<1>4. cb.ref \in ChargeIds /\ cb.ref # NULL
  BY <1>1, ConstantsAssumption DEF Callbacks
<1>5. \A b \in ChargeIds : charges[b].ref # NULL => Exists(b)
  BY <1>2 DEF RowIsSane
<1>6. CASE delivery[d].adopt
  <2>1. Claims(c) /\ RefIsFree(cb.ref, c)
    BY <1>6 DEF Claimed
  <2> QED BY <1>1, <1>3, <1>4, <1>5, <1>6, <2>1 DEF Claims, RefIsFree, Pending, Exists
<1>7. CASE ~delivery[d].adopt
  BY <1>1, <1>3, <1>4, <1>5, <1>7 DEF CallbackInv, RefsAreUnique
<1> QED BY <1>1, <1>3, <1>4, <1>6, <1>7

(* The claim of a charge, without its resolution.                          *)
LEMMA ClaimOnly ==
    ASSUME TypeOK, CallbackInv, NEW d \in Deliveries, Claimed(d),
           NEW c \in ChargeIds, c = delivery[d].charge,
           charges'[c].ref = delivery[d].cb.ref, charges'[c].status = charges[c].status,
           charges'[c].resolvedBy = charges[c].resolvedBy,
           \A b \in ChargeIds \ {c} : charges'[b] = charges[b],
           events' = [events EXCEPT ![delivery[d].cb] = "matched"],
           delivery' = [delivery EXCEPT ![d] = IdleDelivery]
    PROVE  CallbackInv'
<1> DEFINE cb == delivery[d].cb
           r == cb.ref
<1>1. /\ cb \in Callbacks /\ events[cb] = "absent" /\ Holds(d)
      /\ r \in ChargeIds /\ r # NULL /\ Exists(c)
      /\ charges[c].ref \in {NULL, r}
      /\ \A b \in ChargeIds : b # c => charges[b].ref # r
  BY ClaimedRef
<1>2. /\ charges'[c].ref = r /\ charges'[c].status = charges[c].status
      /\ charges'[c].resolvedBy = charges[c].resolvedBy
      /\ \A b \in ChargeIds : b # c => charges'[b] = charges[b]
  BY <1>1
<1> HIDE DEF r
<1>3. \A b \in ChargeIds : RowIsSane(b)'
  BY <1>1, <1>2 DEF CallbackInv, RowIsSane, Exists
<1>4. RefsAreUnique'
  <2> SUFFICES ASSUME NEW a \in ChargeIds, NEW b \in ChargeIds,
                      charges'[a].ref # NULL, charges'[a].ref = charges'[b].ref
               PROVE  a = b
    BY DEF RefsAreUnique
  <2>1. CASE a # c /\ b # c
    BY <1>2, <2>1 DEF CallbackInv, RefsAreUnique
  <2>2. CASE a = c \/ b = c
    BY <1>1, <1>2, <2>2
  <2> QED BY <2>1, <2>2
<1>5. \A b \in ChargeIds : charges[b].ref # NULL => charges'[b].ref = charges[b].ref
  BY <1>1, <1>2
<1>6. \A e \in Deliveries : HoldsItsCallback(e)'
  BY <1>1, <1>5, DeliveryEnds
<1>7. \A x \in Callbacks : events'[x] = "applied" <=> events[x] = "applied"
  BY <1>1 DEF TypeOK, RowsOK
<1>8. \A b \in ChargeIds : charges[b].resolvedBy = "callback" => charges[b].ref # NULL
  BY DEF CallbackInv, RowIsSane
<1>9. AppliedIsResolution'
  BY <1>2, <1>5, <1>7, <1>8, AppliedKept DEF CallbackInv
<1> QED BY <1>3, <1>4, <1>6, <1>9 DEF CallbackInv

(* The transition: the callback is recorded as applied, and the charge is  *)
(* resolved, by the same commit.                                           *)
LEMMA ResolveCallbacks ==
    ASSUME TypeOK, CallbackInv, NEW d \in Deliveries, CommitResolve(d)
    PROVE  CallbackInv'
<1> DEFINE cb == delivery[d].cb
           r == IF delivery[d].adopt THEN cb.ref ELSE charges[delivery[d].charge].ref
           final == IF cb.kind = "paid" THEN "PAID" ELSE "FAILED"
<1>1. PICK c \in ChargeIds : c = delivery[d].charge
  BY DEF CommitResolve, Claimed, TypeOK, DeliveriesOK
<1>2. /\ cb \in Callbacks /\ events[cb] = "absent" /\ Holds(d)
      /\ r = cb.ref /\ r \in ChargeIds /\ r # NULL /\ Exists(c)
      /\ charges[c].ref \in {NULL, r}
      /\ \A b \in ChargeIds : b # c => charges[b].ref # r
  BY <1>1, ClaimedRef DEF CommitResolve
<1>3. delivery' = [delivery EXCEPT ![d] = IdleDelivery]
  BY DEF CommitResolve
<1>4. CASE Unheld(c) /\ ~delivery[d].sawHold
  <2>1. /\ charges' = [charges EXCEPT ![c].ref = r, ![c].resolvedBy = "callback",
                                      ![c].status = final]
        /\ events' = [events EXCEPT ![cb] = "applied"]
    BY <1>1, <1>4 DEF CommitResolve, Resolve
  <2>2. /\ charges'[c].ref = cb.ref /\ charges'[c].status = final
        /\ charges'[c].resolvedBy = "callback"
        /\ \A b \in ChargeIds : b # c => charges'[b] = charges[b]
    BY <1>2, <2>1 DEF TypeOK, RowsOK, Row
  <2>3. \A x \in Callbacks : events'[x] = IF x = cb THEN "applied" ELSE events[x]
    BY <2>1 DEF TypeOK, RowsOK
  <2>4. charges[c].resolvedBy = "none"
    BY <1>4 DEF CallbackInv, RowIsSane, Unheld, Pending
  <2>5. \A b \in ChargeIds : b # c => charges[b].ref # cb.ref
    BY <1>2
  <2>6. cb.ref # NULL /\ cb.ref \in ChargeIds /\ charges[c].ref \in {NULL, cb.ref}
    BY <1>2
  <2>7. \A b \in ChargeIds : RowIsSane(b)'
    <3>1. RowIsSane(c)'
      BY <2>2, <2>6 DEF RowIsSane, Exists
    <3>2. ASSUME NEW b \in ChargeIds, b # c
          PROVE  RowIsSane(b)'
      BY <2>2, <3>2 DEF CallbackInv, RowIsSane, Exists
    <3> QED BY <3>1, <3>2
  <2>8. RefsAreUnique'
    <3> SUFFICES ASSUME NEW a \in ChargeIds, NEW b \in ChargeIds,
                        charges'[a].ref # NULL, charges'[a].ref = charges'[b].ref
                 PROVE  a = b
      BY DEF RefsAreUnique
    <3>1. CASE a # c /\ b # c
      BY <2>2, <3>1 DEF CallbackInv, RefsAreUnique
    <3>2. CASE a = c \/ b = c
      BY <2>2, <2>5, <3>2
    <3> QED BY <3>1, <3>2
  <2>9. \A b \in ChargeIds : charges[b].ref # NULL => charges'[b].ref = charges[b].ref
    BY <2>2, <2>6
  <2>10. \A e \in Deliveries : HoldsItsCallback(e)'
    BY <1>2, <1>3, <2>1, <2>9, DeliveryEnds
  <2>11. \A x \in Callbacks : events[x] = "applied" => x.ref # cb.ref
    <3> SUFFICES ASSUME NEW x \in Callbacks, events[x] = "applied", x.ref = cb.ref
                 PROVE  FALSE
      OBVIOUS
    <3>1. PICK b \in ChargeIds : charges[b].ref = x.ref /\ charges[b].resolvedBy = "callback"
      BY DEF CallbackInv, AppliedIsResolution
    <3> QED BY <2>4, <2>5, <3>1
  <2>12. ASSUME NEW x \in Callbacks, events'[x] = "applied"
         PROVE  \E b \in ChargeIds :
                    /\ charges'[b].ref = x.ref /\ charges'[b].resolvedBy = "callback"
                    /\ charges'[b].status = (IF x.kind = "paid" THEN "PAID" ELSE "FAILED")
    <3>1. CASE x = cb
      BY <2>2, <3>1
    <3>2. CASE x # cb
      <4>1. PICK b \in ChargeIds :
               /\ charges[b].ref = x.ref /\ charges[b].resolvedBy = "callback"
               /\ charges[b].status = (IF x.kind = "paid" THEN "PAID" ELSE "FAILED")
        BY <2>3, <2>12, <3>2 DEF CallbackInv, AppliedIsResolution
      <4>2. b # c
        BY <2>4, <4>1
      <4> QED BY <2>2, <4>1, <4>2
    <3> QED BY <3>1, <3>2
  <2>13. ASSUME NEW b \in ChargeIds, charges'[b].resolvedBy = "callback"
         PROVE  \E y \in Callbacks :
                    {x \in Callbacks : x.ref = charges'[b].ref /\ events'[x] = "applied"} = {y}
    <3>1. CASE b = c
      <4>1. {x \in Callbacks : x.ref = charges'[b].ref /\ events'[x] = "applied"} = {cb}
        BY <1>2, <2>2, <2>3, <2>11, <3>1
      <4> QED BY <1>2, <4>1
    <3>2. CASE b # c
      <4>1. PICK y \in Callbacks :
               {x \in Callbacks : x.ref = charges[b].ref /\ events[x] = "applied"} = {y}
        BY <2>2, <2>13, <3>2 DEF CallbackInv, AppliedIsResolution
      <4>2. {x \in Callbacks : x.ref = charges'[b].ref /\ events'[x] = "applied"} = {y}
        BY <2>2, <2>3, <2>5, <3>2, <4>1
      <4> QED BY <4>2
    <3> QED BY <3>1, <3>2
  <2> HIDE DEF cb
  <2>14. AppliedIsResolution'
    BY <2>12, <2>13 DEF AppliedIsResolution
  <2> QED BY <2>7, <2>8, <2>10, <2>14 DEF CallbackInv
<1>5. CASE ~(Unheld(c) /\ ~delivery[d].sawHold)
  <2>1. /\ charges' = [charges EXCEPT ![c].ref = r]
        /\ events' = [events EXCEPT ![cb] = "matched"]
    BY <1>1, <1>5 DEF CommitResolve, Resolve
  <2>2. /\ charges'[c].ref = cb.ref /\ charges'[c].status = charges[c].status
        /\ charges'[c].resolvedBy = charges[c].resolvedBy
        /\ \A b \in ChargeIds \ {c} : charges'[b] = charges[b]
    BY <1>2, <2>1 DEF TypeOK, RowsOK, Row
  <2>3. Claimed(d)
    BY DEF CommitResolve
  <2> QED BY <1>1, <1>3, <2>1, <2>2, <2>3, ClaimOnly
<1> QED BY <1>4, <1>5

LEMMA DeliveryCallbacks ==
    ASSUME TypeOK, CallbackInv, NEW d \in Deliveries, DeliveryStep(d)
    PROVE  CallbackInv'
<1> DEFINE cb == delivery[d].cb
<1>1. DeliveriesOK /\ delivery[d] \in DeliveryState
  BY DEF TypeOK, DeliveriesOK
<1>2. CASE \E y \in Callbacks : Receive(d, y)
  <2>1. UNCHANGED <<charges, events>>
    BY <1>2 DEF Receive
  <2>2. PICK x : /\ delivery' = [delivery EXCEPT ![d] = x]
                 /\ x.pc \in {"ask", "record"} /\ ~x.adopt
    <3>1. PICK y \in Callbacks, pc \in {"ask", "record"}, v \in Verdicts :
             delivery' = [delivery EXCEPT ![d] =
                 [IdleDelivery EXCEPT !.cb = y, !.pc = pc, !.verdict = v]]
      BY <1>2 DEF Receive, Verdicts
    <3>2. /\ [IdleDelivery EXCEPT !.cb = y, !.pc = pc, !.verdict = v].pc = pc
          /\ ~[IdleDelivery EXCEPT !.cb = y, !.pc = pc, !.verdict = v].adopt
      BY DEF IdleDelivery
    <3> QED BY <3>1, <3>2
  <2>3. \A e \in Deliveries : HoldsItsCallback(e)'
    BY <1>1, <2>1, <2>2, DeliveryMoves
  <2> QED BY <2>1, <2>3, NoRowMoves
<1>3. CASE Ask(d)
  <2>1. UNCHANGED <<charges, events>> /\ delivery[d].pc = "ask"
    BY <1>3 DEF Ask
  <2>2. PICK v : delivery' = [delivery EXCEPT ![d].verdict = v, ![d].pc = "record"]
    BY <1>3 DEF Ask
  <2> DEFINE x == [delivery[d] EXCEPT !.verdict = v, !.pc = "record"]
  <2>3. delivery' = [delivery EXCEPT ![d] = x] /\ x.pc = "record" /\ x.adopt = delivery[d].adopt
    BY <1>1, <2>2 DEF DeliveriesOK, DeliveryState
  <2>4. ~delivery[d].adopt
    BY <2>1 DEF CallbackInv, HoldsItsCallback
  <2> HIDE DEF x
  <2>5. \A e \in Deliveries : HoldsItsCallback(e)'
    BY <1>1, <2>1, <2>3, <2>4, DeliveryMoves
  <2> QED BY <2>1, <2>5, NoRowMoves
<1>4. CASE Record(d)
  <2>1. /\ UNCHANGED charges /\ delivery[d].pc = "record" /\ cb \in Callbacks
        /\ \A e \in Deliveries : Holds(e) => delivery[e].cb # cb
    BY <1>1, <1>4 DEF Record, DeliveriesOK, Holds
  <2>2. ~delivery[d].adopt
    BY <2>1 DEF CallbackInv, HoldsItsCallback
  <2>3. CASE UNCHANGED events /\ delivery' = [delivery EXCEPT ![d] = IdleDelivery]
    <3>1. \A e \in Deliveries : HoldsItsCallback(e)'
      BY <2>1, <2>3, DeliveryEnds
    <3> QED BY <2>1, <2>3, <3>1, NoRowMoves
  <2>4. ASSUME ~Seen(cb), UNCHANGED events, NEW c \in ChargeIds, charges[c].ref = cb.ref,
               delivery' = [delivery EXCEPT ![d].pc = "commit", ![d].charge = c,
                                            ![d].sawHold = charges[c].held]
        PROVE  CallbackInv'
    <3> DEFINE x == [delivery[d] EXCEPT !.pc = "commit", !.charge = c,
                                        !.sawHold = charges[c].held]
    <3>1. /\ delivery' = [delivery EXCEPT ![d] = x] /\ x.pc = "commit" /\ x.charge = c
          /\ x.adopt = delivery[d].adopt /\ x.cb = cb
      BY <1>1, <2>4 DEF DeliveriesOK, DeliveryState
    <3> HIDE DEF x
    <3>2. events[cb] = "absent"
      BY <2>4 DEF Seen
    <3>a. \A e \in Deliveries \ {d} : Holds(e) =>
              /\ events'[delivery[e].cb] = events[delivery[e].cb]
              /\ x.pc \in {"adopt", "commit"} => x.cb # delivery[e].cb
      BY <2>1, <2>2, <2>4, <3>1, <3>2
    <3>b. x.pc \in {"adopt", "commit"} => events'[x.cb] = "absent"
      BY <2>1, <2>2, <2>4, <3>1, <3>2
    <3>c. x.adopt => x.pc = "commit" /\ x.cb.kind = "paid"
      BY <2>1, <2>2, <2>4, <3>1, <3>2
    <3>d. \A b \in ChargeIds : charges[b].ref # NULL => charges'[b].ref = charges[b].ref
      BY <2>1
    <3>e. x.pc = "commit" /\ ~x.adopt => charges'[x.charge].ref = x.cb.ref
      BY <2>1, <2>2, <2>4, <3>1, <3>2
    <3>f. delivery' = [delivery EXCEPT ![d] = x] /\ DeliveriesOK /\ d \in Deliveries
      BY <1>1, <3>1
    <3>3. \A e \in Deliveries : HoldsItsCallback(e)'
      BY <3>f, <3>e, <3>a, <3>b, <3>c, <3>d, DeliveryMoves, ZenonT(60)
    <3> QED BY <2>1, <2>4, <3>3, NoRowMoves
  <2>5. CASE ~Seen(cb) /\ UNCHANGED events /\ delivery' = [delivery EXCEPT ![d].pc = "adopt"]
    <3> DEFINE x == [delivery[d] EXCEPT !.pc = "adopt"]
    <3>1. /\ delivery' = [delivery EXCEPT ![d] = x] /\ x.pc = "adopt"
          /\ x.adopt = delivery[d].adopt /\ x.cb = cb
      BY <1>1, <2>5 DEF DeliveriesOK, DeliveryState
    <3> HIDE DEF x
    <3>2. events[cb] = "absent"
      BY <2>5 DEF Seen
    <3>a. \A e \in Deliveries \ {d} : Holds(e) =>
              /\ events'[delivery[e].cb] = events[delivery[e].cb]
              /\ x.pc \in {"adopt", "commit"} => x.cb # delivery[e].cb
      BY <2>1, <2>2, <2>5, <3>1, <3>2
    <3>b. x.pc \in {"adopt", "commit"} => events'[x.cb] = "absent"
      BY <2>1, <2>2, <2>5, <3>1, <3>2
    <3>c. x.adopt => x.pc = "commit" /\ x.cb.kind = "paid"
      BY <2>1, <2>2, <2>5, <3>1, <3>2
    <3>d. \A b \in ChargeIds : charges[b].ref # NULL => charges'[b].ref = charges[b].ref
      BY <2>1
    <3>e. x.pc = "commit" /\ ~x.adopt => charges'[x.charge].ref = x.cb.ref
      BY <2>1, <2>2, <2>5, <3>1, <3>2
    <3>f. delivery' = [delivery EXCEPT ![d] = x] /\ DeliveriesOK /\ d \in Deliveries
      BY <1>1, <3>1
    <3>3. \A e \in Deliveries : HoldsItsCallback(e)'
      BY <3>f, <3>e, <3>a, <3>b, <3>c, <3>d, DeliveryMoves, ZenonT(60)
    <3> QED BY <2>1, <2>5, <3>3, NoRowMoves
  <2>6. CASE /\ ~Seen(cb) /\ events' = [events EXCEPT ![cb] = "unmatched"]
             /\ delivery' = [delivery EXCEPT ![d] = IdleDelivery]
    <3>1. \A x \in Callbacks : events'[x] = IF x = cb THEN "unmatched" ELSE events[x]
      BY <2>6 DEF TypeOK, RowsOK
    <3>2. \A x \in Callbacks : events'[x] = "applied" <=> events[x] = "applied"
      BY <2>6, <3>1 DEF Seen
    <3>3. \A e \in Deliveries \ {d} : Holds(e) => events'[delivery[e].cb] = events[delivery[e].cb]
      BY <1>1, <2>1, <3>1 DEF DeliveriesOK, Holds
    <3>4. ~IdleDelivery.adopt /\ IdleDelivery.pc = "idle"
      BY DEF IdleDelivery
    <3> HIDE DEF IdleDelivery
    <3>5. \A e \in Deliveries : HoldsItsCallback(e)'
      BY <1>1, <2>1, <2>6, <3>3, <3>4, DeliveryMoves
    <3> QED BY <2>1, <3>2, <3>5, NoRowMoves
  <2> QED BY <1>4, <2>3, <2>4, <2>5, <2>6 DEF Record
<1>5. CASE Adopt(d)
  <2>1. UNCHANGED charges /\ delivery[d].pc = "adopt" /\ cb \in Callbacks /\ Holds(d)
    BY <1>1, <1>5 DEF Adopt, DeliveriesOK, Holds
  <2>2. events[cb] = "absent" /\ \A e \in Deliveries \ {d} : Holds(e) => delivery[e].cb # cb
    BY <2>1 DEF CallbackInv, HoldsItsCallback
  <2>3. ASSUME UNCHANGED events, NEW c \in TheOnly(Adoptable(cb)),
               delivery' = [delivery EXCEPT ![d].pc = "commit", ![d].charge = c,
                                            ![d].adopt = TRUE]
        PROVE  CallbackInv'
    <3> DEFINE x == [delivery[d] EXCEPT !.pc = "commit", !.charge = c, !.adopt = TRUE]
    <3>1. /\ delivery' = [delivery EXCEPT ![d] = x] /\ x.pc = "commit" /\ x.charge = c
          /\ x.adopt = TRUE /\ x.cb = cb
      BY <1>1, <2>3 DEF DeliveriesOK, DeliveryState
    <3>2. cb.kind = "paid"
      BY DEF TheOnly, Adoptable
    <3> HIDE DEF x
    <3>a. \A e \in Deliveries \ {d} : Holds(e) =>
              /\ events'[delivery[e].cb] = events[delivery[e].cb]
              /\ x.pc \in {"adopt", "commit"} => x.cb # delivery[e].cb
      BY <2>1, <2>2, <2>3, <3>1, <3>2
    <3>b. x.pc \in {"adopt", "commit"} => events'[x.cb] = "absent"
      BY <2>1, <2>2, <2>3, <3>1, <3>2
    <3>c. x.adopt => x.pc = "commit" /\ x.cb.kind = "paid"
      BY <2>1, <2>2, <2>3, <3>1, <3>2
    <3>d. \A b \in ChargeIds : charges[b].ref # NULL => charges'[b].ref = charges[b].ref
      BY <2>1
    <3>e. x.pc = "commit" /\ ~x.adopt => charges'[x.charge].ref = x.cb.ref
      BY <2>1, <2>2, <2>3, <3>1, <3>2
    <3>f. delivery' = [delivery EXCEPT ![d] = x] /\ DeliveriesOK /\ d \in Deliveries
      BY <1>1, <3>1
    <3>3. \A e \in Deliveries : HoldsItsCallback(e)'
      BY <3>f, <3>e, <3>a, <3>b, <3>c, <3>d, DeliveryMoves, ZenonT(60)
    <3> QED BY <2>1, <2>3, <3>3, NoRowMoves
  <2>4. CASE /\ events' = [events EXCEPT ![cb] = "unmatched"]
             /\ delivery' = [delivery EXCEPT ![d] = IdleDelivery]
    <3>1. \A x \in Callbacks : events'[x] = "applied" <=> events[x] = "applied"
      BY <2>2, <2>4 DEF TypeOK, RowsOK
    <3>2. \A e \in Deliveries : HoldsItsCallback(e)'
      BY <2>1, <2>4, DeliveryEnds
    <3> QED BY <2>1, <3>1, <3>2, NoRowMoves
  <2> QED BY <1>5, <2>3, <2>4 DEF Adopt
<1>6. CASE CommitUnclaimed(d) \/ CrashDelivery(d)
  <2>1. UNCHANGED charges /\ delivery' = [delivery EXCEPT ![d] = IdleDelivery]
    BY <1>6 DEF CommitUnclaimed, CrashDelivery
  <2>2. \/ UNCHANGED events
        \/ Holds(d) /\ events' = [events EXCEPT ![cb] = "unmatched"]
    BY <1>6 DEF CommitUnclaimed, CrashDelivery, Holds
  <2>3. Holds(d) => events[cb] = "absent" /\ cb \in Callbacks
    BY <1>1 DEF CallbackInv, HoldsItsCallback, Holds, DeliveriesOK
  <2>4. \A x \in Callbacks : events'[x] = "applied" <=> events[x] = "applied"
    BY <2>2, <2>3 DEF TypeOK, RowsOK
  <2>5. \A e \in Deliveries : HoldsItsCallback(e)'
    BY <2>1, <2>2, DeliveryEnds
  <2> QED BY <2>1, <2>4, <2>5, NoRowMoves
<1>7. CASE CommitHold(d) \/ CommitRefused(d)
  <2>1. PICK c \in ChargeIds : c = delivery[d].charge
    BY <1>7 DEF CommitHold, CommitRefused, Claimed, TypeOK, DeliveriesOK
  <2>2. /\ Claimed(d) /\ delivery' = [delivery EXCEPT ![d] = IdleDelivery]
        /\ events' = [events EXCEPT ![cb] = "matched"]
    BY <1>7 DEF CommitHold, CommitRefused
  <2>3. /\ IF delivery[d].adopt THEN TRUE ELSE charges[c].ref = cb.ref
        /\ delivery[d].adopt => cb.kind = "paid"
    BY <2>1, <2>2, ClaimedRef DEF CallbackInv, HoldsItsCallback
  <2>4. /\ charges'[c].ref = cb.ref /\ charges'[c].status = charges[c].status
        /\ charges'[c].resolvedBy = charges[c].resolvedBy
        /\ \A b \in ChargeIds \ {c} : charges'[b] = charges[b]
    BY <1>7, <2>1, <2>3 DEF CommitHold, CommitRefused, TypeOK, RowsOK, Row
  <2> QED BY <2>1, <2>2, <2>4, ClaimOnly
<1>8. CASE CommitResolve(d)
  BY <1>8, ResolveCallbacks
<1> QED BY <1>2, <1>3, <1>4, <1>5, <1>6, <1>7, <1>8 DEF DeliveryStep

LEMMA InitCallbacks == Init => CallbackInv
<1> SUFFICES ASSUME Init PROVE CallbackInv
  OBVIOUS
<1>1. \A c \in ChargeIds : charges[c] = NoRow
  BY DEF Init
<1>2. /\ NoRow.ref = NULL /\ NoRow.resolvedBy = "none" /\ NoRow.status = "none"
  BY DEF NoRow
<1>3. (\A c \in ChargeIds : RowIsSane(c)) /\ RefsAreUnique
  BY <1>1, <1>2 DEF RowIsSane, RefsAreUnique, Exists
<1>4. \A d \in Deliveries : HoldsItsCallback(d)
  BY DEF Init, IdleDelivery, HoldsItsCallback, Holds
<1>5. AppliedIsResolution
  BY <1>1, <1>2 DEF Init, AppliedIsResolution
<1> QED BY <1>3, <1>4, <1>5 DEF CallbackInv

LEMMA NextCallbacks == TypeOK /\ CallbackInv /\ [Next]_vars => CallbackInv'
BY RequestCallbacks, DeliveryCallbacks, PassCallbacks, OtherCallbacks DEF Next

THEOREM CallbackInvariant == Spec => [](TypeOK /\ CallbackInv)
BY InitCallbacks, NextCallbacks, TypeCorrect, PTL DEF Spec

(* I3: of all the callbacks that come for a charge, in any order and       *)
(* however often, one at most is applied, and it is the one that resolved  *)
(* the charge, as it says.                                                 *)
THEOREM AppliedOnce == Spec => []AppliedIsResolution
<1>1. CallbackInv => AppliedIsResolution
  BY DEF CallbackInv
<1> QED BY <1>1, CallbackInvariant, PTL

-----------------------------------------------------------------------------
(***************************************************************************)
(* Whose money it was.                                                     *)
(***************************************************************************)

(* The premise of admin.ts, that Daraja never had the push of a charge that*)
(* is purged.                                                              *)
PurgesAreSafe == \A c \in ChargeIds : charges[c].status = "deleted" => mpesa[c] = "none"

(* The premise of the adoption window: a push whose reference was not      *)
(* stored is called back within it, where another charge of the customer   *)
(* could be taken for it.                                                  *)
Punctual ==
    \A c, e \in ChargeIds :
        /\ c # e /\ Claims(c) /\ Claims(e) /\ mpesa[c] # "none"
        /\ Customer[charges[c].sale] = Customer[charges[e].sale]
        => clock - charges[c].createdAt <= AdoptionWindow

(* A request pushes a charge of its own, and takes no tick of the clock.   *)
RequestInv(p) ==
    LET c == request[p].charge IN
    /\ c # NULL => /\ Exists(c)
                   /\ charges[c].createdAt = clock
                   /\ \A q \in Requests : request[q].charge = c => q = p
    /\ request[p].pc \in {"idle", "insert"} => c = NULL
    /\ request[p].pc \in {"push", "rejected"} => mpesa[c] = "none"
    /\ request[p].pc = "acked" => mpesa[c] # "none"

(* Daraja is asked only for charges there are.                             *)
PushInv ==
    /\ \A p \in Requests : RequestInv(p)
    /\ \A c \in ChargeIds : mpesa[c] # "none" => Exists(c)

(* Steps of the callbacks, the passes, the customer and the clock neither  *)
(* open nor drop a charge.                                                 *)
RowStays(c) ==
    /\ charges'[c].status \in {"PENDING", "PAID", "FAILED"} <=> Exists(c)
    /\ charges'[c].createdAt = charges[c].createdAt

LEMMA RowsStay ==
    ASSUME TypeOK,
           \/ \E d \in Deliveries : DeliveryStep(d)
           \/ \E r \in Passes : PassStep(r)
           \/ \E c \in ChargeIds : Release(c)
           \/ \E c \in ChargeIds : CustomerAnswers(c)
           \/ Tick
           \/ UNCHANGED vars
    PROVE  \A c \in ChargeIds : RowStays(c)
<1> USE DEF TypeOK, RowsOK
<1>1. CASE UNCHANGED charges
  BY <1>1 DEF RowStays, Exists
<1>2. ASSUME NEW d \in Deliveries, DeliveryStep(d), ~UNCHANGED charges
      PROVE  \A c \in ChargeIds : RowStays(c)
  <2>1. CommitHold(d) \/ CommitRefused(d) \/ CommitResolve(d)
    BY <1>2 DEF DeliveryStep, Receive, Ask, Record, Adopt, CommitUnclaimed, CrashDelivery
  <2>2. PICK c \in ChargeIds : c = delivery[d].charge
    BY <2>1 DEF CommitHold, CommitRefused, CommitResolve, Claimed, DeliveriesOK
  <2>3. CASE CommitHold(d)
    BY <2>2, <2>3 DEF CommitHold, RowStays, Exists, Row
  <2>4. CASE CommitRefused(d)
    BY <2>2, <2>4 DEF CommitRefused, RowStays, Exists, Row
  <2>5. CASE CommitResolve(d)
    <3> DEFINE x == IF delivery[d].adopt THEN delivery[d].cb.ref ELSE charges[c].ref
               final == IF delivery[d].cb.kind = "paid" THEN "PAID" ELSE "FAILED"
    <3>1. \/ charges' = [charges EXCEPT ![c].ref = x]
          \/ /\ Pending(c) /\ final \in {"PAID", "FAILED"}
             /\ charges' = [charges EXCEPT ![c].ref = x, ![c].resolvedBy = "callback",
                                           ![c].status = final]
      BY <2>2, <2>5 DEF CommitResolve, Resolve, Unheld
    <3> HIDE DEF x, final
    <3>2. \A b \in ChargeIds : b # c => charges'[b] = charges[b]
      BY <3>1
    <3>3. RowStays(c)
      BY <3>1 DEF RowStays, Exists, Row, Pending
    <3> QED BY <3>2, <3>3 DEF RowStays, Exists
  <2> QED BY <2>1, <2>3, <2>4, <2>5
<1>3. ASSUME NEW r \in Passes, PassStep(r), ~UNCHANGED charges
      PROVE  \A c \in ChargeIds : RowStays(c)
  <2>1. ASSUME NEW c \in ChargeIds, charges' = Bump(c)
        PROVE  \A b \in ChargeIds : RowStays(b)
    BY <2>1 DEF Bump, RowStays, Exists, Row
  <2>2. CASE Examine(r)
    BY <2>1, <2>2 DEF Examine, PassesOK, PassState
  <2>3. CASE ApplyAnswer(r)
    <3>1. pass[r].charge \in ChargeIds
      BY <2>3 DEF ApplyAnswer, PassesOK
    <3>2. CASE Unheld(pass[r].charge)
      BY <2>3, <3>1, <3>2 DEF ApplyAnswer, RowStays, Exists, Row, Unheld, Pending
    <3>3. CASE ~Unheld(pass[r].charge)
      BY <2>1, <2>3, <3>1, <3>3 DEF ApplyAnswer
    <3> QED BY <3>2, <3>3
  <2> QED BY <1>3, <2>2, <2>3 DEF PassStep, StartPass, Query, CrashPass
<1>4. ASSUME NEW c \in ChargeIds, Release(c)
      PROVE  \A b \in ChargeIds : RowStays(b)
  BY <1>4 DEF Release, RowStays, Exists, Row
<1> QED BY <1>1, <1>2, <1>3, <1>4 DEF CustomerAnswers, Tick, vars

LEMMA RequestPushes ==
    ASSUME TypeOK, CallbackInv, PushInv, NEW p \in Requests, RequestStep(p)
    PROVE  PushInv'
<1> USE DEF TypeOK
<1>1. clock' = clock /\ NULL \notin ChargeIds
  BY ConstantsAssumption DEF RequestStep, LookUp, Insert, Push, StoreAck, StoreRejection, EndRequest
<1>2. ASSUME NEW x, request' = [request EXCEPT ![p] = x], x.charge = NULL,
             x.pc \in {"idle", "insert"}, mpesa' = mpesa,
             \A c \in ChargeIds : RowStays(c)
      PROVE  PushInv'
  <2>1. \A q \in Requests : request'[q] = IF q = p THEN x ELSE request[q]
    BY <1>2 DEF RequestsOK
  <2>2. \A c \in ChargeIds : Exists(c)' <=> Exists(c)
    BY <1>2 DEF RowStays, Exists
  <2>3. ASSUME NEW q \in Requests PROVE RequestInv(q)'
    <3>1. CASE q = p
      BY <1>2, <2>1, <3>1 DEF RequestInv
    <3>2. CASE q # p
      <4>1. PICK c : c = request[q].charge
        OBVIOUS
      <4>2. RequestInv(q) /\ request'[q] = request[q] /\ c \in ChargeIds \cup {NULL}
        BY <2>1, <3>2, <4>1 DEF PushInv, RequestsOK, RequestState
      <4>3. c # NULL => /\ Exists(c)' /\ charges'[c].createdAt = clock'
                        /\ \A y \in Requests : request'[y].charge = c => y = q
        BY <1>1, <1>2, <2>1, <2>2, <4>1, <4>2 DEF RequestInv, RowStays
      <4> QED BY <1>2, <4>1, <4>2, <4>3 DEF RequestInv, Exists
    <3> QED BY <3>1, <3>2
  <2>4. \A c \in ChargeIds : mpesa'[c] # "none" => Exists(c)'
    BY <1>2, <2>2 DEF PushInv
  <2> QED BY <2>3, <2>4 DEF PushInv
<1>3. CASE \E s \in Sales : LookUp(p, s)
  <2>1. PICK s \in Sales : LookUp(p, s)
    BY <1>3
  <2>2. \A c \in ChargeIds : RowStays(c)
    BY <2>1 DEF LookUp, RowStays, Exists
  <2>3. /\ [pc |-> "insert", sale |-> s, charge |-> NULL].charge = NULL
        /\ [pc |-> "insert", sale |-> s, charge |-> NULL].pc = "insert"
    OBVIOUS
  <2> QED BY <1>2, <2>1, <2>2, <2>3 DEF LookUp
<1>4. CASE request' = [request EXCEPT ![p] = IdleRequest] /\ mpesa' = mpesa
  <2>1. \A c \in ChargeIds : RowStays(c)
    <3>1. CASE UNCHANGED charges
      BY <3>1 DEF RowStays, Exists
    <3>2. CASE StoreAck(p) /\ ~UNCHANGED charges
      BY <3>2 DEF StoreAck, RowStays, Exists, RowsOK, Row, RequestsOK
    <3>3. CASE StoreRejection(p) /\ ~UNCHANGED charges
      BY <3>3 DEF StoreRejection, Refused, RowStays, Exists, Pending, RowsOK, Row, RequestsOK
    <3>4. UNCHANGED charges \/ StoreAck(p) \/ StoreRejection(p) \/ Insert(p)
      BY DEF RequestStep, LookUp, Push, EndRequest
    <3>5. Insert(p) => UNCHANGED charges
      BY <1>4, <1>1 DEF Insert, IdleRequest, RequestsOK, RequestState
    <3> QED BY <3>1, <3>2, <3>3, <3>4, <3>5
  <2>2. IdleRequest.charge = NULL /\ IdleRequest.pc = "idle"
    BY DEF IdleRequest
  <2> QED BY <1>2, <1>4, <2>1, <2>2
<1>5. CASE Insert(p) /\ ~UNCHANGED charges
  <2>1. PICK c \in ChargeIds :
           /\ charges[c].status = "none"
           /\ charges' = [charges EXCEPT ![c] =
                  [NoRow EXCEPT !.status = "PENDING", !.sale = request[p].sale,
                                !.createdAt = clock]]
           /\ request' = [request EXCEPT ![p].pc = "push", ![p].charge = c]
    BY <1>5 DEF Insert
  <2>2. /\ charges'[c].status = "PENDING" /\ charges'[c].createdAt = clock
        /\ \A b \in ChargeIds : b # c => charges'[b] = charges[b]
        /\ request'[p].pc = "push" /\ request'[p].charge = c
        /\ \A q \in Requests : q # p => request'[q] = request[q]
        /\ mpesa' = mpesa
    BY <1>5, <2>1 DEF Insert, NoRow, RowsOK, RequestsOK, RequestState
  <2>3. mpesa[c] = "none"
    BY <2>1 DEF PushInv, Exists, RowsOK
  <2>4. \A q \in Requests : request[q].charge # c
    BY <1>1, <2>1 DEF PushInv, RequestInv, Exists
  <2>5. RequestInv(p)'
    BY <1>1, <2>2, <2>3, <2>4 DEF RequestInv, Exists
  <2>6. ASSUME NEW q \in Requests, q # p PROVE RequestInv(q)'
    <3>1. PICK b : b = request[q].charge
      OBVIOUS
    <3>2. RequestInv(q) /\ request'[q] = request[q] /\ b \in ChargeIds \cup {NULL} /\ b # c
      BY <2>2, <2>4, <2>6, <3>1 DEF PushInv, RequestsOK, RequestState
    <3>3. b # NULL => /\ Exists(b)' /\ charges'[b].createdAt = clock'
                      /\ \A y \in Requests : request'[y].charge = b => y = q
      BY <1>1, <2>2, <2>4, <3>1, <3>2 DEF RequestInv, Exists
    <3> QED BY <2>2, <3>1, <3>2, <3>3 DEF RequestInv, Exists
  <2>7. \A b \in ChargeIds : mpesa'[b] # "none" => Exists(b)'
    BY <2>2 DEF PushInv, Exists
  <2> QED BY <2>5, <2>6, <2>7 DEF PushInv
<1>6. CASE Push(p)
  <2>1. PICK c \in ChargeIds : c = request[p].charge
    BY <1>6 DEF Push, RequestsOK
  <2>2. PICK answer \in {"acked", "rejected", "uncertain"}, reached \in BOOLEAN :
           /\ answer = "acked" => reached
           /\ answer = "rejected" => ~reached
           /\ request' = [request EXCEPT ![p].pc = answer]
           /\ mpesa' = [mpesa EXCEPT ![c] = IF reached THEN "processing" ELSE @]
    BY <1>6, <2>1 DEF Push
  <2>3. /\ request[p].pc = "push" /\ RequestInv(p) /\ c # NULL /\ charges' = charges
    BY <1>1, <1>6, <2>1 DEF Push, PushInv
  <2>4. /\ mpesa[c] = "none" /\ Exists(c) /\ charges[c].createdAt = clock
        /\ \A q \in Requests : request[q].charge = c => q = p
    BY <2>1, <2>3 DEF RequestInv
  <2>5. /\ request'[p].pc = answer /\ request'[p].charge = c
        /\ \A q \in Requests : q # p => request'[q] = request[q]
        /\ \A b \in ChargeIds : b # c => mpesa'[b] = mpesa[b]
        /\ mpesa'[c] = IF reached THEN "processing" ELSE "none"
    BY <2>1, <2>2, <2>4 DEF RequestsOK, RequestState, RowsOK
  <2>6. RequestInv(p)'
    BY <1>1, <2>1, <2>2, <2>3, <2>4, <2>5 DEF RequestInv, Exists
  <2>7. ASSUME NEW q \in Requests, q # p PROVE RequestInv(q)'
    <3>1. PICK b : b = request[q].charge
      OBVIOUS
    <3>2. RequestInv(q) /\ request'[q] = request[q] /\ b \in ChargeIds \cup {NULL} /\ b # c
      BY <2>4, <2>5, <2>7, <3>1 DEF PushInv, RequestsOK, RequestState
    <3>3. b # NULL => /\ Exists(b)' /\ charges'[b].createdAt = clock' /\ mpesa'[b] = mpesa[b]
                      /\ \A y \in Requests : request'[y].charge = b => y = q
      BY <1>1, <2>1, <2>3, <2>5, <2>7, <3>1, <3>2 DEF RequestInv, Exists
    <3>4. request[q].pc \in {"push", "rejected", "acked"} => b # NULL
      BY <1>1, <3>1 DEF RequestsOK
    <3> QED BY <3>1, <3>2, <3>3, <3>4 DEF RequestInv, Exists
  <2>8. \A b \in ChargeIds : mpesa'[b] # "none" => Exists(b)'
    BY <2>3, <2>4, <2>5 DEF PushInv, Exists
  <2> QED BY <2>6, <2>7, <2>8 DEF PushInv
<1>7. \/ \E s \in Sales : LookUp(p, s)
      \/ request' = [request EXCEPT ![p] = IdleRequest] /\ mpesa' = mpesa
      \/ Insert(p) /\ ~UNCHANGED charges
      \/ Push(p)
  <2>1. Insert(p) /\ UNCHANGED charges => request' = [request EXCEPT ![p] = IdleRequest]
    <3> SUFFICES ASSUME Insert(p), UNCHANGED charges, ~HasCharge(request[p].sale) PROVE FALSE
      BY DEF Insert
    <3>1. PICK c \in ChargeIds :
             /\ charges[c].status = "none"
             /\ charges' = [charges EXCEPT ![c] =
                    [NoRow EXCEPT !.status = "PENDING", !.sale = request[p].sale,
                                  !.createdAt = clock]]
      BY DEF Insert
    <3> QED BY <3>1 DEF RowsOK, NoRow
  <2> QED BY <2>1 DEF RequestStep, Insert, StoreAck, StoreRejection, EndRequest
<1> QED BY <1>3, <1>4, <1>5, <1>6, <1>7

LEMMA OtherPushes ==
    ASSUME TypeOK, PushInv,
           \/ \E d \in Deliveries : DeliveryStep(d)
           \/ \E r \in Passes : PassStep(r)
           \/ \E c \in ChargeIds : Release(c)
           \/ \E c \in ChargeIds : CustomerAnswers(c)
           \/ Tick
           \/ UNCHANGED vars
    PROVE  PushInv'
<1>1. \A c \in ChargeIds : RowStays(c)
  BY RowsStay
<1>2. \A c \in ChargeIds : Exists(c)' <=> Exists(c)
  BY <1>1 DEF RowStays, Exists
<1>3. UNCHANGED request
  BY DEF DeliveryStep, Receive, Ask, Record, Adopt, CommitUnclaimed, CommitHold, CommitRefused,
         CommitResolve, CrashDelivery, PassStep, StartPass, Examine, Query, ApplyAnswer, CrashPass,
         Release, CustomerAnswers, Tick, vars
<1>4. \A c \in ChargeIds : mpesa'[c] = "none" <=> mpesa[c] = "none"
  <2>1. CASE UNCHANGED mpesa
    BY <2>1
  <2>2. ASSUME NEW c \in ChargeIds, CustomerAnswers(c)
        PROVE  \A b \in ChargeIds : mpesa'[b] = "none" <=> mpesa[b] = "none"
    BY <2>2 DEF CustomerAnswers, TypeOK, RowsOK
  <2> QED BY <2>1, <2>2
      DEF DeliveryStep, Receive, Ask, Record, Adopt, CommitUnclaimed, CommitHold, CommitRefused,
         CommitResolve, CrashDelivery, PassStep, StartPass, Examine, Query, ApplyAnswer, CrashPass,
         Release, Tick, vars
<1>5. clock' = clock \/ \A p \in Requests : request[p].pc = "idle"
  BY DEF DeliveryStep, Receive, Ask, Record, Adopt, CommitUnclaimed, CommitHold, CommitRefused,
         CommitResolve, CrashDelivery, PassStep, StartPass, Examine, Query, ApplyAnswer, CrashPass,
         Release, CustomerAnswers, Tick, vars
<1>6. ASSUME NEW p \in Requests PROVE RequestInv(p)'
  <2>1. PICK c : c = request[p].charge
    OBVIOUS
  <2>2. RequestInv(p) /\ request'[p] = request[p] /\ c \in ChargeIds \cup {NULL}
    BY <1>3, <2>1 DEF PushInv, TypeOK, RequestsOK, RequestState
  <2>3. c # NULL => /\ Exists(c)' /\ charges'[c].createdAt = clock'
                    /\ \A y \in Requests : request'[y].charge = c => y = p
    BY <1>1, <1>2, <1>3, <1>5, <2>1, <2>2 DEF RequestInv, RowStays
  <2>4. request[p].pc \in {"push", "rejected", "acked"} => c \in ChargeIds
    BY <2>1 DEF TypeOK, RequestsOK
  <2> QED BY <1>4, <2>1, <2>2, <2>3, <2>4 DEF RequestInv, Exists
<1>7. \A c \in ChargeIds : mpesa'[c] # "none" => Exists(c)'
  BY <1>2, <1>4 DEF PushInv
<1> QED BY <1>6, <1>7 DEF PushInv

(* A purge is of charges older than any request, and, under its premise, of*)
(* charges that were never pushed.                                         *)
LEMMA PurgePushes ==
    ASSUME TypeOK, PushInv, PurgesAreSafe', NEW age \in PurgeAges, PurgeAbandoned(age)
    PROVE  PushInv'
<1> PICK purged \in SUBSET Abandoned(age) :
        charges' = [c \in ChargeIds |->
            IF c \in purged THEN [charges[c] EXCEPT !.status = "deleted"] ELSE charges[c]]
  BY DEF PurgeAbandoned
<1>1. UNCHANGED <<request, mpesa, clock>>
  BY DEF PurgeAbandoned
<1>2. \A c \in ChargeIds :
         /\ charges'[c].createdAt = charges[c].createdAt
         /\ charges'[c].status = IF c \in purged THEN "deleted" ELSE charges[c].status
  BY DEF TypeOK, RowsOK, Row
<1>3. \A c \in purged : c \in ChargeIds /\ charges[c].createdAt # clock
  <2>1. age \in Nat \ {0} /\ clock \in Nat
    BY ConstantsAssumption DEF TypeOK, RowsOK
  <2> QED BY <2>1 DEF Abandoned, TypeOK, RowsOK, Row
<1>4. ASSUME NEW p \in Requests PROVE RequestInv(p)'
  <2>1. PICK c : c = request[p].charge
    OBVIOUS
  <2>2. RequestInv(p) /\ request'[p] = request[p] /\ c \in ChargeIds \cup {NULL}
    BY <1>1, <2>1 DEF PushInv, TypeOK, RequestsOK, RequestState
  <2>3. c # NULL => /\ Exists(c)' /\ charges'[c].createdAt = clock'
                    /\ \A y \in Requests : request'[y].charge = c => y = p
    BY <1>1, <1>2, <1>3, <2>1, <2>2 DEF RequestInv, Exists
  <2> QED BY <1>1, <2>1, <2>2, <2>3 DEF RequestInv, Exists
<1>5. ASSUME NEW c \in ChargeIds, mpesa'[c] # "none" PROVE Exists(c)'
  <2>1. Exists(c) /\ charges'[c].status # "deleted"
    BY <1>1, <1>5 DEF PushInv, PurgesAreSafe
  <2> QED BY <1>2, <2>1 DEF Exists
<1> QED BY <1>4, <1>5 DEF PushInv

LEMMA InitPushes == Init => PushInv
BY DEF Init, IdleRequest, PushInv, RequestInv

LEMMA NextPushes ==
    TypeOK /\ CallbackInv /\ PushInv /\ PurgesAreSafe' /\ [Next]_vars => PushInv'
BY RequestPushes, OtherPushes, PurgePushes DEF Next

THEOREM PushInvariant == Spec /\ []PurgesAreSafe => []PushInv
BY InitPushes, NextPushes, CallbackInvariant, PTL DEF Spec

(* I2: as long as no purge takes a charge Daraja knows of, a sale is pushed*)
(* once, however its requests race.                                        *)
THEOREM PushedOnce == Spec /\ []PurgesAreSafe => []OnePushPerSale
<1>1. LedgerInv /\ PushInv => OnePushPerSale
  BY DEF LedgerInv, OneChargePerSale, PushInv, OnePushPerSale
<1> QED BY <1>1, LedgerInvariant, PushInvariant, PTL

WasHeld(c) == events[[ref |-> c, kind |-> "wrong_amount"]] = "matched"

(* A charge that no callback of its push can move any more.                *)
IsPast(c) ==
    \/ charges[c].ref = c /\ charges[c].status \in {"PAID", "FAILED"}
    \/ Claims(c) /\ clock - charges[c].createdAt > AdoptionWindow

RowInv(c) ==
    /\ charges[c].ref \in {NULL, c}
    /\ charges[c].ref = c => mpesa[c] # "none"
    /\ mpesa[c] # "none" => charges[c].ref = c \/ Unheld(c)
    /\ charges[c].held => charges[c].ref = c /\ WasHeld(c)
    /\ charges[c].status = "FAILED" /\ charges[c].ref = c => mpesa[c] = "declined"
    /\ Confirm /\ evidence[c] \notin {"none", "confirmed"} => charges[c].ref = c /\ WasHeld(c)

PushesOwn(p) == request[p].pc = "push" => Unheld(request[p].charge)

(* What a pass has read of a charge's reference stays so.                  *)
PassInv(r) ==
    /\ \A e \in pass[r].batch : e[2] \in {NULL, charges[e[1]].ref}
    /\ pass[r].pc = "apply" => /\ charges[pass[r].charge].ref = pass[r].charge
                               /\ mpesa[pass[r].charge] = pass[r].answer

DeliveryInv(d) ==
    LET c == delivery[d].charge
        cb == delivery[d].cb IN
    /\ delivery[d].pc # "idle" =>
          /\ mpesa[cb.ref] # "none"
          /\ cb.kind = "declined" => mpesa[cb.ref] = "declined"
    /\ delivery[d].adopt =>
          /\ c = cb.ref \/ charges[cb.ref].ref = cb.ref
          /\ clock - charges[c].createdAt <= AdoptionWindow
    /\ Confirm /\ delivery[d].pc \in {"record", "adopt", "commit"} /\ cb.kind = "paid" =>
          \/ delivery[d].verdict \in Refusals \cup {"confirmed"}
          \/ WasHeld(cb.ref)
          \/ IsPast(cb.ref)

AttributionInv ==
    /\ \A c \in ChargeIds : RowInv(c)
    /\ \A p \in Requests : PushesOwn(p)
    /\ \A r \in Passes : PassInv(r)
    /\ \A d \in Deliveries : DeliveryInv(d)

(* A row of an open push goes on: what others have read of it stays true.  *)
RowAdvances(c) ==
    /\ charges[c].ref # NULL => charges'[c].ref = charges[c].ref
    /\ charges'[c].createdAt \in {charges[c].createdAt, clock}
    /\ mpesa[c] # "none" => mpesa'[c] # "none"
    /\ mpesa[c] \in {"success", "declined"} => mpesa'[c] = mpesa[c]
    /\ mpesa[c] # "none" /\ IsPast(c) =>
           \/ charges'[c].ref = c /\ charges'[c].status \in {"PAID", "FAILED"}
           \/ /\ charges'[c].ref = NULL /\ charges'[c].status = "PENDING"
              /\ clock - charges'[c].createdAt > AdoptionWindow
    /\ WasHeld(c) => WasHeld(c)'
    /\ RowInv(c)'

(* A row nobody writes, while no other hold is forgotten.                  *)
LEMMA RowRests ==
    ASSUME NEW c \in ChargeIds, RowInv(c), charges'[c] = charges[c], mpesa'[c] = mpesa[c],
           evidence'[c] = evidence[c], WasHeld(c) => WasHeld(c)'
    PROVE  RowAdvances(c)
BY DEF RowAdvances, RowInv, IsPast, Claims, Unheld, Pending

LEMMA PassGoesOn ==
    ASSUME TypeOK, NEW r \in Passes, PassInv(r), pass'[r] = pass[r],
           \A c \in ChargeIds : RowAdvances(c)
    PROVE  PassInv(r)'
<1>1. ASSUME NEW e \in pass[r].batch PROVE e[2] \in {NULL, charges'[e[1]].ref}
  <2>1. PICK c \in ChargeIds : c = e[1]
    BY DEF TypeOK, PassesOK, PassState
  <2> QED BY <2>1 DEF PassInv, RowAdvances
<1>2. ASSUME pass[r].pc = "apply"
      PROVE  /\ charges'[pass[r].charge].ref = pass[r].charge
             /\ mpesa'[pass[r].charge] = pass[r].answer
  <2>1. PICK c \in ChargeIds : c = pass[r].charge
    BY <1>2 DEF TypeOK, PassesOK
  <2>2. mpesa[c] \in {"success", "declined"} /\ charges[c].ref = c /\ mpesa[c] = pass[r].answer
    BY <1>2, <2>1 DEF TypeOK, PassesOK, PassState, PassInv
  <2> QED BY <2>1, <2>2, ConstantsAssumption DEF RowAdvances
<1> QED BY <1>1, <1>2 DEF PassInv

LEMMA DeliveryGoesOn ==
    ASSUME TypeOK, CallbackInv, NEW d \in Deliveries, DeliveryInv(d), delivery'[d] = delivery[d],
           \A c \in ChargeIds : RowAdvances(c), clock' = clock
    PROVE  DeliveryInv(d)'
<1>1. CASE delivery[d].pc = "idle"
  BY <1>1 DEF CallbackInv, HoldsItsCallback, DeliveryInv
<1>2. CASE delivery[d].pc # "idle"
  <2>1. PICK b \in ChargeIds : b = delivery[d].cb.ref
    BY <1>2 DEF TypeOK, DeliveriesOK, Callbacks
  <2>2. /\ mpesa[b] # "none"
        /\ delivery[d].cb.kind = "declined" => mpesa[b] = "declined"
    BY <1>2, <2>1 DEF DeliveryInv
  <2>3. /\ mpesa'[b] # "none"
        /\ delivery[d].cb.kind = "declined" => mpesa'[b] = "declined"
    BY <2>2 DEF RowAdvances
  <2>4. ASSUME delivery[d].adopt
        PROVE  /\ delivery[d].charge = b \/ charges'[b].ref = b
               /\ clock - charges'[delivery[d].charge].createdAt <= AdoptionWindow
    <3>1. PICK c \in ChargeIds : c = delivery[d].charge
      BY <2>4 DEF CallbackInv, HoldsItsCallback, TypeOK, DeliveriesOK
    <3>2. /\ c = b \/ charges[b].ref = b
          /\ clock - charges[c].createdAt <= AdoptionWindow
      BY <2>1, <2>4, <3>1 DEF DeliveryInv
    <3>3. clock - clock <= AdoptionWindow /\ b # NULL
      BY ConstantsAssumption DEF TypeOK, RowsOK
    <3> QED BY <3>1, <3>2, <3>3 DEF RowAdvances
  <2>5. IsPast(b) => IsPast(b)'
    BY <2>2 DEF RowAdvances, IsPast, Claims, Pending
  <2>6. WasHeld(b) => WasHeld(b)'
    BY DEF RowAdvances
  <2>7. Confirm /\ delivery'[d].pc \in {"record", "adopt", "commit"} /\ delivery'[d].cb.kind = "paid" =>
          \/ delivery'[d].verdict \in Refusals \cup {"confirmed"}
          \/ WasHeld(b)'
          \/ IsPast(b)'
    BY <2>1, <2>5, <2>6 DEF DeliveryInv
  <2> QED BY <2>1, <2>3, <2>4, <2>7 DEF DeliveryInv, WasHeld, IsPast, Claims, Pending
<1> QED BY <1>1, <1>2

(* A request that is about to push has its charge to itself.               *)
LEMMA RequestGoesOn ==
    ASSUME TypeOK, PushInv, NEW p \in Requests, PushesOwn(p), request'[p] = request[p],
           \A c \in ChargeIds : mpesa[c] = "none" /\ Unheld(c) /\ charges[c].createdAt = clock =>
               \/ request[p].charge # c
               \/ charges'[c].status = charges[c].status /\ charges'[c].held = charges[c].held
    PROVE  PushesOwn(p)'
<1> SUFFICES ASSUME request[p].pc = "push"
             PROVE  charges'[request[p].charge].status = "PENDING" /\ ~charges'[request[p].charge].held
  BY DEF PushesOwn, Unheld, Pending
<1>1. PICK c \in ChargeIds : c = request[p].charge
  BY DEF TypeOK, RequestsOK
<1>2. mpesa[c] = "none" /\ charges[c].createdAt = clock /\ Unheld(c)
  BY <1>1, ConstantsAssumption DEF PushInv, RequestInv, PushesOwn
<1> QED BY <1>1, <1>2 DEF Unheld, Pending

LEMMA RequestAttribution ==
    ASSUME TypeOK, CallbackInv, PushInv, AttributionInv, NEW p \in Requests, RequestStep(p)
    PROVE  AttributionInv'
<1> USE DEF TypeOK
<1>1. UNCHANGED <<events, delivery, pass, clock, evidence>> /\ NULL \notin ChargeIds
  BY ConstantsAssumption DEF RequestStep, LookUp, Insert, Push, StoreAck, StoreRejection, EndRequest
<1>2. /\ \A c \in ChargeIds : RowInv(c) /\ RowIsSane(c) /\ (WasHeld(c) => WasHeld(c)')
      /\ \A q \in Requests : RequestInv(q) /\ PushesOwn(q)
      /\ \A c \in ChargeIds : charges[c] \in Row
  BY <1>1 DEF AttributionInv, CallbackInv, PushInv, WasHeld, RowsOK
<1>3. ASSUME \A c \in ChargeIds : RowAdvances(c), \A q \in Requests : PushesOwn(q)'
      PROVE  AttributionInv'
  <2>1. \A r \in Passes : PassInv(r)'
    BY <1>1, <1>3, PassGoesOn DEF AttributionInv
  <2>2. \A d \in Deliveries : DeliveryInv(d)'
    BY <1>1, <1>3, DeliveryGoesOn DEF AttributionInv
  <2>3. \A c \in ChargeIds : RowInv(c)'
    BY <1>3 DEF RowAdvances
  <2> QED BY <1>3, <2>1, <2>2, <2>3 DEF AttributionInv
<1>4. CASE UNCHANGED <<charges, mpesa>>
  <2>1. \A c \in ChargeIds : RowAdvances(c)
    BY <1>1, <1>2, <1>4, RowRests
  <2>2. ASSUME NEW q \in Requests PROVE PushesOwn(q)'
    <3>1. CASE request'[q].pc = "push"
      <4>1. request'[q] = request[q]
        <5>1. IdleRequest.pc = "idle"
          BY DEF IdleRequest
        <5> HIDE DEF IdleRequest
        <5>2. q # p => request'[q] = request[q]
          BY DEF RequestStep, LookUp, Insert, Push, StoreAck, StoreRejection, EndRequest, RequestsOK
        <5>3. request'[p].pc = "push" => Insert(p) /\ ~HasCharge(request[p].sale)
          BY <5>1 DEF RequestStep, LookUp, Insert, Push, StoreAck, StoreRejection, EndRequest, RequestsOK,
                      RequestState
        <5>4. ~(Insert(p) /\ ~HasCharge(request[p].sale))
          <6> SUFFICES ASSUME Insert(p), ~HasCharge(request[p].sale) PROVE FALSE
            OBVIOUS
          <6>1. PICK c \in ChargeIds :
                   /\ charges[c].status = "none"
                   /\ charges' = [charges EXCEPT ![c] =
                          [NoRow EXCEPT !.status = "PENDING", !.sale = request[p].sale,
                                        !.createdAt = clock]]
            BY DEF Insert
          <6> QED BY <1>4, <6>1 DEF RowsOK, NoRow
        <5> QED BY <3>1, <5>2, <5>3, <5>4
      <4> QED BY <1>2, <1>4, <4>1 DEF PushesOwn, Unheld, Pending
    <3> QED BY <3>1 DEF PushesOwn
  <2> QED BY <1>3, <2>1, <2>2
<1>5. CASE Insert(p) /\ ~UNCHANGED charges
  <2>1. PICK c \in ChargeIds :
           /\ charges[c].status = "none"
           /\ charges' = [charges EXCEPT ![c] =
                  [NoRow EXCEPT !.status = "PENDING", !.sale = request[p].sale,
                                !.createdAt = clock]]
           /\ request' = [request EXCEPT ![p].pc = "push", ![p].charge = c]
    BY <1>5 DEF Insert
  <2>2. /\ charges'[c].status = "PENDING" /\ charges'[c].createdAt = clock
        /\ charges'[c].ref = NULL /\ charges'[c].held = FALSE
        /\ \A b \in ChargeIds : b # c => charges'[b] = charges[b]
        /\ request'[p].pc = "push" /\ request'[p].charge = c
        /\ \A q \in Requests : q # p => request'[q] = request[q]
        /\ mpesa' = mpesa
    BY <1>5, <2>1 DEF Insert, NoRow, RowsOK, RequestsOK, RequestState
  <2>3. mpesa[c] = "none" /\ charges[c].ref = NULL
    BY <1>2, <2>1 DEF PushInv, Exists, RowsOK, RowIsSane
  <2>4. RowAdvances(c)
    BY <1>1, <1>2, <2>2, <2>3 DEF RowAdvances, RowInv, Unheld, Pending
  <2>5. \A b \in ChargeIds : RowAdvances(b)
    BY <1>1, <1>2, <2>2, <2>4, RowRests
  <2>6. ASSUME NEW q \in Requests PROVE PushesOwn(q)'
    <3>1. CASE q = p
      BY <2>2, <3>1 DEF PushesOwn, Unheld, Pending
    <3>2. CASE q # p
      <4>1. request[q].pc = "push" => request[q].charge \in ChargeIds /\ request[q].charge # c
        BY <1>1, <1>2, <2>1 DEF RequestsOK, RequestInv, Exists
      <4> QED BY <1>2, <2>2, <3>2, <4>1 DEF PushesOwn, Unheld, Pending
    <3> QED BY <3>1, <3>2
  <2> QED BY <1>3, <2>5, <2>6
<1>6. CASE Push(p)
  <2>1. PICK c \in ChargeIds : c = request[p].charge
    BY <1>6 DEF Push, RequestsOK
  <2>2. PICK answer \in {"acked", "rejected", "uncertain"} :
           /\ request' = [request EXCEPT ![p].pc = answer]
           /\ mpesa' = [mpesa EXCEPT ![c] = "processing"] \/ mpesa' = [mpesa EXCEPT ![c] = @]
    BY <1>6, <2>1 DEF Push
  <2>3. charges' = charges /\ request[p].pc = "push" /\ mpesa[c] = "none"
    BY <1>2, <1>6, <2>1 DEF Push, RequestInv
  <2>4. /\ \A b \in ChargeIds : b # c => mpesa'[b] = mpesa[b]
        /\ mpesa'[c] \in {"none", "processing"}
        /\ request'[p].pc # "push"
        /\ \A q \in Requests : q # p => request'[q] = request[q]
    BY <2>2, <2>3 DEF RowsOK, RequestsOK
  <2>5. Unheld(c)
    BY <1>2, <2>1, <2>3 DEF PushesOwn
  <2>6. RowAdvances(c)
    <3>1. RowInv(c)'
      BY <1>1, <1>2, <2>3, <2>4, <2>5 DEF RowInv, Unheld, Pending
    <3> QED BY <1>2, <2>3, <3>1 DEF RowAdvances
  <2>7. \A b \in ChargeIds : RowAdvances(b)
    BY <1>1, <1>2, <2>3, <2>4, <2>6, RowRests
  <2>8. \A q \in Requests : PushesOwn(q)'
    BY <1>2, <2>3, <2>4 DEF PushesOwn, Unheld, Pending
  <2> QED BY <1>3, <2>7, <2>8
<1>7. CASE StoreAck(p) /\ ~UNCHANGED charges
  <2>1. PICK c \in ChargeIds : c = request[p].charge
    BY <1>7 DEF StoreAck, RequestsOK
  <2>2. /\ Pending(c) /\ charges[c].ref = NULL /\ request[p].pc = "acked"
        /\ charges' = [charges EXCEPT ![c].ref = c]
        /\ request' = [request EXCEPT ![p] = IdleRequest] /\ mpesa' = mpesa
    BY <1>7, <2>1 DEF StoreAck
  <2>3. mpesa[c] # "none" /\ charges[c].createdAt = clock
    BY <1>1, <1>2, <2>1, <2>2 DEF RequestInv
  <2>4. /\ charges'[c].ref = c /\ charges'[c].status = charges[c].status
        /\ charges'[c].held = charges[c].held /\ charges'[c].createdAt = charges[c].createdAt
        /\ \A b \in ChargeIds : b # c => charges'[b] = charges[b]
    BY <1>2, <2>2 DEF RowsOK, Row
  <2>5. ~IsPast(c)
    <3>1. clock - clock <= AdoptionWindow
      BY ConstantsAssumption DEF RowsOK
    <3> QED BY <1>1, <2>2, <2>3, <3>1, ConstantsAssumption DEF IsPast, RowsOK
  <2>6. RowAdvances(c)
    BY <1>1, <1>2, <2>2, <2>3, <2>4, <2>5 DEF RowAdvances, RowInv, Pending
  <2>7. \A b \in ChargeIds : RowAdvances(b)
    BY <1>1, <1>2, <2>2, <2>4, <2>6, RowRests
  <2>8. ASSUME NEW q \in Requests PROVE PushesOwn(q)'
    <3>1. CASE q = p
      BY <2>2, <3>1 DEF PushesOwn, IdleRequest, RequestsOK
    <3>2. CASE q # p
      <4>1. request'[q] = request[q]
        BY <2>2, <3>2 DEF RequestsOK
      <4>2. request[q].pc = "push" => request[q].charge \in ChargeIds
        BY DEF RequestsOK
      <4> QED BY <1>2, <2>4, <4>1, <4>2 DEF PushesOwn, Unheld, Pending
    <3> QED BY <3>1, <3>2
  <2> QED BY <1>3, <2>7, <2>8
<1>8. CASE StoreRejection(p) /\ ~UNCHANGED charges
  <2>1. PICK c \in ChargeIds : c = request[p].charge
    BY <1>8 DEF StoreRejection, Refused, RequestsOK
  <2>2. /\ Pending(c) /\ request[p].pc = "rejected"
        /\ charges' = [charges EXCEPT ![c].status = "FAILED"]
        /\ request' = [request EXCEPT ![p] = IdleRequest] /\ mpesa' = mpesa
    BY <1>8, <2>1 DEF StoreRejection, Refused
  <2>3. mpesa[c] = "none" /\ charges[c].ref = NULL
    BY <1>1, <1>2, <2>1, <2>2 DEF RequestInv, RowInv
  <2>4. /\ charges'[c].ref = charges[c].ref
        /\ charges'[c].held = charges[c].held /\ charges'[c].createdAt = charges[c].createdAt
        /\ \A b \in ChargeIds : b # c => charges'[b] = charges[b]
    BY <1>2, <2>2 DEF RowsOK, Row
  <2>5. RowAdvances(c)
    BY <1>1, <1>2, <2>2, <2>3, <2>4 DEF RowAdvances, RowInv
  <2>6. \A b \in ChargeIds : RowAdvances(b)
    BY <1>1, <1>2, <2>2, <2>4, <2>5, RowRests
  <2>7. ASSUME NEW q \in Requests PROVE PushesOwn(q)'
    <3>1. CASE q = p
      BY <2>2, <3>1 DEF PushesOwn, IdleRequest, RequestsOK
    <3>2. CASE q # p
      <4>1. request'[q] = request[q]
        BY <2>2, <3>2 DEF RequestsOK
      <4>2. request[q].pc = "push" => request[q].charge \in ChargeIds /\ request[q].charge # c
        BY <1>1, <1>2, <2>1, <3>2 DEF RequestsOK, RequestInv
      <4> QED BY <1>2, <2>4, <4>1, <4>2 DEF PushesOwn, Unheld, Pending
    <3> QED BY <3>1, <3>2
  <2> QED BY <1>3, <2>6, <2>7
<1>9. \/ UNCHANGED <<charges, mpesa>>
      \/ Insert(p) /\ ~UNCHANGED charges
      \/ Push(p)
      \/ StoreAck(p) /\ ~UNCHANGED charges
      \/ StoreRejection(p) /\ ~UNCHANGED charges
  BY DEF RequestStep, LookUp, Insert, StoreAck, StoreRejection, EndRequest
<1> QED BY <1>4, <1>5, <1>6, <1>7, <1>8, <1>9

(* Outside the requests none is about to push, or its charge is left alone.*)
LEMMA AttributionGoesOn ==
    ASSUME TypeOK, CallbackInv, PushInv, AttributionInv,
           UNCHANGED <<request, clock>>,
           \A c \in ChargeIds : RowAdvances(c),
           \A c \in ChargeIds :
               \/ charges'[c].status = charges[c].status /\ charges'[c].held = charges[c].held
               \/ mpesa[c] # "none" \/ charges[c].createdAt # clock,
           \A r \in Passes : PassInv(r)',
           \A d \in Deliveries : DeliveryInv(d)'
    PROVE  AttributionInv'
<1>1. \A p \in Requests : PushesOwn(p)'
  BY RequestGoesOn DEF AttributionInv
<1>2. \A c \in ChargeIds : RowInv(c)'
  BY DEF RowAdvances
<1> QED BY <1>1, <1>2 DEF AttributionInv

LEMMA PassAttribution ==
    ASSUME TypeOK, CallbackInv, PushInv, AttributionInv, NEW r \in Passes, PassStep(r)
    PROVE  AttributionInv'
<1> USE DEF TypeOK
<1>1. UNCHANGED <<events, mpesa, request, delivery, clock>> /\ NULL \notin ChargeIds
  BY ConstantsAssumption DEF PassStep, StartPass, Examine, Query, ApplyAnswer, CrashPass
<1>2. /\ \A c \in ChargeIds : RowInv(c) /\ RowIsSane(c) /\ (WasHeld(c) => WasHeld(c)')
      /\ \A c \in ChargeIds : charges[c] \in Row
      /\ PassInv(r)
  BY <1>1 DEF AttributionInv, CallbackInv, WasHeld, RowsOK
<1>3. \A q \in Passes : q # r => pass'[q] = pass[q]
  BY DEF PassStep, StartPass, Examine, Query, ApplyAnswer, CrashPass, PassesOK
<1>4. ASSUME \A c \in ChargeIds : RowAdvances(c),
             \A c \in ChargeIds :
               \/ charges'[c].status = charges[c].status /\ charges'[c].held = charges[c].held
               \/ mpesa[c] # "none",
             PassInv(r)'
      PROVE  AttributionInv'
  <2>1. \A q \in Passes : PassInv(q)'
    BY <1>3, <1>4, PassGoesOn DEF AttributionInv
  <2>2. \A d \in Deliveries : DeliveryInv(d)'
    BY <1>1, <1>4, DeliveryGoesOn DEF AttributionInv
  <2> QED BY <1>1, <1>4, <2>1, <2>2, AttributionGoesOn
<1>5. ASSUME NEW c \in ChargeIds, charges' = Bump(c), UNCHANGED evidence
      PROVE  \A b \in ChargeIds :
                /\ RowAdvances(b)
                /\ charges'[b].status = charges[b].status /\ charges'[b].held = charges[b].held
                /\ charges'[b].ref = charges[b].ref
  <2>1. /\ \A b \in ChargeIds : b # c => charges'[b] = charges[b]
        /\ charges'[c].status = charges[c].status /\ charges'[c].held = charges[c].held
        /\ charges'[c].ref = charges[c].ref /\ charges'[c].createdAt = charges[c].createdAt
    BY <1>5 DEF Bump, RowsOK, Row
  <2>2. RowAdvances(c)
    BY <1>1, <1>2, <1>5, <2>1 DEF RowAdvances, RowInv, IsPast, Claims, Unheld, Pending
  <2>3. \A b \in ChargeIds : RowAdvances(b)
    BY <1>1, <1>2, <1>5, <2>1, <2>2, RowRests
  <2> QED BY <2>1, <2>3
<1>6. CASE StartPass(r) \/ Query(r) \/ CrashPass(r)
  <2>1. UNCHANGED <<charges, evidence>>
    BY <1>6 DEF StartPass, Query, CrashPass
  <2>2. \A c \in ChargeIds : RowAdvances(c)
    BY <1>1, <1>2, <2>1, RowRests
  <2>3. PassInv(r)'
    <3>1. CASE StartPass(r)
      <4>1. pass'[r].batch = {<<c, charges[c].ref>> : c \in Candidates} /\ pass'[r].pc = "next"
        BY <3>1 DEF StartPass, PassesOK, PassState
      <4> QED BY <2>1, <4>1 DEF PassInv
    <3>2. CASE Query(r)
      <4>1. PICK e \in pass[r].batch :
               /\ e[2] # NULL
               /\ mpesa[e[2]] \in {"success", "declined"}
               /\ pass' = [pass EXCEPT ![r] =
                      [pc |-> "apply", batch |-> @.batch \ {e}, charge |-> e[1],
                       answer |-> mpesa[e[2]]]]
        BY <3>2 DEF Query
      <4>2. PICK c \in ChargeIds : c = e[1]
        BY DEF PassesOK, PassState
      <4>3. /\ pass'[r].batch \subseteq pass[r].batch /\ pass'[r].charge = c
            /\ pass'[r].answer = mpesa[e[2]]
        BY <4>1, <4>2 DEF PassesOK
      <4>4. e[2] = c /\ charges[c].ref = c
        BY <1>2, <4>1, <4>2 DEF PassInv, RowInv
      <4> QED BY <1>1, <1>2, <2>1, <4>3, <4>4 DEF PassInv
    <3>3. CASE CrashPass(r)
      <4>1. pass'[r].batch = {} /\ pass'[r].pc = "idle"
        BY <3>3 DEF CrashPass, IdlePass, PassesOK
      <4> QED BY <4>1 DEF PassInv
    <3> QED BY <1>6, <3>1, <3>2, <3>3
  <2> QED BY <1>4, <2>1, <2>2, <2>3
<1>7. CASE Examine(r)
  <2>1. PICK e \in pass[r].batch :
           charges' = Bump(e[1]) /\ pass' = [pass EXCEPT ![r] = After(r, e)]
    BY <1>7 DEF Examine
  <2>2. PICK c \in ChargeIds : c = e[1]
    BY DEF PassesOK, PassState
  <2>3. UNCHANGED evidence /\ charges' = Bump(c)
    BY <1>7, <2>1, <2>2 DEF Examine
  <2>4. pass'[r].batch \subseteq pass[r].batch /\ pass'[r].pc # "apply"
    BY <2>1 DEF After, IdlePass, PassesOK
  <2>5. \A x \in pass[r].batch : x[1] \in ChargeIds
    BY DEF PassesOK, PassState
  <2>6. PassInv(r)'
    BY <1>2, <1>5, <2>3, <2>4, <2>5 DEF PassInv
  <2> QED BY <1>4, <1>5, <2>3, <2>6
<1>8. CASE ApplyAnswer(r)
  <2>1. PICK c \in ChargeIds : c = pass[r].charge
    BY <1>8 DEF ApplyAnswer, PassesOK
  <2>2. charges[c].ref = c /\ mpesa[c] = pass[r].answer /\ mpesa[c] \in {"success", "declined"}
    BY <1>2, <1>8, <2>1 DEF ApplyAnswer, PassInv, PassesOK, PassState
  <2>3. pass'[r].batch = pass[r].batch /\ pass'[r].pc # "apply"
    BY <1>8 DEF ApplyAnswer, IdlePass, PassesOK
  <2>4. \A x \in pass[r].batch : x[1] \in ChargeIds
    BY DEF PassesOK, PassState
  <2>5. CASE Unheld(c)
    <3> DEFINE final == IF pass[r].answer = "success" THEN "PAID" ELSE "FAILED"
    <3>1. /\ charges'[c].status = final /\ charges'[c].ref = charges[c].ref
          /\ charges'[c].held = charges[c].held /\ charges'[c].createdAt = charges[c].createdAt
          /\ \A b \in ChargeIds : b # c => charges'[b] = charges[b] /\ evidence'[b] = evidence[b]
          /\ evidence'[c] \in {evidence[c], "confirmed"}
      BY <1>8, <2>1, <2>5 DEF ApplyAnswer, RowsOK, Row
    <3>2. final = "FAILED" => mpesa[c] = "declined"
      BY <2>2
    <3>3. final \in {"PAID", "FAILED"}
      OBVIOUS
    <3> HIDE DEF final
    <3>4. RowAdvances(c)
      BY <1>1, <1>2, <2>2, <3>1, <3>2, <3>3 DEF RowAdvances, RowInv
    <3>5. \A b \in ChargeIds : RowAdvances(b)
      BY <1>1, <1>2, <3>1, <3>4, RowRests
    <3>6. \A b \in ChargeIds : charges'[b].ref = charges[b].ref
      BY <3>1
    <3>7. PassInv(r)'
      BY <1>2, <2>3, <2>4, <3>6 DEF PassInv
    <3>8. \A b \in ChargeIds :
             \/ charges'[b].status = charges[b].status /\ charges'[b].held = charges[b].held
             \/ mpesa[b] # "none"
      BY <2>2, <3>1
    <3> QED BY <1>4, <3>5, <3>7, <3>8
  <2>6. CASE ~Unheld(c)
    <3>1. charges' = Bump(c) /\ UNCHANGED evidence
      BY <1>8, <2>1, <2>6 DEF ApplyAnswer
    <3>2. PassInv(r)'
      BY <1>2, <1>5, <2>3, <2>4, <3>1 DEF PassInv
    <3> QED BY <1>4, <1>5, <3>1, <3>2
  <2> QED BY <2>5, <2>6
<1> QED BY <1>6, <1>7, <1>8 DEF PassStep

LEMMA OtherAttribution ==
    ASSUME TypeOK, CallbackInv, PushInv, AttributionInv, PurgesAreSafe',
           \/ \E c \in ChargeIds : Release(c)
           \/ \E age \in PurgeAges : PurgeAbandoned(age)
           \/ \E c \in ChargeIds : CustomerAnswers(c)
           \/ Tick
           \/ UNCHANGED vars
    PROVE  AttributionInv'
<1> USE DEF TypeOK
<1>1. UNCHANGED <<events, request, delivery, pass, evidence>> /\ NULL \notin ChargeIds
  BY ConstantsAssumption DEF Release, PurgeAbandoned, CustomerAnswers, Tick, vars
<1>2. /\ \A c \in ChargeIds : RowInv(c) /\ RowIsSane(c) /\ (WasHeld(c) => WasHeld(c)')
      /\ \A c \in ChargeIds : charges[c] \in Row
  BY <1>1 DEF AttributionInv, CallbackInv, WasHeld, RowsOK
<1>3. ASSUME clock' = clock, \A c \in ChargeIds : RowAdvances(c),
             \A c \in ChargeIds :
               \/ charges'[c].status = charges[c].status /\ charges'[c].held = charges[c].held
               \/ mpesa[c] # "none" \/ charges[c].createdAt # clock
      PROVE  AttributionInv'
  <2>1. \A q \in Passes : PassInv(q)'
    BY <1>1, <1>3, PassGoesOn DEF AttributionInv
  <2>2. \A d \in Deliveries : DeliveryInv(d)'
    BY <1>1, <1>3, DeliveryGoesOn DEF AttributionInv
  <2> QED BY <1>1, <1>3, <2>1, <2>2, AttributionGoesOn
<1>4. ASSUME NEW c \in ChargeIds, Release(c) PROVE AttributionInv'
  <2>1. /\ charges[c].held /\ Pending(c) /\ UNCHANGED <<mpesa, clock>>
        /\ charges'[c].status = charges[c].status /\ charges'[c].ref = charges[c].ref
        /\ charges'[c].held = FALSE /\ charges'[c].createdAt = charges[c].createdAt
        /\ \A b \in ChargeIds : b # c => charges'[b] = charges[b]
    BY <1>2, <1>4 DEF Release, RowsOK, Row
  <2>2. charges[c].ref = c /\ mpesa[c] # "none"
    BY <1>2, <2>1 DEF RowInv
  <2>3. RowAdvances(c)
    BY <1>1, <1>2, <2>1, <2>2 DEF RowAdvances, RowInv, IsPast, Claims, Pending
  <2>4. \A b \in ChargeIds : RowAdvances(b)
    BY <1>1, <1>2, <2>1, <2>3, RowRests
  <2> QED BY <1>3, <2>1, <2>2, <2>4
<1>5. ASSUME NEW age \in PurgeAges, PurgeAbandoned(age) PROVE AttributionInv'
  <2>1. UNCHANGED <<mpesa, clock>> /\ age \in Nat \ {0} /\ clock \in Nat
    BY <1>5, ConstantsAssumption DEF PurgeAbandoned, RowsOK
  <2> PICK purged \in SUBSET Abandoned(age) :
          charges' = [c \in ChargeIds |->
              IF c \in purged THEN [charges[c] EXCEPT !.status = "deleted"] ELSE charges[c]]
    BY <1>5 DEF PurgeAbandoned
  <2>2. \A c \in ChargeIds : c \notin purged => charges'[c] = charges[c]
    OBVIOUS
  <2>3. ASSUME NEW c \in ChargeIds, c \in purged
        PROVE  RowAdvances(c) /\ charges[c].createdAt # clock
    <3>1. /\ charges'[c].status = "deleted" /\ charges'[c].ref = charges[c].ref
          /\ charges'[c].held = charges[c].held /\ charges'[c].createdAt = charges[c].createdAt
      BY <1>2, <2>3 DEF Row
    <3>2. mpesa[c] = "none" /\ charges[c].ref = NULL /\ charges[c].createdAt # clock
      BY <1>2, <2>1, <2>3, <3>1 DEF PurgesAreSafe, Abandoned, Row
    <3> QED BY <1>1, <1>2, <2>1, <3>1, <3>2 DEF RowAdvances, RowInv
  <2>4. \A c \in ChargeIds : RowAdvances(c)
    BY <1>1, <1>2, <2>1, <2>2, <2>3, RowRests
  <2> QED BY <1>3, <2>1, <2>2, <2>3, <2>4
<1>6. ASSUME NEW c \in ChargeIds, CustomerAnswers(c) PROVE AttributionInv'
  <2>1. /\ UNCHANGED <<charges, clock>> /\ mpesa[c] = "processing"
        /\ mpesa'[c] \in {"success", "declined"}
        /\ \A b \in ChargeIds : b # c => mpesa'[b] = mpesa[b]
    BY <1>6 DEF CustomerAnswers, RowsOK
  <2>2. RowAdvances(c)
    BY <1>1, <1>2, <2>1 DEF RowAdvances, RowInv, IsPast, Claims, Unheld, Pending
  <2>3. \A b \in ChargeIds : RowAdvances(b)
    BY <1>1, <1>2, <2>1, <2>2, RowRests
  <2> QED BY <1>3, <2>1, <2>3
<1>7. CASE Tick
  <2>1. /\ UNCHANGED <<charges, mpesa>>
        /\ \A d \in Deliveries : delivery[d].pc = "idle"
        /\ \A p \in Requests : request[p].pc = "idle"
    BY <1>7 DEF Tick
  <2>2. \A c \in ChargeIds : RowAdvances(c)
    BY <1>1, <1>2, <2>1, RowRests
  <2>3. \A q \in Passes : PassInv(q)'
    BY <1>1, <2>2, PassGoesOn DEF AttributionInv
  <2>4. \A d \in Deliveries : DeliveryInv(d)'
    BY <1>1, <2>1 DEF CallbackInv, HoldsItsCallback, DeliveryInv
  <2>5. \A p \in Requests : PushesOwn(p)'
    BY <1>1, <2>1 DEF PushesOwn
  <2>6. \A c \in ChargeIds : RowInv(c)'
    BY <2>2 DEF RowAdvances
  <2> QED BY <2>3, <2>4, <2>5, <2>6 DEF AttributionInv
<1>8. CASE UNCHANGED vars
  <2>1. UNCHANGED <<charges, mpesa, clock>>
    BY <1>8 DEF vars
  <2>2. \A c \in ChargeIds : RowAdvances(c)
    BY <1>1, <1>2, <2>1, RowRests
  <2> QED BY <1>3, <2>1, <2>2
<1> QED BY <1>4, <1>5, <1>6, <1>7, <1>8

(* The charge a callback's transaction writes is the one whose push it is  *)
(* about: found by its reference, or adopted while it was the only one.    *)
LEMMA ClaimedIsOwn ==
    ASSUME TypeOK, CallbackInv, AttributionInv, NEW d \in Deliveries, Claimed(d)
    PROVE  LET c == delivery[d].charge IN
           /\ c \in ChargeIds /\ delivery[d].cb \in Callbacks /\ delivery[d].cb.ref = c
           /\ mpesa[c] # "none"
           /\ delivery[d].cb.kind = "declined" => mpesa[c] = "declined"
           /\ \/ delivery[d].adopt /\ Claims(c) /\ clock - charges[c].createdAt <= AdoptionWindow
              \/ ~delivery[d].adopt /\ charges[c].ref = c
<1>1. PICK c \in ChargeIds : c = delivery[d].charge
  BY DEF Claimed, TypeOK, DeliveriesOK
<1>2. PICK b \in ChargeIds : b = delivery[d].cb.ref
  BY DEF Claimed, TypeOK, DeliveriesOK, Callbacks
<1>3. /\ delivery[d].cb \in Callbacks /\ mpesa[b] # "none"
      /\ delivery[d].cb.kind = "declined" => mpesa[b] = "declined"
  BY <1>2 DEF Claimed, TypeOK, DeliveriesOK, AttributionInv, DeliveryInv
<1>4. RowInv(c) /\ RowIsSane(b) /\ NULL \notin ChargeIds
  BY ConstantsAssumption DEF AttributionInv, CallbackInv
<1>5. CASE delivery[d].adopt
  <2>1. /\ Claims(c) /\ RefIsFree(b, c)
        /\ c = b \/ charges[b].ref = b
        /\ clock - charges[c].createdAt <= AdoptionWindow
    BY <1>1, <1>2, <1>5 DEF Claimed, AttributionInv, DeliveryInv
  <2>2. c = b
    BY <1>4, <2>1 DEF RefIsFree, RowIsSane
  <2> QED BY <1>1, <1>2, <1>3, <1>5, <2>1, <2>2
<1>6. CASE ~delivery[d].adopt
  <2>1. charges[c].ref = b
    BY <1>1, <1>2, <1>6 DEF Claimed, CallbackInv, HoldsItsCallback
  <2> QED BY <1>1, <1>2, <1>3, <1>4, <1>6, <2>1 DEF RowInv
<1> QED BY <1>5, <1>6

(* What the events table already says of a hold is never overwritten.      *)
LEMMA HoldsAreKept ==
    ASSUME TypeOK, CallbackInv, NEW d \in Deliveries, DeliveryStep(d), NEW c \in ChargeIds, WasHeld(c)
    PROVE  WasHeld(c)'
<1> DEFINE x == [ref |-> c, kind |-> "wrong_amount"]
<1>1. x \in Callbacks /\ events[x] = "matched"
  BY DEF Callbacks, WasHeld
<1>2. UNCHANGED events \/ \E v : events' = [events EXCEPT ![delivery[d].cb] = v]
  BY DEF DeliveryStep, Receive, Ask, Record, Adopt, CommitUnclaimed, CommitHold, CommitRefused,
         CommitResolve, CrashDelivery
<1>3. ASSUME ~UNCHANGED events PROVE delivery[d].cb # x
  <2>1. Holds(d) \/ (Record(d) /\ ~Seen(delivery[d].cb))
    BY <1>3 DEF DeliveryStep, Receive, Ask, Record, Adopt, CommitUnclaimed, CommitHold, CommitRefused,
         CommitResolve, CrashDelivery, Claimed, Holds
  <2> QED BY <1>1, <2>1 DEF CallbackInv, HoldsItsCallback, Seen
<1> HIDE DEF x
<1>4. events'[x] = events[x]
  BY <1>1, <1>2, <1>3 DEF TypeOK, RowsOK
<1> QED BY <1>1, <1>4 DEF WasHeld, x

LEMMA DeliveryMovesOn ==
    ASSUME TypeOK, CallbackInv, PushInv, AttributionInv, NEW d \in Deliveries, NEW x,
           UNCHANGED <<mpesa, request, pass, clock>>,
           delivery' = [delivery EXCEPT ![d] = x],
           \A c \in ChargeIds : RowAdvances(c),
           \A c \in ChargeIds :
               \/ charges'[c].status = charges[c].status /\ charges'[c].held = charges[c].held
               \/ mpesa[c] # "none",
           DeliveryInv(d)'
    PROVE  AttributionInv'
<1>1. \A r \in Passes : PassInv(r)'
  BY PassGoesOn DEF AttributionInv
<1>2. ASSUME NEW e \in Deliveries PROVE DeliveryInv(e)'
  <2>1. CASE e = d
    BY <2>1
  <2>2. CASE e # d
    <3>1. delivery'[e] = delivery[e] /\ DeliveryInv(e)
      BY <2>2 DEF TypeOK, DeliveriesOK, AttributionInv
    <3> QED BY <3>1, DeliveryGoesOn
  <2> QED BY <2>1, <2>2
<1> QED BY <1>1, <1>2, AttributionGoesOn

(* A delivery that ends, without a word on the table.                      *)
LEMMA EndedDelivery ==
    ASSUME DeliveriesOK, NEW d \in Deliveries, delivery' = [delivery EXCEPT ![d] = IdleDelivery]
    PROVE  DeliveryInv(d)'
<1>1. delivery'[d].pc = "idle" /\ ~delivery'[d].adopt
  BY DEF DeliveriesOK, IdleDelivery
<1> QED BY <1>1 DEF DeliveryInv

(* A success callback that goes unasked is of a charge that it cannot move,*)
(* now or later, unless an operator releases the charge.                   *)
LEMMA NotAsked ==
    ASSUME TypeOK, CallbackInv, AttributionInv, NEW cb \in Callbacks, cb.kind = "paid",
           mpesa[cb.ref] # "none", ~CouldMove(cb)
    PROVE  WasHeld(cb.ref) \/ IsPast(cb.ref)
<1>1. PICK b \in ChargeIds : b = cb.ref
  BY DEF Callbacks
<1>2. RowInv(b) /\ RowIsSane(b) /\ NULL \notin ChargeIds
  BY ConstantsAssumption DEF AttributionInv, CallbackInv
<1>3. CASE charges[b].ref = b
  <2>1. ~Unheld(b)
    BY <1>1, <1>3 DEF CouldMove, HoldsReference
  <2>2. Exists(b)
    BY <1>2, <1>3 DEF RowIsSane
  <2> QED BY <1>1, <1>2, <1>3, <2>1, <2>2 DEF RowInv, IsPast, Unheld, Pending, Exists
<1>4. CASE charges[b].ref # b
  <2>1. Unheld(b) /\ charges[b].ref = NULL
    BY <1>1, <1>2, <1>4 DEF RowInv
  <2>2. ~(clock - charges[b].createdAt <= AdoptionWindow)
    BY <1>1, <2>1 DEF CouldMove, Adoptable
  <2>3. clock - charges[b].createdAt > AdoptionWindow
    BY <2>2, ConstantsAssumption DEF TypeOK, RowsOK, Row
  <2> QED BY <1>1, <2>1, <2>3 DEF IsPast, Claims, Unheld
<1> QED BY <1>3, <1>4

(* The only candidate of a punctual callback is the charge it is about.    *)
LEMMA AdoptsOwn ==
    ASSUME TypeOK, CallbackInv, AttributionInv, Punctual, NEW cb \in Callbacks,
           mpesa[cb.ref] # "none", NEW c \in TheOnly(Adoptable(cb))
    PROVE  /\ c \in ChargeIds
           /\ c = cb.ref \/ charges[cb.ref].ref = cb.ref
           /\ clock - charges[c].createdAt <= AdoptionWindow
<1>1. PICK b \in ChargeIds : b = cb.ref
  BY DEF Callbacks
<1>2. RowInv(b)
  BY DEF AttributionInv
<1>3. /\ c \in ChargeIds /\ cb.kind = "paid" /\ Unheld(c) /\ charges[c].ref = NULL
      /\ Customer[charges[c].sale] = Customer[charges[b].sale]
      /\ clock - charges[c].createdAt <= AdoptionWindow
      /\ Adoptable(cb) = {c}
  BY <1>1 DEF TheOnly, Adoptable
<1>4. ASSUME charges[b].ref # b, c # b PROVE FALSE
  <2>1. Unheld(b) /\ charges[b].ref = NULL
    BY <1>1, <1>2, <1>4 DEF RowInv
  <2>2. clock - charges[b].createdAt <= AdoptionWindow
    BY <1>1, <1>3, <1>4, <2>1 DEF Punctual, Claims, Unheld
  <2>3. b \in Adoptable(cb)
    BY <1>1, <1>3, <2>1, <2>2 DEF Adoptable
  <2> QED BY <1>3, <1>4, <2>3
<1> QED BY <1>1, <1>3, <1>4

LEMMA DeliveryAttribution ==
    ASSUME TypeOK, CallbackInv, PushInv, AttributionInv, Punctual,
           NEW d \in Deliveries, DeliveryStep(d)
    PROVE  AttributionInv'
<1> USE DEF TypeOK
<1>1. UNCHANGED <<mpesa, request, pass, clock>> /\ NULL \notin ChargeIds
  BY ConstantsAssumption DEF DeliveryStep, Receive, Ask, Record, Adopt, CommitUnclaimed, CommitHold,
      CommitRefused, CommitResolve, CrashDelivery
<1>2. /\ \A c \in ChargeIds : RowInv(c) /\ RowIsSane(c) /\ (WasHeld(c) => WasHeld(c)')
      /\ \A c \in ChargeIds : charges[c] \in Row
      /\ DeliveryInv(d) /\ HoldsItsCallback(d) /\ delivery[d] \in DeliveryState
  BY HoldsAreKept DEF AttributionInv, CallbackInv, RowsOK, DeliveriesOK
<1>3. ASSUME UNCHANGED <<charges, evidence>>, NEW x, delivery' = [delivery EXCEPT ![d] = x],
             DeliveryInv(d)'
      PROVE  AttributionInv'
  <2>1. \A c \in ChargeIds : RowAdvances(c)
    BY <1>1, <1>2, <1>3, RowRests
  <2> QED BY <1>1, <1>3, <2>1, DeliveryMovesOn
<1>4. ASSUME UNCHANGED <<charges, evidence>>, delivery' = [delivery EXCEPT ![d] = IdleDelivery]
      PROVE  AttributionInv'
  <2>1. DeliveryInv(d)'
    BY <1>4, EndedDelivery
  <2> QED BY <1>3, <1>4, <2>1
<1>5. ASSUME NEW cb \in Callbacks, Receive(d, cb) PROVE AttributionInv'
  <2>1. PICK x : /\ delivery' = [delivery EXCEPT ![d] = x]
                 /\ x.cb = cb /\ ~x.adopt /\ x.pc \in {"ask", "record"}
                 /\ x.pc = "record" /\ Confirm /\ cb.kind = "paid" => ~CouldMove(cb)
    <3>1. PICK pc \in {"ask", "record"}, v \in Verdicts :
             /\ delivery' = [delivery EXCEPT ![d] =
                    [IdleDelivery EXCEPT !.cb = cb, !.pc = pc, !.verdict = v]]
             /\ pc = "record" /\ Confirm /\ cb.kind = "paid" => ~CouldMove(cb)
      BY <1>5 DEF Receive, Verdicts
    <3> DEFINE x == [IdleDelivery EXCEPT !.cb = cb, !.pc = pc, !.verdict = v]
    <3>2. x.cb = cb /\ ~x.adopt /\ x.pc = pc
      BY DEF IdleDelivery
    <3> HIDE DEF x
    <3> QED BY <3>1, <3>2 DEF x
  <2>2. UNCHANGED <<charges, events, evidence>>
    BY <1>5 DEF Receive
  <2>3. delivery'[d] = x
    BY <2>1 DEF DeliveriesOK
  <2>4. mpesa[cb.ref] # "none" /\ (cb.kind = "declined" => mpesa[cb.ref] = "declined")
    BY <1>5 DEF Receive, CanArrive
  <2>5. x.pc = "record" /\ Confirm /\ cb.kind = "paid" => WasHeld(cb.ref) \/ IsPast(cb.ref)
    BY <2>1, <2>4, NotAsked
  <2>6. DeliveryInv(d)'
    BY <1>1, <2>1, <2>2, <2>3, <2>4, <2>5 DEF DeliveryInv, WasHeld, IsPast, Claims, Pending
  <2> QED BY <1>3, <2>1, <2>2, <2>6
<1>6. CASE Ask(d)
  <2>1. UNCHANGED <<charges, events, evidence>> /\ delivery[d].pc = "ask"
    BY <1>6 DEF Ask
  <2>2. PICK v : /\ delivery' = [delivery EXCEPT ![d].verdict = v, ![d].pc = "record"]
                 /\ v \in Refusals \cup {"confirmed"}
    BY <1>6 DEF Ask, VerdictsOn, Refusals
  <2> DEFINE x == [delivery[d] EXCEPT !.verdict = v, !.pc = "record"]
  <2>3. /\ delivery' = [delivery EXCEPT ![d] = x] /\ delivery'[d] = x
        /\ x.pc = "record" /\ x.adopt = delivery[d].adopt /\ x.cb = delivery[d].cb
        /\ x.verdict = v
    BY <1>2, <2>2 DEF DeliveriesOK, DeliveryState
  <2> HIDE DEF x
  <2>4. ~delivery[d].adopt
    BY <1>2, <2>1 DEF HoldsItsCallback
  <2>5. DeliveryInv(d)'
    BY <1>1, <1>2, <2>1, <2>2, <2>3, <2>4 DEF DeliveryInv
  <2> QED BY <1>3, <2>1, <2>3, <2>5
<1>7. CASE Record(d) /\ delivery' # [delivery EXCEPT ![d] = IdleDelivery]
  <2>1. /\ UNCHANGED <<charges, events, evidence>> /\ delivery[d].pc = "record"
        /\ \/ delivery' = [delivery EXCEPT ![d].pc = "adopt"]
           \/ \E c \in ChargeIds :
                 delivery' = [delivery EXCEPT ![d].pc = "commit", ![d].charge = c,
                                             ![d].sawHold = charges[c].held]
    BY <1>7 DEF Record
  <2>2. ~delivery[d].adopt
    BY <1>2, <2>1 DEF HoldsItsCallback
  <2>3. PICK x : /\ delivery' = [delivery EXCEPT ![d] = x]
                 /\ x.pc \in {"adopt", "commit"} /\ ~x.adopt
                 /\ x.cb = delivery[d].cb /\ x.verdict = delivery[d].verdict
    <3>1. CASE delivery' = [delivery EXCEPT ![d].pc = "adopt"]
      <4> DEFINE x == [delivery[d] EXCEPT !.pc = "adopt"]
      <4>1. /\ delivery' = [delivery EXCEPT ![d] = x] /\ x.pc = "adopt"
            /\ ~x.adopt
            /\ x.cb = delivery[d].cb /\ x.verdict = delivery[d].verdict
        BY <1>2, <2>2, <3>1 DEF DeliveriesOK, DeliveryState
      <4> QED BY <4>1
    <3>2. ASSUME NEW c \in ChargeIds,
                 delivery' = [delivery EXCEPT ![d].pc = "commit", ![d].charge = c,
                                             ![d].sawHold = charges[c].held]
          PROVE  \E x : /\ delivery' = [delivery EXCEPT ![d] = x]
                        /\ x.pc \in {"adopt", "commit"} /\ ~x.adopt
                        /\ x.cb = delivery[d].cb /\ x.verdict = delivery[d].verdict
      <4> DEFINE x == [delivery[d] EXCEPT !.pc = "commit", !.charge = c,
                                          !.sawHold = charges[c].held]
      <4>1. /\ delivery' = [delivery EXCEPT ![d] = x] /\ x.pc = "commit"
            /\ ~x.adopt
            /\ x.cb = delivery[d].cb /\ x.verdict = delivery[d].verdict
        BY <1>2, <2>2, <3>2 DEF DeliveriesOK, DeliveryState
      <4> QED BY <4>1
    <3> QED BY <2>1, <3>1, <3>2
  <2>4. delivery'[d] = x
    BY <2>3 DEF DeliveriesOK
  <2>5. PICK cb \in Callbacks : cb = delivery[d].cb
    BY <2>1 DEF DeliveriesOK
  <2>6. mpesa[cb.ref] # "none" /\ (cb.kind = "declined" => mpesa[cb.ref] = "declined")
    BY <1>2, <2>1, <2>5 DEF DeliveryInv
  <2>7. Confirm /\ cb.kind = "paid" =>
           x.verdict \in Refusals \cup {"confirmed"} \/ WasHeld(cb.ref) \/ IsPast(cb.ref)
    BY <1>2, <2>1, <2>3, <2>5 DEF DeliveryInv
  <2>8. DeliveryInv(d)'
    BY <1>1, <2>1, <2>3, <2>4, <2>2, <2>5, <2>6, <2>7 DEF DeliveryInv, WasHeld, IsPast, Claims, Pending
  <2> QED BY <1>3, <2>1, <2>3, <2>8
<1>8. CASE Adopt(d) /\ delivery' # [delivery EXCEPT ![d] = IdleDelivery]
  <2>1. UNCHANGED <<charges, events, evidence>> /\ delivery[d].pc = "adopt"
    BY <1>8 DEF Adopt
  <2>2. PICK c \in TheOnly(Adoptable(delivery[d].cb)) :
           delivery' = [delivery EXCEPT ![d].pc = "commit", ![d].charge = c, ![d].adopt = TRUE]
    BY <1>8 DEF Adopt
  <2> DEFINE x == [delivery[d] EXCEPT !.pc = "commit", !.charge = c, !.adopt = TRUE]
  <2>3. /\ delivery' = [delivery EXCEPT ![d] = x] /\ delivery'[d] = x
        /\ x.pc = "commit" /\ x.adopt /\ x.cb = delivery[d].cb
        /\ x.verdict = delivery[d].verdict /\ x.charge = c
    BY <1>2, <2>2 DEF DeliveriesOK, DeliveryState
  <2> HIDE DEF x
  <2>4. PICK cb \in Callbacks : cb = delivery[d].cb
    BY <2>1 DEF DeliveriesOK
  <2>5. mpesa[cb.ref] # "none" /\ (cb.kind = "declined" => mpesa[cb.ref] = "declined")
    BY <1>2, <2>1, <2>4 DEF DeliveryInv
  <2>6. /\ c \in ChargeIds
        /\ c = cb.ref \/ charges[cb.ref].ref = cb.ref
        /\ clock - charges[c].createdAt <= AdoptionWindow
    BY <2>4, <2>5, AdoptsOwn
  <2>7. Confirm /\ cb.kind = "paid" =>
           x.verdict \in Refusals \cup {"confirmed"} \/ WasHeld(cb.ref) \/ IsPast(cb.ref)
    BY <1>2, <2>1, <2>3, <2>4 DEF DeliveryInv
  <2>8. DeliveryInv(d)'
    BY <1>1, <2>1, <2>3, <2>4, <2>5, <2>6, <2>7 DEF DeliveryInv, WasHeld, IsPast, Claims, Pending
  <2> QED BY <1>3, <2>1, <2>3, <2>8
<1>9. ASSUME Claimed(d), delivery' = [delivery EXCEPT ![d] = IdleDelivery],
             NEW c \in ChargeIds, c = delivery[d].charge, RowAdvances(c),
             \A b \in ChargeIds : b # c => charges'[b] = charges[b] /\ evidence'[b] = evidence[b]
      PROVE  AttributionInv'
  <2>1. \A b \in ChargeIds : RowAdvances(b)
    BY <1>1, <1>2, <1>9, RowRests
  <2>2. mpesa[c] # "none"
    BY <1>9, ClaimedIsOwn
  <2>3. \A b \in ChargeIds :
           \/ charges'[b].status = charges[b].status /\ charges'[b].held = charges[b].held
           \/ mpesa[b] # "none"
    BY <1>9, <2>2
  <2>4. DeliveryInv(d)'
    BY <1>9, EndedDelivery
  <2> QED BY <1>1, <1>9, <2>1, <2>3, <2>4, DeliveryMovesOn
<1>10. CASE CommitHold(d)
  <2>1. PICK c \in ChargeIds : c = delivery[d].charge
    BY <1>10 DEF CommitHold, Claimed, DeliveriesOK
  <2>2. /\ Claimed(d) /\ delivery[d].cb.kind = "wrong_amount"
        /\ delivery' = [delivery EXCEPT ![d] = IdleDelivery] /\ evidence' = evidence
        /\ events' = [events EXCEPT ![delivery[d].cb] = "matched"]
    BY <1>10 DEF CommitHold
  <2>3. /\ charges[c].ref = c /\ mpesa[c] # "none"
        /\ delivery[d].cb \in Callbacks /\ delivery[d].cb.ref = c
    BY <1>2, <2>1, <2>2, ClaimedIsOwn DEF HoldsItsCallback
  <2>4. WasHeld(c)'
    <3>1. delivery[d].cb = [ref |-> c, kind |-> "wrong_amount"]
      BY <2>2, <2>3 DEF Callbacks
    <3>2. events'[delivery[d].cb] = "matched"
      BY <2>2, <2>3 DEF RowsOK
    <3> QED BY <3>1, <3>2 DEF WasHeld
  <2>5. /\ charges'[c].status = charges[c].status /\ charges'[c].ref = charges[c].ref
        /\ charges'[c].createdAt = charges[c].createdAt
        /\ \A b \in ChargeIds : b # c => charges'[b] = charges[b]
    BY <1>2, <1>10, <2>1 DEF CommitHold, RowsOK, Row
  <2>6. RowAdvances(c)
    BY <1>1, <1>2, <2>2, <2>3, <2>4, <2>5 DEF RowAdvances, RowInv, IsPast, Claims, Pending
  <2> QED BY <1>9, <2>1, <2>2, <2>5, <2>6
<1>11. ASSUME NEW c \in ChargeIds, c = delivery[d].charge, Claimed(d), UNCHANGED evidence,
              delivery' = [delivery EXCEPT ![d] = IdleDelivery],
              charges' = [charges EXCEPT ![c].ref = c]
       PROVE  AttributionInv'
  <2>1. /\ mpesa[c] # "none"
        /\ \/ Claims(c) /\ clock - charges[c].createdAt <= AdoptionWindow
           \/ charges[c].ref = c
    BY <1>11, ClaimedIsOwn
  <2>2. /\ charges'[c].status = charges[c].status /\ charges'[c].ref = c
        /\ charges'[c].createdAt = charges[c].createdAt /\ charges'[c].held = charges[c].held
        /\ \A b \in ChargeIds : b # c => charges'[b] = charges[b]
    BY <1>2, <1>11 DEF RowsOK, Row
  <2>3. IsPast(c) => charges[c].ref = c /\ charges[c].status \in {"PAID", "FAILED"}
    BY <1>1, <1>2, <2>1, ConstantsAssumption DEF IsPast, Claims, RowsOK, Row
  <2>4. RowAdvances(c)
    BY <1>1, <1>2, <1>11, <2>1, <2>2, <2>3 DEF RowAdvances, RowInv, Claims, Pending
  <2> QED BY <1>9, <1>11, <2>2, <2>4
<1>12. CASE CommitRefused(d)
  <2>1. PICK c \in ChargeIds : c = delivery[d].charge
    BY <1>12 DEF CommitRefused, Claimed, DeliveriesOK
  <2>2. /\ Claimed(d) /\ evidence' = evidence
        /\ delivery' = [delivery EXCEPT ![d] = IdleDelivery]
        /\ charges' = IF delivery[d].adopt
                      THEN [charges EXCEPT ![c].ref = delivery[d].cb.ref] ELSE charges
    BY <1>12, <2>1 DEF CommitRefused
  <2>3. delivery[d].cb.ref = c
    BY <2>1, <2>2, ClaimedIsOwn
  <2> QED BY <1>4, <1>11, <2>1, <2>2, <2>3
<1>13. CASE CommitResolve(d)
  <2>1. PICK c \in ChargeIds : c = delivery[d].charge
    BY <1>13 DEF CommitResolve, Claimed, DeliveriesOK
  <2> DEFINE cb == delivery[d].cb
             r == IF delivery[d].adopt THEN cb.ref ELSE charges[c].ref
             final == IF cb.kind = "paid" THEN "PAID" ELSE "FAILED"
  <2>2. /\ Claimed(d) /\ delivery' = [delivery EXCEPT ![d] = IdleDelivery]
        /\ cb.kind = "declined" \/ (cb.kind = "paid" /\ delivery[d].verdict \notin Refusals)
    BY <1>13 DEF CommitResolve
  <2>3. /\ cb.ref = c /\ mpesa[c] # "none"
        /\ cb.kind = "declined" => mpesa[c] = "declined"
        /\ \/ delivery[d].adopt /\ Claims(c) /\ clock - charges[c].createdAt <= AdoptionWindow
           \/ ~delivery[d].adopt /\ charges[c].ref = c
    BY <2>1, <2>2, ClaimedIsOwn
  <2>4. r = c
    BY <2>3
  <2>5. CASE Unheld(c) /\ ~delivery[d].sawHold
    <3>1. charges' = [charges EXCEPT ![c].ref = r, ![c].resolvedBy = "callback",
                                     ![c].status = final]
      BY <1>13, <2>1, <2>5 DEF CommitResolve, Resolve
    <3>2. /\ charges'[c].ref = c /\ charges'[c].status = final
          /\ charges'[c].held = charges[c].held /\ charges'[c].createdAt = charges[c].createdAt
          /\ \A b \in ChargeIds : b # c => charges'[b] = charges[b]
      BY <1>2, <2>4, <3>1 DEF RowsOK, Row
    <3>3. /\ \A b \in ChargeIds : b # c => evidence'[b] = evidence[b]
          /\ \/ evidence'[c] = evidence[c]
             \/ cb.kind = "paid" /\ evidence'[c] = delivery[d].verdict
      BY <1>13, <2>1 DEF CommitResolve, RowsOK
    <3>4. final = "FAILED" => mpesa[c] = "declined"
      BY <2>2, <2>3
    <3>5. final \in {"PAID", "FAILED"}
      OBVIOUS
    <3>6. Confirm /\ cb.kind = "paid" => delivery[d].verdict = "confirmed" \/ WasHeld(c)
      <4>1. ~IsPast(c)
        BY <1>1, <1>2, <2>3, <2>5, ConstantsAssumption DEF IsPast, Claims, Unheld, Pending, RowsOK, Row
      <4>2. delivery[d].pc = "commit"
        BY <2>2 DEF Claimed
      <4> QED BY <1>2, <2>2, <2>3, <4>1, <4>2 DEF DeliveryInv
    <3> HIDE DEF final, cb
    <3>7. RowInv(c)'
      BY <1>1, <1>2, <2>3, <3>2, <3>3, <3>4, <3>6 DEF RowInv
    <3>8. RowAdvances(c)
      BY <1>1, <1>2, <2>3, <3>2, <3>5, <3>7 DEF RowAdvances, Claims
    <3> QED BY <1>9, <2>1, <2>2, <3>2, <3>3, <3>8
  <2>6. CASE ~(Unheld(c) /\ ~delivery[d].sawHold)
    <3>1. charges' = [charges EXCEPT ![c].ref = r] /\ UNCHANGED evidence
      BY <1>13, <2>1, <2>6 DEF CommitResolve, Resolve
    <3> QED BY <1>11, <2>1, <2>2, <2>4, <3>1
  <2> QED BY <2>5, <2>6
<1>14. CASE CommitUnclaimed(d) \/ CrashDelivery(d)
  BY <1>4, <1>14 DEF CommitUnclaimed, CrashDelivery
<1>15. CASE Record(d) \/ Adopt(d)
  BY <1>4, <1>7, <1>8, <1>15 DEF Record, Adopt
<1> QED BY <1>5, <1>6, <1>10, <1>12, <1>13, <1>14, <1>15 DEF DeliveryStep

LEMMA InitAttribution == Init => AttributionInv
<1> SUFFICES ASSUME Init PROVE AttributionInv
  OBVIOUS
<1>1. \A c \in ChargeIds : RowInv(c)
  BY ConstantsAssumption DEF Init, NoRow, RowInv
<1>2. \A p \in Requests : PushesOwn(p)
  BY DEF Init, IdleRequest, PushesOwn
<1>3. \A r \in Passes : PassInv(r)
  BY DEF Init, IdlePass, PassInv
<1>4. \A d \in Deliveries : DeliveryInv(d)
  BY DEF Init, IdleDelivery, DeliveryInv
<1> QED BY <1>1, <1>2, <1>3, <1>4 DEF AttributionInv

LEMMA NextAttribution ==
    TypeOK /\ CallbackInv /\ PushInv /\ AttributionInv /\ Punctual /\ PurgesAreSafe' /\ [Next]_vars
        => AttributionInv'
BY RequestAttribution, DeliveryAttribution, PassAttribution, OtherAttribution DEF Next

THEOREM AttributionInvariant == Spec /\ []PurgesAreSafe /\ []Punctual => []AttributionInv
BY InitAttribution, NextAttribution, CallbackInvariant, PushInvariant, PTL DEF Spec

(* "Guessing here would credit the wrong sale": a reference is only ever   *)
(* stored with the charge whose push it is, by ack or by adoption.         *)
THEOREM AttributedRight == Spec /\ []PurgesAreSafe /\ []Punctual => []AttributionCorrect
<1>1. AttributionInv => AttributionCorrect
  BY DEF AttributionInv, RowInv, AttributionCorrect
<1> QED BY <1>1, AttributionInvariant, PTL

(* I5: a FAILED charge was declined by the customer or refused by Daraja.  *)
THEOREM FailedRight == Spec /\ []PurgesAreSafe /\ []Punctual => []FailedIsDefinite
<1>1. TypeOK /\ AttributionInv => FailedIsDefinite
  BY ConstantsAssumption
     DEF TypeOK, RowsOK, AttributionInv, RowInv, FailedIsDefinite, Unheld, Pending
<1> QED BY <1>1, AttributionInvariant, TypeCorrect, PTL

(* A charge paid without Daraja's word was on hold, and released.          *)
THEOREM PaidOnWord == Spec /\ []PurgesAreSafe /\ []Punctual => []UnconfirmedOnlyAfterHold
<1>1. AttributionInv => UnconfirmedOnlyAfterHold
  BY DEF AttributionInv, RowInv, WasHeld, UnconfirmedOnlyAfterHold
<1> QED BY <1>1, AttributionInvariant, PTL

(* Where no callback reports an amount of its own, no charge is ever held. *)
NoneIsHeld ==
    /\ \A d \in Deliveries : delivery[d].pc # "idle" => delivery[d].cb.kind # "wrong_amount"
    /\ \A c \in ChargeIds : events[[ref |-> c, kind |-> "wrong_amount"]] = "absent"

LEMMA NextHoldsNone ==
    ASSUME TypeOK, NoneIsHeld, "wrong_amount" \notin Anomalies, [Next]_vars
    PROVE  NoneIsHeld'
<1> USE DEF TypeOK
<1>1. CASE UNCHANGED <<events, delivery>>
  BY <1>1 DEF NoneIsHeld
<1>2. ASSUME NEW d \in Deliveries, DeliveryStep(d) PROVE NoneIsHeld'
  <2>1. /\ delivery[d] \in DeliveryState
        /\ \A e \in Deliveries : e # d => delivery'[e] = delivery[e]
    BY <1>2 DEF DeliveriesOK, DeliveryStep, Receive, Ask, Record, Adopt, CommitUnclaimed, CommitHold,
           CommitRefused, CommitResolve, CrashDelivery
  <2>2. \/ UNCHANGED events
        \/ /\ delivery[d].pc # "idle"
           /\ \E v : events' = [events EXCEPT ![delivery[d].cb] = v]
    BY <1>2 DEF DeliveryStep, Receive, Ask, Record, Adopt, CommitUnclaimed, CommitHold,
           CommitRefused, CommitResolve, CrashDelivery, Claimed
  <2>3. \A c \in ChargeIds : [ref |-> c, kind |-> "wrong_amount"] \in Callbacks
    BY DEF Callbacks
  <2>4. ASSUME NEW c \in ChargeIds
        PROVE  events'[[ref |-> c, kind |-> "wrong_amount"]] = "absent"
    <3> DEFINE x == [ref |-> c, kind |-> "wrong_amount"]
    <3>1. x \in Callbacks /\ events[x] = "absent" /\ x.kind = "wrong_amount"
      BY <2>3 DEF NoneIsHeld
    <3> HIDE DEF x
    <3>2. UNCHANGED events \/ delivery[d].cb # x
      BY <2>2, <3>1 DEF NoneIsHeld
    <3>3. events'[x] = events[x]
      BY <2>2, <3>1, <3>2 DEF RowsOK
    <3> QED BY <3>1, <3>3 DEF x
  <2>5. CASE \E cb \in Callbacks : Receive(d, cb)
    <3>1. PICK cb \in Callbacks : Receive(d, cb)
      BY <2>5
    <3>2. PICK pc \in {"ask", "record"}, v \in Verdicts :
             delivery' = [delivery EXCEPT ![d] =
                 [IdleDelivery EXCEPT !.cb = cb, !.pc = pc, !.verdict = v]]
      BY <3>1 DEF Receive, Verdicts
    <3>3. delivery'[d].cb = cb
      BY <3>2 DEF DeliveriesOK, IdleDelivery
    <3>4. cb.kind # "wrong_amount"
      BY <3>1 DEF Receive, CanArrive
    <3> QED BY <2>1, <2>4, <3>3, <3>4 DEF NoneIsHeld
  <2>6. CASE ~\E cb \in Callbacks : Receive(d, cb)
    <3>1. delivery[d].pc # "idle"
      BY <1>2, <2>6 DEF DeliveryStep, Ask, Record, Adopt, CommitUnclaimed, CommitHold, CommitRefused,
             CommitResolve, CrashDelivery, Claimed
    <3>2. delivery'[d].pc = "idle" \/ delivery'[d].cb = delivery[d].cb
      <4>1. CASE delivery' = [delivery EXCEPT ![d] = IdleDelivery]
        BY <4>1 DEF DeliveriesOK, IdleDelivery
      <4>2. CASE Ask(d)
        BY <2>1, <4>2 DEF Ask, DeliveriesOK, DeliveryState
      <4>3. CASE Record(d) /\ delivery' # [delivery EXCEPT ![d] = IdleDelivery]
        <5>1. \/ delivery' = [delivery EXCEPT ![d].pc = "adopt"]
              \/ \E c \in ChargeIds :
                    delivery' = [delivery EXCEPT ![d].pc = "commit", ![d].charge = c,
                                                ![d].sawHold = charges[c].held]
          BY <4>3 DEF Record
        <5>2. CASE delivery' = [delivery EXCEPT ![d].pc = "adopt"]
          BY <2>1, <5>2 DEF DeliveriesOK, DeliveryState
        <5>3. ASSUME NEW c \in ChargeIds, NEW h,
                     delivery' = [delivery EXCEPT ![d].pc = "commit", ![d].charge = c,
                                                 ![d].sawHold = h]
              PROVE  delivery'[d].cb = delivery[d].cb
          BY <2>1, <5>3 DEF DeliveriesOK, DeliveryState
        <5> QED BY <5>1, <5>2, <5>3
      <4>4. CASE Adopt(d) /\ delivery' # [delivery EXCEPT ![d] = IdleDelivery]
        <5>1. \E c \in ChargeIds :
                 delivery' = [delivery EXCEPT ![d].pc = "commit", ![d].charge = c, ![d].adopt = TRUE]
          BY <4>4 DEF Adopt, TheOnly, Adoptable
        <5> QED BY <2>1, <5>1 DEF DeliveriesOK, DeliveryState
      <4> QED BY <1>2, <2>6, <4>1, <4>2, <4>3, <4>4
              DEF DeliveryStep, CommitUnclaimed, CommitHold, CommitRefused, CommitResolve, CrashDelivery
    <3> QED BY <2>1, <2>4, <3>1, <3>2 DEF NoneIsHeld
  <2> QED BY <2>5, <2>6
<1>3. UNCHANGED <<events, delivery>> \/ \E d \in Deliveries : DeliveryStep(d)
  BY DEF Next, RequestStep, LookUp, Insert, Push, StoreAck, StoreRejection, EndRequest,
         PassStep, StartPass, Examine, Query, ApplyAnswer, CrashPass, Release, PurgeAbandoned,
         CustomerAnswers, Tick, vars
<1> QED BY <1>1, <1>2, <1>3

(* "Before any PAID transition we ask Daraja directly": with confirmation  *)
(* on, and amounts that are ours, no charge is paid on less than its word. *)
THEOREM ConfirmedRight ==
    ASSUME "wrong_amount" \notin Anomalies
    PROVE  Spec /\ []PurgesAreSafe /\ []Punctual => []ConfirmedBeforePaid
<1>1. Init => NoneIsHeld
  BY DEF Init, IdleDelivery, NoneIsHeld, Callbacks
<1>2. TypeOK /\ NoneIsHeld /\ [Next]_vars => NoneIsHeld'
  BY NextHoldsNone
<1>3. AttributionInv /\ NoneIsHeld => ConfirmedBeforePaid
  BY DEF AttributionInv, RowInv, WasHeld, NoneIsHeld, ConfirmedBeforePaid
<1> QED BY <1>1, <1>2, <1>3, AttributionInvariant, TypeCorrect, PTL DEF Spec

(* Both premises hold of a service that is never purged and whose customers*)
(* are told apart, each by a number or an amount of its own; or that is    *)
(* watched for no longer than the adoption window.                         *)
Apart ==
    \/ \A s, t \in Sales : Customer[s] = Customer[t] => s = t
    \/ MaxClock <= AdoptionWindow

LEMMA PremisesHold ==
    ASSUME PurgeAges = {}, Apart
    PROVE  Spec => []PurgesAreSafe /\ []Punctual
<1> DEFINE NoneDeleted == \A c \in ChargeIds : charges[c].status # "deleted"
<1>1. Init => NoneDeleted
  BY DEF Init, NoRow
<1>2. TypeOK /\ NoneDeleted /\ [Next]_vars => NoneDeleted'
  <2> SUFFICES ASSUME TypeOK, NoneDeleted, [Next]_vars PROVE NoneDeleted'
    OBVIOUS
  <2>1. StepShape
    BY NextShape
  <2> QED BY <2>1 DEF StepShape, Others, Keeps, Opens, Settles, Fails
<1>3. NoneDeleted => PurgesAreSafe
  BY DEF PurgesAreSafe
<1>4. TypeOK /\ LedgerInv => Punctual
  <2> SUFFICES ASSUME TypeOK, LedgerInv, NEW c \in ChargeIds, NEW e \in ChargeIds,
                      c # e, Claims(c), Claims(e),
                      Customer[charges[c].sale] = Customer[charges[e].sale]
               PROVE  clock - charges[c].createdAt <= AdoptionWindow
    BY DEF Punctual
  <2>1. CASE \A s, t \in Sales : Customer[s] = Customer[t] => s = t
    BY <2>1 DEF LedgerInv, OneChargePerSale, Claims, Pending, Exists
  <2>2. CASE MaxClock <= AdoptionWindow
    <3>1. charges[c].createdAt \in Nat /\ clock \in 0..MaxClock
      BY DEF TypeOK, RowsOK, Row
    <3> QED BY <2>2, <3>1, ConstantsAssumption
  <2> QED BY <2>1, <2>2 DEF Apart
<1> HIDE DEF NoneDeleted
<1> QED BY <1>1, <1>2, <1>3, <1>4, TypeCorrect, LedgerInvariant, PTL DEF Spec

(* So there, without a premise on the run, whatever callbacks, requests and*)
(* passes race and whoever crashes: one push a sale, each to the charge it *)
(* is of, no failure guessed, and nothing paid unasked but what an operator*)
(* released.                                                               *)
THEOREM ChargesCorrectApart ==
    ASSUME PurgeAges = {}, Apart
    PROVE  Spec => [](/\ OnePushPerSale /\ AttributionCorrect
                      /\ FailedIsDefinite /\ UnconfirmedOnlyAfterHold)
BY PremisesHold, PushedOnce, AttributedRight, FailedRight, PaidOnWord, PTL
=============================================================================
