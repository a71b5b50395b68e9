------------------------------ MODULE SalesProofs ------------------------------
(***************************************************************************)
(* I1 for any tenants, keys, bodies, sales and requests: one sale per key, *)
(* tenants apart, and POST /sales implements the SaleBook.                 *)
(***************************************************************************)
EXTENDS Sales, TLAPS

SaleRows == [key: Scopes, body: Bodies, status: {"UNPAID", "PAID"}]
KeyRows == [hash: Bodies, sale: SaleIds, response: Responses]
Answers == [key: Scopes, body: Bodies, response: Responses \cup {Conflict}]

(* A key's row is about the sale it names.                                 *)
KeyNamesSale ==
    \A k \in Scopes : keys[k] # NULL =>
        /\ sales[keys[k].sale] # NULL
        /\ sales[keys[k].sale].key = k
        /\ keys[k].response.id = keys[k].sale

(* What a request is answered under key k for this body.                   *)
Due(k, body) == IF keys[k].hash = body THEN keys[k].response ELSE Conflict

(* A handler about to answer has what its key's row holds for its body.    *)
AnswersAreDue ==
    \A r \in Requests : request[r].pc = "answer" =>
        /\ keys[request[r].key] # NULL
        /\ request[r].response = Due(request[r].key, request[r].body)

IInv ==
    /\ TypeOK
    /\ OneSalePerKey
    /\ KeyNamesSale
    /\ AnswersAreDue
    /\ TenantsApart

-----------------------------------------------------------------------------
(* The empty database satisfies the invariant.                             *)
LEMMA InitIInv == Init => IInv
<1> SUFFICES ASSUME Init PROVE IInv
  OBVIOUS
<1>1. TypeOK
  BY DEF Init, TypeOK, Idle
<1>2. OneSalePerKey /\ KeyNamesSale
  BY DEF Init, OneSalePerKey, KeyNamesSale
<1>3. AnswersAreDue /\ TenantsApart
  BY DEF Init, Idle, AnswersAreDue, TenantsApart
<1> QED BY <1>1, <1>2, <1>3 DEF IInv

(* Handlers that only read or give up leave the tables and the answer, and *)
(* what they now hold is due.                                              *)
LEMMA ReadingStep ==
    ASSUME IInv, UNCHANGED <<sales, keys, catalog, answer>>,
           NEW r \in Requests,
           NEW row, request' = [request EXCEPT ![r] = row],
           \/ row = Idle
           \/ /\ row \in Handlers
              /\ row.pc = "reread" => keys[row.key] # NULL
              /\ row.pc = "answer" <=> row.response # NULL
              /\ row.pc = "answer" =>
                    keys[row.key] # NULL /\ row.response = Due(row.key, row.body)
    PROVE  IInv'
<1>0. TypeOK /\ UNCHANGED <<sales, keys, tenants, attendants, products, answer>>
  BY DEF IInv, catalog
<1>1. \A q \in Requests : request'[q] = request[q] \/ request'[q] = row
  OBVIOUS
<1>2. TypeOK'
  BY <1>0, <1>1 DEF TypeOK, Handlers, Idle
<1>3. OneSalePerKey' /\ KeyNamesSale'
  BY <1>0 DEF IInv, OneSalePerKey, KeyNamesSale
<1>4. AnswersAreDue'
  BY <1>0, <1>1 DEF IInv, AnswersAreDue, Due, Handlers, Idle
<1>5. TenantsApart'
  BY <1>0 DEF IInv, TenantsApart
<1> QED BY <1>2, <1>3, <1>4, <1>5 DEF IInv

(* What Found makes of a handler is what is due under a used key.          *)
LEMMA FoundStep ==
    ASSUME IInv, UNCHANGED <<sales, keys, catalog, answer>>,
           NEW r \in Requests, NEW k \in Scopes, NEW body \in Bodies,
           keys[k] # NULL, Found(r, k, body)
    PROVE  IInv'
<1> DEFINE row == [pc |-> "answer", key |-> k, body |-> body, response |-> Due(k, body)]
<1>1. request' = [request EXCEPT ![r] = row]
  BY DEF Found, Replay, Due
<1>2. Due(k, body) \in Responses \cup {Conflict} /\ NULL \notin Responses \cup {Conflict}
  BY ConstantsAssumption DEF IInv, TypeOK, Due
<1>3. row \in Handlers
  BY <1>2 DEF Handlers
<1>4. /\ row.pc = "answer" /\ row.response # NULL /\ keys[row.key] # NULL
      /\ row.response = Due(row.key, row.body)
  BY <1>2
<1> HIDE DEF row
<1> QED BY <1>1, <1>3, <1>4, ReadingStep

(* The first read answers from the key's row, or sends the handler on.     *)
LEMMA LookUpStep ==
    ASSUME IInv, NEW r \in Requests, LookUp(r)
    PROVE  IInv'
<1>0. PICK k \in Scopes, body \in Bodies :
          IF keys[k] # NULL
          THEN Found(r, k, body)
          ELSE request' = [request EXCEPT ![r] =
                   [pc |-> "write", key |-> k, body |-> body, response |-> NULL]]
  BY DEF LookUp
<1>1. UNCHANGED <<sales, keys, catalog, answer>>
  BY DEF LookUp
<1>2. CASE keys[k] # NULL
  BY <1>0, <1>1, <1>2, FoundStep
<1>3. CASE keys[k] = NULL
  <2> DEFINE row == [pc |-> "write", key |-> k, body |-> body, response |-> NULL]
  <2>1. request' = [request EXCEPT ![r] = row]
    BY <1>0, <1>3
  <2>2. /\ row \in Handlers
        /\ row.pc = "write" /\ row.response = NULL
    BY DEF Handlers
  <2> HIDE DEF row
  <2> QED BY <2>1, <2>2, <1>1, ReadingStep
<1> QED BY <1>2, <1>3

(* Rolling back leaves a handler to read the key again.                    *)
LEMMA LoseRaceStep ==
    ASSUME IInv, NEW r \in Requests, LoseRace(r)
    PROVE  IInv'
<1> DEFINE row == [request[r] EXCEPT !.pc = "reread"]
<1>1. request[r].pc = "write"
  BY DEF LoseRace
<1>2. /\ request[r] \in Handlers
      /\ request[r].pc = "answer" <=> request[r].response # NULL
  BY <1>1 DEF IInv, TypeOK, Handlers, Idle
<1>3. /\ row \in Handlers
      /\ row.pc = "reread" /\ row.response = NULL /\ row.key = request[r].key
  BY <1>1, <1>2 DEF Handlers
<1>4. keys[row.key] # NULL
  BY <1>3 DEF LoseRace, IsTaken
<1>5. request' = [request EXCEPT ![r] = row]
  BY DEF LoseRace
<1>6. UNCHANGED <<sales, keys, catalog, answer>>
  BY DEF LoseRace
<1> HIDE DEF row
<1> QED BY <1>3, <1>4, <1>5, <1>6, ReadingStep

(* The loser of a race has what the winner's row holds for its body.       *)
LEMMA ReadWinnerStep ==
    ASSUME IInv, NEW r \in Requests, ReadWinner(r)
    PROVE  IInv'
<1>1. request[r].pc = "reread"
  BY DEF ReadWinner
<1>2. request[r].key \in Scopes /\ request[r].body \in Bodies /\ keys[request[r].key] # NULL
  BY <1>1 DEF IInv, TypeOK, Handlers, Idle
<1> QED BY <1>2, FoundStep DEF ReadWinner

(* A handler that ends without an answer leaves everything else.           *)
LEMMA GiveUpStep ==
    ASSUME IInv, NEW r \in Requests, NotFound(r) \/ EndRequest(r)
    PROVE  IInv'
<1>1. request' = [request EXCEPT ![r] = Idle] /\ UNCHANGED <<sales, keys, catalog, answer>>
  BY DEF NotFound, EndRequest
<1> QED BY <1>1, ReadingStep

(* A waiting handler that is given its answer.                             *)
LEMMA Answered ==
    ASSUME NEW h \in [pc: {"write"}, key: Scopes, body: Bodies, response: {NULL}], NEW x
    PROVE  [h EXCEPT !.pc = "answer", !.response = x]
               = [pc |-> "answer", key |-> h.key, body |-> h.body, response |-> x]
<1> DEFINE given == [h EXCEPT !.pc = "answer", !.response = x]
<1>1. given \in [pc: {"answer"}, key: {h.key}, body: {h.body}, response: {x}]
  OBVIOUS
<1> HIDE DEF given
<1>2. given = [pc |-> "answer", key |-> h.key, body |-> h.body, response |-> x]
  BY <1>1
<1> QED BY <1>2 DEF given

(* The transaction, stated of the rows it writes.                          *)
LEMMA WriteEffect ==
    ASSUME TypeOK, NEW r \in Requests, Write(r)
    PROVE  LET k == request[r].key
               body == request[r].body IN
           /\ k \in Scopes /\ body \in Bodies /\ keys[k] = NULL
           /\ IsKnown(Tenant(k), body)
           /\ request[r] \in [pc: {"write"}, key: Scopes, body: Bodies, response: {NULL}]
           /\ \E s \in SaleIds :
                 LET shown == [id |-> s, body |-> body, status |-> "UNPAID"] IN
                 /\ sales[s] = NULL
                 /\ sales' = [sales EXCEPT ![s] =
                                 [key |-> k, body |-> body, status |-> "UNPAID"]]
                 /\ keys' = [keys EXCEPT ![k] = [hash |-> body, sale |-> s, response |-> shown]]
                 /\ request' = [request EXCEPT ![r] =
                       [pc |-> "answer", key |-> k, body |-> body, response |-> shown]]
           /\ UNCHANGED <<tenants, attendants, products, answer>>
<1>1. request[r].pc = "write"
  BY DEF Write
<1>2. request[r] \in [pc: {"write"}, key: Scopes, body: Bodies, response: {NULL}]
  BY <1>1 DEF TypeOK, Handlers, Idle
<1> DEFINE k == request[r].key
           body == request[r].body
<1>3. k \in Scopes /\ body \in Bodies
  BY <1>2
<1>4. PICK s \in SaleIds :
          /\ sales[s] = NULL
          /\ sales' = [sales EXCEPT ![s] = [key |-> k, body |-> body, status |-> "UNPAID"]]
          /\ keys' = [keys EXCEPT ![k] = [hash |-> body, sale |-> s, response |-> Shown(s)]]
          /\ request' = [request EXCEPT ![r].pc = "answer", ![r].response = Shown(s)]
  BY DEF Write
<1>5. Shown(s) = [id |-> s, body |-> body, status |-> "UNPAID"]
  BY <1>4 DEF Shown, TypeOK
<1>6. request' = [request EXCEPT ![r] =
          [pc |-> "answer", key |-> k, body |-> body, response |-> Shown(s)]]
  <2>1. [request[r] EXCEPT !.pc = "answer", !.response = Shown(s)]
            = [pc |-> "answer", key |-> k, body |-> body, response |-> Shown(s)]
    BY <1>2, Answered
  <2>2. request' = [request EXCEPT ![r] =
            [request[r] EXCEPT !.pc = "answer", !.response = Shown(s)]]
    BY <1>4 DEF TypeOK
  <2> QED BY <2>1, <2>2
<1>7. keys[k] = NULL /\ IsKnown(Tenant(k), body) /\ UNCHANGED <<catalog, answer>>
  BY DEF Write, IsTaken
<1> QED BY <1>2, <1>3, <1>4, <1>5, <1>6, <1>7 DEF catalog

(* The transaction makes one sale, and the key's row names it.             *)
LEMMA WriteStep ==
    ASSUME IInv, NEW r \in Requests, Write(r)
    PROVE  IInv'
<1> DEFINE k == request[r].key
           body == request[r].body
<1>1. /\ k \in Scopes /\ body \in Bodies /\ keys[k] = NULL
      /\ IsKnown(Tenant(k), body)
      /\ UNCHANGED <<tenants, attendants, products, answer>>
  BY WriteEffect DEF IInv
<1>2. PICK s \in SaleIds :
          LET shown == [id |-> s, body |-> body, status |-> "UNPAID"] IN
          /\ sales[s] = NULL
          /\ sales' = [sales EXCEPT ![s] = [key |-> k, body |-> body, status |-> "UNPAID"]]
          /\ keys' = [keys EXCEPT ![k] = [hash |-> body, sale |-> s, response |-> shown]]
          /\ request' = [request EXCEPT ![r] =
                [pc |-> "answer", key |-> k, body |-> body, response |-> shown]]
  BY WriteEffect DEF IInv
<1> DEFINE shown == [id |-> s, body |-> body, status |-> "UNPAID"]
           sale == [key |-> k, body |-> body, status |-> "UNPAID"]
           row == [hash |-> body, sale |-> s, response |-> shown]
           handler == [pc |-> "answer", key |-> k, body |-> body, response |-> shown]
<1>3. /\ sale \in SaleRows /\ shown \in Responses /\ row \in KeyRows
      /\ sale # NULL /\ row # NULL /\ shown # NULL
  BY <1>1, ConstantsAssumption DEF Responses, SaleRows, KeyRows
<1>4. /\ sales' \in [SaleIds -> SaleRows \cup {NULL}] /\ keys' \in [Scopes -> KeyRows \cup {NULL}]
      /\ sales'[s] = sale /\ \A z \in SaleIds : z # s => sales'[z] = sales[z]
      /\ keys'[k] = row /\ \A j \in Scopes : j # k => keys'[j] = keys[j]
  BY <1>1, <1>2, <1>3 DEF IInv, TypeOK, SaleRows, KeyRows
<1>5. /\ request'[r] = handler
      /\ \A q \in Requests : q # r => request'[q] = request[q]
  BY <1>2 DEF IInv, TypeOK
<1>6. TypeOK'
  <2>1. handler \in Handlers /\ handler.pc = "answer" /\ handler.response # NULL
    BY <1>1, <1>3 DEF Handlers
  <2>2. request' \in [Requests -> Handlers \cup {Idle}]
    BY <1>2, <2>1 DEF IInv, TypeOK
  <2>3. TypeOK
    BY DEF IInv
  <2>4. ASSUME NEW q \in Requests
        PROVE  /\ request'[q].pc = "reread" => keys'[request'[q].key] # NULL
               /\ request'[q].pc = "answer" <=> request'[q].response # NULL
    <3>1. CASE q = r
      BY <1>5, <2>1, <3>1
    <3>2. CASE q # r
      <4>1. request'[q] = request[q]
        BY <1>5, <3>2
      <4>2. request[q].pc = "reread" => request[q].key \in Scopes
        BY <2>3 DEF TypeOK, Handlers, Idle
      <4> QED BY <1>3, <1>4, <2>3, <4>1, <4>2 DEF TypeOK
    <3> QED BY <3>1, <3>2
  <2> QED BY <1>1, <1>4, <2>2, <2>3, <2>4 DEF TypeOK, SaleRows, KeyRows
<1>7. OneSalePerKey'
  BY <1>1, <1>2, <1>3, <1>4 DEF IInv, TypeOK, OneSalePerKey
<1>8. KeyNamesSale'
  BY <1>1, <1>2, <1>3, <1>4 DEF IInv, TypeOK, KeyNamesSale
<1>9. AnswersAreDue'
  BY <1>1, <1>3, <1>4, <1>5 DEF IInv, TypeOK, AnswersAreDue, Due, Handlers, Idle
<1>10. TenantsApart'
  <2>1. \A z \in SaleIds : sales[z] # NULL => sales'[z] = sales[z]
    BY <1>2, <1>4
  <2>2. answer = NULL \/ answer.response = Conflict \/ answer.response.id \in SaleIds
    BY DEF IInv, TypeOK, Responses
  <2> QED BY <1>1, <1>4, <2>1, <2>2 DEF IInv, TypeOK, TenantsApart, IsKnown
<1> QED BY <1>6, <1>7, <1>8, <1>9, <1>10 DEF IInv

(* A client is answered what is due, or its key's conflict.                *)
LEMMA AnswerStep ==
    ASSUME IInv, NEW r \in Requests, Answer(r)
    PROVE  IInv'
<1> DEFINE k == request[r].key
           body == request[r].body
           response == request[r].response
<1>1. /\ request[r].pc = "answer"
      /\ answer' = [key |-> k, body |-> body, response |-> response]
      /\ request' = [request EXCEPT ![r] = Idle]
      /\ UNCHANGED <<sales, keys, tenants, attendants, products>>
  BY DEF Answer, catalog
<1>2. /\ k \in Scopes /\ body \in Bodies /\ response \in Responses \cup {Conflict}
      /\ keys[k] # NULL /\ response = Due(k, body)
  BY <1>1 DEF IInv, TypeOK, AnswersAreDue, Handlers, Idle
<1>3. request'[r] = Idle /\ \A q \in Requests : q # r => request'[q] = request[q]
  BY <1>1 DEF IInv, TypeOK
<1>4. TypeOK'
  <2>1. answer' \in Answers
    BY <1>1, <1>2 DEF Answers
  <2>2. TypeOK
    BY DEF IInv
  <2>3. request' \in [Requests -> Handlers \cup {Idle}]
    BY <1>1, <2>2 DEF TypeOK
  <2>4. ASSUME NEW q \in Requests
        PROVE  /\ request'[q].pc = "reread" => keys'[request'[q].key] # NULL
               /\ request'[q].pc = "answer" <=> request'[q].response # NULL
    BY <1>1, <1>3, <2>2 DEF TypeOK, Idle
  <2> QED BY <1>1, <2>1, <2>2, <2>3, <2>4 DEF TypeOK, Answers
<1>5. OneSalePerKey' /\ KeyNamesSale'
  BY <1>1 DEF IInv, OneSalePerKey, KeyNamesSale
<1>6. AnswersAreDue'
  BY <1>1, <1>3 DEF IInv, AnswersAreDue, Due, Handlers, Idle
<1>7. TenantsApart'
  <2>1. response # Conflict => sales[response.id] # NULL /\ sales[response.id].key = k
    BY <1>2 DEF IInv, TypeOK, KeyNamesSale, Due
  <2> QED BY <1>1, <2>1 DEF IInv, TenantsApart
<1> QED BY <1>4, <1>5, <1>6, <1>7 DEF IInv

-----------------------------------------------------------------------------
(* Tenants, attendants and products are only added, and an id that has a   *)
(* tenant keeps it.                                                        *)
LEMMA CatalogStep ==
    ASSUME IInv, NEW t \in Tenants,
           \/ BootstrapTenant(t)
           \/ \E a \in AttendantIds : CreateAttendant(t, a)
           \/ \E p \in ProductIds : CreateProduct(t, p)
    PROVE  IInv'
<1>1. /\ UNCHANGED <<sales, keys, request, answer>>
      /\ tenants \subseteq tenants' /\ tenants' \subseteq Tenants
      /\ attendants' \in [AttendantIds -> tenants' \cup {NULL}]
      /\ products' \in [ProductIds -> tenants' \cup {NULL}]
  BY DEF IInv, TypeOK, BootstrapTenant, CreateAttendant, CreateProduct
<1>2. /\ \A a \in AttendantIds : attendants[a] # NULL => attendants'[a] = attendants[a]
      /\ \A p \in ProductIds : products[p] # NULL => products'[p] = products[p]
  BY DEF IInv, TypeOK, BootstrapTenant, CreateAttendant, CreateProduct
<1>3. TypeOK'
  BY <1>1 DEF IInv, TypeOK
<1>4. OneSalePerKey' /\ KeyNamesSale' /\ AnswersAreDue'
  BY <1>1 DEF IInv, OneSalePerKey, KeyNamesSale, AnswersAreDue, Due
<1>5. TenantsApart'
  <2>1. \A s \in SaleIds : sales[s] # NULL =>
            /\ Tenant(sales[s].key) \in Tenants
            /\ sales[s].body.attendant \in AttendantIds
            /\ sales[s].body.products \subseteq ProductIds
    BY DEF IInv, TypeOK, Scopes, Bodies, Tenant
  <2>2. NULL \notin Tenants
    BY ConstantsAssumption
  <2> QED BY <1>1, <1>2, <2>1, <2>2 DEF IInv, TenantsApart
<1> QED BY <1>3, <1>4, <1>5 DEF IInv

(* A sale that is paid keeps its key and body.                             *)
LEMMA ApplyPaidStep ==
    ASSUME IInv, NEW s \in SaleIds, ApplyPaid(s)
    PROVE  IInv'
<1>1. /\ sales[s] # NULL
      /\ sales' = [sales EXCEPT ![s].status = "PAID"]
      /\ UNCHANGED <<keys, tenants, attendants, products, request, answer>>
  BY DEF ApplyPaid, catalog
<1>2. sales \in [SaleIds -> SaleRows \cup {NULL}] /\ sales[s] \in SaleRows
  BY <1>1 DEF IInv, TypeOK, SaleRows
<1>3. \A z \in SaleIds :
          /\ sales'[z] \in SaleRows \cup {NULL}
          /\ sales'[z] = NULL <=> sales[z] = NULL
          /\ sales[z] # NULL => sales'[z].key = sales[z].key /\ sales'[z].body = sales[z].body
  BY <1>1, <1>2, ConstantsAssumption DEF SaleRows
<1>4. sales' \in [SaleIds -> SaleRows \cup {NULL}]
  BY <1>1, <1>2, <1>3
<1>5. TypeOK'
  BY <1>1, <1>4 DEF IInv, TypeOK, SaleRows
<1>6. OneSalePerKey'
  BY <1>1, <1>3 DEF IInv, OneSalePerKey
<1>7. KeyNamesSale'
  <2>1. \A k \in Scopes : keys[k] # NULL => keys[k].sale \in SaleIds
    BY DEF IInv, TypeOK
  <2> QED BY <1>1, <1>3, <2>1 DEF IInv, KeyNamesSale
<1>8. AnswersAreDue'
  BY <1>1 DEF IInv, AnswersAreDue, Due
<1>9. TenantsApart'
  <2>1. answer # NULL /\ answer.response # Conflict => answer.response.id \in SaleIds
    BY DEF IInv, TypeOK, Responses
  <2> QED BY <1>1, <1>3, <2>1 DEF IInv, TenantsApart
<1> QED BY <1>5, <1>6, <1>7, <1>8, <1>9 DEF IInv

(* Every step preserves the invariant.                                     *)
LEMMA StepIInv == IInv /\ [Next]_vars => IInv'
<1> SUFFICES ASSUME IInv, [Next]_vars PROVE IInv'
  OBVIOUS
<1>1. ASSUME NEW r \in Requests, RequestStep(r) PROVE IInv'
  BY <1>1, LookUpStep, WriteStep, LoseRaceStep, ReadWinnerStep, AnswerStep, GiveUpStep
     DEF RequestStep
<1>2. ASSUME NEW t \in Tenants,
             \/ BootstrapTenant(t)
             \/ \E a \in AttendantIds : CreateAttendant(t, a)
             \/ \E p \in ProductIds : CreateProduct(t, p)
      PROVE IInv'
  BY <1>2, CatalogStep
<1>3. ASSUME NEW s \in SaleIds, ApplyPaid(s) PROVE IInv'
  BY <1>3, ApplyPaidStep
<1>4. CASE UNCHANGED vars
  BY <1>4 DEF vars, catalog, IInv, TypeOK, OneSalePerKey, KeyNamesSale, AnswersAreDue, Due,
              TenantsApart
<1> QED BY <1>1, <1>2, <1>3, <1>4 DEF Next

(* The invariant the theorems rest on: a key's row and the sale it names   *)
(* are of one body and one key, and a handler's answer is its key's.       *)
THEOREM SalesInvariant == Spec => []IInv
<1>1. Init => IInv
  BY InitIInv
<1>2. IInv /\ [Next]_vars => IInv'
  BY StepIInv
<1> QED BY <1>1, <1>2, PTL DEF Spec

(* Every variable of createSale keeps its type.                            *)
THEOREM SalesTypeCorrect == Spec => []TypeOK
<1>1. IInv => TypeOK
  BY DEF IInv
<1> QED BY <1>1, SalesInvariant, PTL

(* I1: whatever requests race, retry or die, there is one sale per key.    *)
THEOREM KeyedOnce == Spec => []OneSalePerKey
<1>1. IInv => OneSalePerKey
  BY DEF IInv
<1> QED BY <1>1, SalesInvariant, PTL

(* Whatever ids requests name, no sale, item or answer mixes tenants.      *)
THEOREM TenantsKeptApart == Spec => []TenantsApart
<1>1. IInv => TenantsApart
  BY DEF IInv
<1> QED BY <1>1, SalesInvariant, PTL

-----------------------------------------------------------------------------
(* The book's entry of a key, as Book has it.                              *)
EntryOf(k) == IF keys[k] = NULL THEN NULL
              ELSE [body |-> keys[k].hash, response |-> keys[k].response]

Entry == [k \in Scopes |-> EntryOf(k)]

(* An entry is there when the row is: it is not taken for NULL.            *)
LEMMA EntryIsThere ==
    ASSUME NEW k \in Scopes, TypeOK
    PROVE  /\ keys[k] # NULL => EntryOf(k) \in [body: Bodies, response: Responses]
           /\ EntryOf(k) = NULL <=> keys[k] = NULL
BY ConstantsAssumption DEF TypeOK, EntryOf

(* Writing a sale opens the key's entry with a response no other has.      *)
LEMMA WriteRefines ==
    ASSUME IInv, NEW r \in Requests, Write(r)
    PROVE  \E k \in Scopes : Book!Write(k)
<1>0. PICK k \in Scopes, body \in Bodies : k = request[r].key /\ body = request[r].body
  BY WriteEffect DEF IInv
<1>1. keys[k] = NULL /\ answer' = answer
  BY <1>0, WriteEffect DEF IInv
<1>2. PICK s \in SaleIds :
          LET shown == [id |-> s, body |-> body, status |-> "UNPAID"] IN
          /\ sales[s] = NULL
          /\ keys' = [keys EXCEPT ![k] = [hash |-> body, sale |-> s, response |-> shown]]
  BY <1>0, WriteEffect DEF IInv
<1> DEFINE shown == [id |-> s, body |-> body, status |-> "UNPAID"]
           row == [hash |-> body, sale |-> s, response |-> shown]
           e == [body |-> body, response |-> shown]
<1>3. e \in [body: Bodies, response: Responses] /\ row # NULL
  BY <1>1, ConstantsAssumption DEF Responses
<1>4. keys'[k] = row /\ \A j \in Scopes : j # k => keys'[j] = keys[j]
  BY <1>1, <1>2 DEF IInv, TypeOK
<1>5. Entry' = [Entry EXCEPT ![k] = e]
  <2>1. EntryOf(k)' = e
    BY <1>1, <1>3, <1>4 DEF EntryOf
  <2>2. \A j \in Scopes : j # k => EntryOf(j)' = EntryOf(j)
    BY <1>4 DEF EntryOf
  <2> HIDE DEF e
  <2> QED BY <2>1, <2>2 DEF Entry
<1>6. Entry[k] = NULL
  BY <1>1 DEF Entry, EntryOf
<1>7. ASSUME NEW j \in Scopes, Entry[j] # NULL
      PROVE  Entry[j].response # e.response
  <2>1. keys[j] # NULL /\ Entry[j].response = keys[j].response
    BY <1>7 DEF Entry, EntryOf
  <2>2. sales[keys[j].sale] # NULL /\ keys[j].response.id = keys[j].sale
    BY <2>1 DEF IInv, KeyNamesSale
  <2> QED BY <1>2, <2>1, <2>2
<1> HIDE DEF e
<1> QED BY <1>1, <1>3, <1>5, <1>6, <1>7 DEF Book!Write, Book!Entries, Entry, EntryOf

(* A client is answered as the key's entry has it.                         *)
LEMMA AnswerRefines ==
    ASSUME IInv, NEW r \in Requests, Answer(r)
    PROVE  \E k \in Scopes : Book!Answer(k)
<1>0. PICK k \in Scopes, body \in Bodies : k = request[r].key /\ body = request[r].body
  BY DEF IInv, TypeOK, Answer, Handlers, Idle
<1>1. /\ request[r].pc = "answer" /\ keys' = keys
      /\ answer' = [key |-> k, body |-> body, response |-> request[r].response]
  BY <1>0 DEF Answer
<1>2. keys[k] # NULL /\ request[r].response = Due(k, body)
  BY <1>0, <1>1 DEF IInv, TypeOK, AnswersAreDue, Handlers, Idle
<1>3. Entry[k] # NULL /\ Entry' = Entry
  BY <1>1, <1>2, EntryIsThere DEF IInv, Entry, EntryOf
<1>4. Entry[k].body = keys[k].hash /\ Entry[k].response = keys[k].response
  BY <1>2 DEF Entry, EntryOf
<1>5. answer' = [key |-> k, body |-> body, response |->
                    IF body = Entry[k].body THEN Entry[k].response ELSE Conflict]
  BY <1>1, <1>2, <1>4 DEF Due
<1> QED BY <1>2, <1>3, <1>5 DEF Book!Answer, Entry, EntryOf

(* POST /sales implements the SaleBook: a transaction opens an entry, an   *)
(* answer is one of the book's, and everything else is a stutter.          *)
THEOREM BookRefinement == Spec => ImplementsBook
<1>1. Init => Book!Init
  BY DEF Init, Book!Init
<1>2. IInv /\ [Next]_vars => [Book!Next]_<<Entry, answer>>
  <2> SUFFICES ASSUME IInv, [Next]_vars PROVE [Book!Next]_<<Entry, answer>>
    OBVIOUS
  <2>1. ASSUME NEW r \in Requests, Write(r) PROVE Book!Next
    BY <2>1, WriteRefines DEF Book!Next
  <2>2. ASSUME NEW r \in Requests, Answer(r) PROVE Book!Next
    BY <2>2, AnswerRefines DEF Book!Next
  <2>3. ASSUME NEW r \in Requests,
               LookUp(r) \/ NotFound(r) \/ LoseRace(r) \/ ReadWinner(r) \/ EndRequest(r)
        PROVE UNCHANGED <<keys, answer>>
    BY <2>3 DEF LookUp, NotFound, LoseRace, ReadWinner, EndRequest
  <2>4. ASSUME NEW t \in Tenants,
               \/ BootstrapTenant(t)
               \/ \E a \in AttendantIds : CreateAttendant(t, a)
               \/ \E p \in ProductIds : CreateProduct(t, p)
        PROVE UNCHANGED <<keys, answer>>
    BY <2>4 DEF BootstrapTenant, CreateAttendant, CreateProduct
  <2>5. ASSUME NEW s \in SaleIds, ApplyPaid(s) PROVE UNCHANGED <<keys, answer>>
    BY <2>5 DEF ApplyPaid
  <2>6. CASE UNCHANGED vars
    BY <2>6 DEF vars, Entry, EntryOf
  <2>7. UNCHANGED <<keys, answer>> => UNCHANGED <<Entry, answer>>
    BY DEF Entry, EntryOf
  <2> QED BY <2>1, <2>2, <2>3, <2>4, <2>5, <2>6, <2>7 DEF Next, RequestStep
<1> QED BY <1>1, <1>2, SalesInvariant, PTL
     DEF Spec, ImplementsBook, Book!Spec, Entry, EntryOf
=============================================================================
