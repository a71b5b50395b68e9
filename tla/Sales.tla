--------------------------------- MODULE Sales ---------------------------------
(***************************************************************************)
(* POST /sales and its Idempotency-Key: createSale, run by several requests*)
(* at once, with retries of clients that got no answer, while tenants are  *)
(* set up and add the attendants and products that sales name.             *)
(***************************************************************************)
EXTENDS Integers

CONSTANTS
    Tenants, Keys,              \* a key is scoped by its tenant
    AttendantIds, ProductIds,   \* fresh UUIDs, like the next
    SaleIds,
    Requests,                   \* concurrent POST /sales handlers
    Conflict,                   \* the answer 409
    NULL

Scopes == Tenants \X Keys

(* The body of a request; canonicalHash tells two of them apart.           *)
Bodies == [attendant: AttendantIds, products: SUBSET ProductIds \ {{}}]

Responses == [id: SaleIds, body: Bodies, status: {"UNPAID", "PAID"}]

ASSUME ConstantsAssumption ==
    /\ NULL \notin [key: Scopes, body: Bodies, status: {"UNPAID", "PAID"}]
    /\ NULL \notin [hash: Bodies, sale: SaleIds, response: Responses]
    /\ NULL \notin [key: Scopes, body: Bodies, response: Responses \cup {Conflict}]
    /\ NULL \notin [body: Bodies, response: Responses]
    /\ NULL \notin Tenants \cup Responses
    /\ Conflict # NULL /\ Conflict \notin Responses

VARIABLES
    sales,        \* sales with their sale_items; `key` says what they were made for
    keys,         \* idempotency_keys
    tenants,      \* the tenants there are, each with its owner
    attendants,   \* the tenant of each attendant
    products,     \* the tenant of each product
    request,      \* the local state of the handlers
    answer        \* the last answer a client was given: a sale, or a conflict

catalog == <<tenants, attendants, products>>
vars == <<sales, keys, catalog, request, answer>>

(* Sale s as rowToSale shows it. *)
Shown(s) == [id |-> s, body |-> sales'[s].body, status |-> sales'[s].status]

Idle == [pc |-> "idle", key |-> NULL, body |-> NULL, response |-> NULL]

Tenant(k) == k[1]

-----------------------------------------------------------------------------

Replay(row) == row.response

(* The key was used before: the stored response is replayed if the hash of *)
(* the body is the same, or else it is a conflict.                         *)
Found(r, k, body) ==
    request' = [request EXCEPT ![r] =
        [pc |-> "answer", key |-> k, body |-> body, response |->
            IF keys[k].hash = body THEN Replay(keys[k]) ELSE Conflict]]

(* requireAuth: the tenant is that of the token, whatever ids the body has;*)
(* tokens are minted for the users of tenants.  Then the first SELECT on   *)
(* the key.                                                                *)
LookUp(r) ==
    /\ request[r].pc = "idle"
    /\ \E k \in Scopes, body \in Bodies :
          /\ Tenant(k) \in tenants
          /\ IF keys[k] # NULL
             THEN Found(r, k, body)
             ELSE request' = [request EXCEPT ![r] =
                      [pc |-> "write", key |-> k, body |-> body, response |-> NULL]]
    /\ UNCHANGED <<sales, keys, catalog, answer>>

(* PRIMARY KEY (tenant_id, idempotency_key); mutant: no constraint.        *)
NoPrimaryKey(k) == FALSE

IsTaken(k) == keys[k] # NULL

(* Mutant: the ids are looked up without their tenant.                     *)
IsKnownAnywhere(t, body) ==
    attendants[body.attendant] # NULL /\ \A p \in body.products : products[p] # NULL

IsKnown(t, body) ==
    attendants[body.attendant] = t /\ \A p \in body.products : products[p] = t

(* The transaction: sale, items and key are written together, unless the   *)
(* attendant or a product is missing (404) or the key is taken by now.     *)
Write(r) ==
    LET k == request[r].key
        body == request[r].body IN
    /\ request[r].pc = "write"
    /\ IsKnown(Tenant(k), body)
    /\ ~IsTaken(k)
    /\ \E s \in SaleIds :
          /\ sales[s] = NULL
          /\ sales' = [sales EXCEPT ![s] = [key |-> k, body |-> body, status |-> "UNPAID"]]
          /\ keys' = [keys EXCEPT ![k] = [hash |-> body, sale |-> s, response |-> Shown(s)]]
          /\ request' = [request EXCEPT ![r].pc = "answer", ![r].response = Shown(s)]
    /\ UNCHANGED <<catalog, answer>>

NotFound(r) ==
    /\ request[r].pc = "write"
    /\ ~IsKnown(Tenant(request[r].key), request[r].body)
    /\ request' = [request EXCEPT ![r] = Idle]
    /\ UNCHANGED <<sales, keys, catalog, answer>>

(* Mutant: ON CONFLICT DO NOTHING, with nobody looking at the row count. *)
LoseUnnoticed(r) ==
    /\ request[r].pc = "write"
    /\ IsKnown(Tenant(request[r].key), request[r].body)
    /\ IsTaken(request[r].key)
    /\ request' = [request EXCEPT ![r].pc = "answer"]
    /\ UNCHANGED <<sales, keys, catalog, answer>>

(* isUniqueViolation: the transaction is rolled back. *)
LoseRace(r) ==
    /\ request[r].pc = "write"
    /\ IsKnown(Tenant(request[r].key), request[r].body)
    /\ IsTaken(request[r].key)
    /\ request' = [request EXCEPT ![r].pc = "reread"]
    /\ UNCHANGED <<sales, keys, catalog, answer>>

(* Mutant: the winner's response is replayed whatever its body was. *)
ReadAnyWinner(r) ==
    /\ request[r].pc = "reread"
    /\ request' = [request EXCEPT ![r].pc = "answer",
                                  ![r].response = Replay(keys[request[r].key])]
    /\ UNCHANGED <<sales, keys, catalog, answer>>

ReadWinner(r) ==
    /\ request[r].pc = "reread"
    /\ Found(r, request[r].key, request[r].body)
    /\ UNCHANGED <<sales, keys, catalog, answer>>

(* The client is answered 201 or 409. *)
Answer(r) ==
    /\ request[r].pc = "answer"
    /\ answer' = [key |-> request[r].key, body |-> request[r].body,
                  response |-> request[r].response]
    /\ request' = [request EXCEPT ![r] = Idle]
    /\ UNCHANGED <<sales, keys, catalog>>

(* The task dies, the database fails (also in the COMMIT, done or not), or *)
(* the client is gone: it was told nothing, and may send the key again.    *)
EndRequest(r) ==
    /\ request[r].pc # "idle"
    /\ request' = [request EXCEPT ![r] = Idle]
    /\ UNCHANGED <<sales, keys, catalog, answer>>

-----------------------------------------------------------------------------
(* The rest of POS. *)

(* POST /tenants: the tenant and its owner, in one transaction.            *)
BootstrapTenant(t) ==
    /\ t \notin tenants
    /\ tenants' = tenants \cup {t}
    /\ UNCHANGED <<sales, keys, attendants, products, request, answer>>

(* The owner's POSTs, under the tenant of the token (scoped): an attendant *)
(* with its user, in one transaction, and a product.                       *)
CreateAttendant(t, a) ==
    /\ t \in tenants /\ attendants[a] = NULL
    /\ attendants' = [attendants EXCEPT ![a] = t]
    /\ UNCHANGED <<sales, keys, tenants, products, request, answer>>

CreateProduct(t, p) ==
    /\ t \in tenants /\ products[p] = NULL
    /\ products' = [products EXCEPT ![p] = t]
    /\ UNCHANGED <<sales, keys, tenants, attendants, request, answer>>

(* applySalePaid: the sale changes after it was answered.                  *)
ApplyPaid(s) ==
    /\ sales[s] # NULL /\ sales[s].status = "UNPAID"
    /\ sales' = [sales EXCEPT ![s].status = "PAID"]
    /\ UNCHANGED <<keys, catalog, request, answer>>

-----------------------------------------------------------------------------

Init ==
    /\ sales = [s \in SaleIds |-> NULL]
    /\ keys = [k \in Scopes |-> NULL]
    /\ tenants = {}
    /\ attendants = [a \in AttendantIds |-> NULL]
    /\ products = [p \in ProductIds |-> NULL]
    /\ request = [r \in Requests |-> Idle]
    /\ answer = NULL

RequestStep(r) ==
    \/ LookUp(r) \/ Write(r) \/ NotFound(r) \/ LoseRace(r) \/ ReadWinner(r)
    \/ Answer(r) \/ EndRequest(r)

Next ==
    \/ \E r \in Requests : RequestStep(r)
    \/ \E t \in Tenants :
          \/ BootstrapTenant(t)
          \/ \E a \in AttendantIds : CreateAttendant(t, a)
          \/ \E p \in ProductIds : CreateProduct(t, p)
    \/ \E s \in SaleIds : ApplyPaid(s)

Spec == Init /\ [][Next]_vars
-----------------------------------------------------------------------------
Handlers == [pc: {"write", "reread", "answer"}, key: Scopes, body: Bodies,
             response: Responses \cup {Conflict, NULL}]

(* Every variable holds values of its kind, and a handler past its first   *)
(* read knows its key and body.                                            *)
TypeOK ==
    /\ sales \in [SaleIds -> [key: Scopes, body: Bodies, status: {"UNPAID", "PAID"}] \cup {NULL}]
    /\ keys \in [Scopes -> [hash: Bodies, sale: SaleIds, response: Responses] \cup {NULL}]
    /\ tenants \subseteq Tenants
    /\ attendants \in [AttendantIds -> tenants \cup {NULL}]
    /\ products \in [ProductIds -> tenants \cup {NULL}]
    /\ request \in [Requests -> Handlers \cup {Idle}]
    /\ \A r \in Requests :
          /\ request[r].pc = "reread" => keys[request[r].key] # NULL
          /\ request[r].pc = "answer" <=> request[r].response # NULL
    /\ answer \in [key: Scopes, body: Bodies, response: Responses \cup {Conflict}] \cup {NULL}

(* I1, "one sale per (tenant, idempotency key)": retries, races and crashes*)
(* leave no second sale under a key, and none that its key does not name.  *)
OneSalePerKey ==
    \A s \in SaleIds : sales[s] # NULL =>
        LET row == keys[sales[s].key] IN
        row # NULL /\ row.sale = s /\ row.hash = sales[s].body

(* ADR 0007, "every query is scoped by tenant_id derived from the          *)
(* authenticated principal": whatever ids requests name, a sale, its       *)
(* attendant, its products and its key are of one tenant, and an answer is *)
(* of a sale of the tenant it was given to.                                *)
TenantsApart ==
    /\ \A s \in SaleIds : sales[s] # NULL =>
          LET t == Tenant(sales[s].key) IN
          /\ attendants[sales[s].body.attendant] = t
          /\ \A p \in sales[s].body.products : products[p] = t
    /\ answer # NULL /\ answer.response # Conflict =>
          LET sale == sales[answer.response.id] IN sale # NULL /\ sale.key = answer.key

Book == INSTANCE SaleBook WITH entry <-
    [k \in Scopes |-> IF keys[k] = NULL THEN NULL
                      ELSE [body |-> keys[k].hash, response |-> keys[k].response]]

(* I1 whole: createSale implements the SaleBook, a client being answered   *)
(* 201 or 409 only as the one sale of the key has it.                      *)
ImplementsBook == Book!Spec
=============================================================================
