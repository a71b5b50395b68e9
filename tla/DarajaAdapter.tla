----------------------------- MODULE DarajaAdapter -----------------------------
(***************************************************************************)
(* The M-Pesa adapter the Payments service runs with, and its calls over   *)
(* HTTP to the stub-server: the deployment of the k6 runs.  Tokens are     *)
(* issued, expire and are revoked as Daraja's, and requests fail in every  *)
(* way the adapter has an answer for.                                      *)
(***************************************************************************)
EXTENDS FakeMpesa, FiniteSets

CONSTANTS
    Pushes,       \* the payments made by stkPush; the others are b2cPayments
    Queries,      \* the stkQuery calls
    Amounts,      \* minor units
    TTL,          \* expires_in, in ticks
    Margin,       \* TOKEN_SAFETY_MARGIN_MS
    Timeout,      \* timeoutMs
    BodyTime,     \* bound: ticks the body of a token takes after its headers
    Revocations   \* bound: tokens that die before their time

ASSUME AdapterAssumption ==
    /\ Pushes \subseteq Payments
    /\ Queries \cap Payments = {}
    /\ {TTL, Margin, Timeout} \subseteq Nat \ {0}
    /\ Amounts \subseteq Nat
    /\ BodyTime \in Nat /\ Revocations \in Nat
    /\ Timeout <= Margin /\ Margin < TTL
    /\ 2 * Timeout + BodyTime < TTL

VARIABLES
    token,    \* the adapter's cached token
    issued,   \* every token Daraja has issued, by number
    call,     \* per call: where it is, and what it holds
    told,     \* per call: what the Payments service was answered
    heard,    \* <<payment, outcome>>: what callbacks and queries told Payments
    lost      \* the payments a callback of which was dropped with its flush

adapter == <<token, issued, call, told, heard, lost>>
vars == <<clock, fake, adapter>>

Calls == Payments \cup Queries

NoToken == [number |-> 0, expires |-> 0]

(* since: when the request in flight was sent.  token: the token it is     *)
(* sent with.  retry: it repeats a request that was answered 401.          *)
Idle == [pc |-> "idle", amount |-> 0, of |-> "none", token |-> 0, since |-> 0,
         retry |-> FALSE, reply |-> "none"]

Done == [Idle EXCEPT !.pc = "done"]

-----------------------------------------------------------------------------
(* The token.                                                              *)

IsFresh == token.number # 0 /\ clock < token.expires - Margin

Requesting(state, pc, number, retry) ==
    [state EXCEPT !.pc = pc, !.token = number, !.since = clock, !.retry = retry,
                  !.reply = "none"]

(* Mutant: the retry, too, takes the cached token. *)
AccessTokenCached(state, retry) ==
    IF IsFresh THEN Requesting(state, "post", token.number, retry)
               ELSE Requesting(state, "get", 0, retry)

(* accessToken: up to its fetch, or up to the request that follows at once *)
(* when the cached token will do.                                          *)
AccessToken(state, retry) ==
    IF ~retry /\ IsFresh THEN Requesting(state, "post", token.number, retry)
                         ELSE Requesting(state, "get", 0, retry)

(* The headers of Daraja's answer: a new token.                            *)
Issue(c) ==
    /\ call[c].pc = "get"
    /\ issued' = Append(issued, [expires |-> clock + TTL, revoked |-> FALSE])
    /\ call' = [call EXCEPT ![c].pc = "body", ![c].token = Len(issued) + 1]
    /\ UNCHANGED <<clock, fake, token, told, heard, lost>>

(* Mutant: the token is taken to live from when its answer was read.       *)
ExpiryFromNow(c) == clock + TTL

(* "now" was read before the fetch.                                        *)
Expiry(c) == call[c].since + TTL

(* Its body: the token is cached, and the request sent with it.            *)
TakeToken(c) ==
    /\ call[c].pc = "body"
    /\ token' = [number |-> call[c].token, expires |-> Expiry(c)]
    /\ call' = [call EXCEPT ![c].pc = "post", ![c].since = clock]
    /\ UNCHANGED <<clock, fake, issued, told, heard, lost>>

Finish(c, answer) ==
    /\ call' = [call EXCEPT ![c] = Done]
    /\ told' = [told EXCEPT ![c] = answer]

(* Daraja refuses the credentials: an MpesaAuthError.                      *)
TokenRefused(c) ==
    /\ call[c].pc = "get"
    /\ Finish(c, "failed")
    /\ UNCHANGED <<clock, fake, token, issued, heard, lost>>

(* The body has no token, or is no JSON: that is a SyntaxError, no         *)
(* MpesaError.                                                             *)
TokenUnread(c) ==
    /\ call[c].pc = "body"
    /\ Finish(c, "failed")
    /\ UNCHANGED <<clock, fake, token, issued, heard, lost>>

Revoke ==
    /\ Cardinality({n \in DOMAIN issued : issued[n].revoked}) < Revocations
    /\ \E n \in DOMAIN issued :
          /\ ~issued[n].revoked
          /\ issued' = [issued EXCEPT ![n].revoked = TRUE]
    /\ UNCHANGED <<clock, fake, token, call, told, heard, lost>>

-----------------------------------------------------------------------------
(* The calls.  An amount that is not whole shillings never gets as far as  *)
(* a request: minorToKes throws a RangeError.  "failed" stands for every    *)
(* error that is neither a rejection nor an uncertain outcome.             *)

Pay(p) ==
    /\ call[p].pc = "idle"
    /\ \E amount \in Amounts :
          IF IsWhole(amount)
          THEN /\ call' = [call EXCEPT ![p] = AccessToken([@ EXCEPT !.amount = amount], FALSE)]
               /\ told' = told
          ELSE Finish(p, "failed")
    /\ UNCHANGED <<clock, fake, token, issued, heard, lost>>

(* The reconciler and the callback's confirmation ask after pushes whose   *)
(* CheckoutRequestID Payments has stored, from an acknowledgement or a     *)
(* callback.                                                               *)
IsKnown(p) ==
    \/ told[p] = "ack"
    \/ \E outcome \in {"paid", "declined"} : <<p, outcome>> \in heard

Ask(q) ==
    /\ call[q].pc = "idle"
    /\ \E p \in Pushes :
          /\ IsKnown(p)
          /\ call' = [call EXCEPT ![q] = AccessToken([@ EXCEPT !.of = p], FALSE)]
    /\ UNCHANGED <<clock, fake, token, issued, told, heard, lost>>

-----------------------------------------------------------------------------
(* The other end.  A request may also reach it after its caller gave up    *)
(* ("late").                                                               *)

IsWaiting(c) == call[c].pc \in {"get", "post"}

IsServed(c) == c \in Payments /\ record[c] # NoRecord

InFlight(c) == call[c].pc \in {"post", "late"} /\ call[c].reply = "none" /\ ~IsServed(c)

IsDead(number) == issued[number].revoked \/ issued[number].expires <= clock

(* Answers that say nothing of the payment.                                *)
Accidents == {"5xx", "empty", "garbled"}

Reply(c, reply) == call' = [call EXCEPT ![c].reply = reply]

Unauthorized(c) ==
    /\ InFlight(c) /\ IsDead(call[c].token)
    /\ Reply(c, "401")
    /\ UNCHANGED <<clock, fake, token, issued, told, heard, lost>>

(* handle: a payment is acknowledged, and in a timeout scenario its socket *)
(* is held until the caller gives up.  Daraja, or a gateway in front of it, *)
(* may also fail with the payment taken: a 5xx, a 2xx without its body, or *)
(* any answer whose body is cut short or no JSON (garbled).                *)
ServePayment(p) ==
    /\ InFlight(p) /\ ~IsDead(call[p].token)
    /\ Initiate(p, MinorToKes(call[p].amount))
    /\ IF ScenarioFor(MinorToKes(call[p].amount)) = "timeout"
       THEN call' = call
       ELSE \E reply \in {"ack"} \cup Accidents : Reply(p, reply)
    /\ UNCHANGED <<clock, token, issued, told, heard, lost>>

(* A payment Daraja does not take: refused, by a ResponseCode other than 0, *)
(* a 4xx, or as already "being processed", or lost in an error of its own. *)
TurnAway(p) ==
    /\ InFlight(p)
    /\ \E reply \in {"refused"} \cup Accidents : Reply(p, reply)
    /\ UNCHANGED <<clock, fake, token, issued, told, heard, lost>>

ServeQuery(q) ==
    /\ InFlight(q) /\ ~IsDead(call[q].token)
    /\ \/ Reply(q, StkQuery(call[q].of))
       \/ \E reply \in {"refused"} \cup Accidents : Reply(q, reply)
    /\ UNCHANGED <<clock, fake, token, issued, told, heard, lost>>

-----------------------------------------------------------------------------
(* What the caller is answered.                                            *)

(* Mutant: every answer that is not an accept is a refusal. *)
AnswerToNoUnknown(reply) ==
    CASE reply \in {"pending", "paid", "declined"} -> "answered"
      [] reply \in {"refused", "5xx"} -> "rejected"
      [] reply = "empty" -> "blank"
      [] reply = "garbled" -> "failed"
      [] OTHER -> reply

(* A 5xx leaves the state of the payment unknown.  A body that is no JSON  *)
(* is a plain MpesaError.  An empty one is taken for {}: of a payment that *)
(* has no ResponseCode, so it is an MpesaRejectedError, one of undefined   *)
(* code; of a query it is a result whose code is NaN.                      *)
AnswerTo(reply) ==
    CASE reply \in {"pending", "paid", "declined"} -> "answered"
      [] reply = "refused" -> "rejected"
      [] reply = "5xx" -> "unknown"
      [] reply = "empty" -> "blank"
      [] reply = "garbled" -> "failed"
      [] OTHER -> reply

(* post and what its callers make of the answer.  A 401 is tried again     *)
(* once, with a token fetched for the purpose.                             *)
Receive(c) ==
    /\ call[c].pc = "post" /\ call[c].reply # "none"
    /\ IF call[c].reply # "401"
       THEN Finish(c, AnswerTo(call[c].reply))
       ELSE IF call[c].retry
       THEN Finish(c, "failed")
       ELSE /\ call' = [call EXCEPT ![c] = AccessToken(call[c], TRUE)]
            /\ told' = told
    /\ heard' = IF call[c].reply \in {"paid", "declined"}
                THEN heard \cup {<<call[c].of, call[c].reply>>} ELSE heard
    /\ UNCHANGED <<clock, fake, token, issued, lost>>

(* Mutant: only the request itself has a timeout. *)
AbortPost(c) ==
    /\ call[c].pc = "post"
    /\ call' = [call EXCEPT ![c] =
           IF InFlight(c) /\ c \in Payments
           THEN [@ EXCEPT !.pc = "late", !.since = 0, !.retry = FALSE]
           ELSE Done]
    /\ told' = [told EXCEPT ![c] = "unknown"]
    /\ UNCHANGED <<clock, fake, token, issued, heard, lost>>

(* The connection breaks, or the timer runs out, before the headers of an  *)
(* answer came, whatever has become of the request.                        *)
Abort(c) ==
    /\ IsWaiting(c)
    /\ call' = [call EXCEPT ![c] =
           IF InFlight(c) /\ c \in Payments
           THEN [@ EXCEPT !.pc = "late", !.since = 0, !.retry = FALSE]
           ELSE Done]
    /\ told' = [told EXCEPT ![c] = "unknown"]
    /\ UNCHANGED <<clock, fake, token, issued, heard, lost>>

-----------------------------------------------------------------------------
(* Callbacks, by the stub's timer.                                         *)

Flush(f) == Take(f) /\ UNCHANGED adapter

Callback(f) ==
    /\ Deliver(f)
    /\ heard' = heard \cup {<<Head(flush[f]), record[Head(flush[f])].result>>}
    /\ UNCHANGED <<token, issued, call, told, lost>>

(* Payments may have taken the callback whose answer was an error.         *)
CallbackFails(f) ==
    /\ DeliverFails(f)
    /\ heard' \in {heard, heard \cup {<<Head(flush[f]), record[Head(flush[f])].result>>}}
    /\ lost' = lost \cup {flush[f][i] : i \in DOMAIN flush[f]}
    /\ UNCHANGED <<token, issued, call, told>>

Drill(p) == p \in Pushes /\ ResolveTimeout(p) /\ UNCHANGED adapter

(* A tick passes only while the timers of the requests in flight, and the  *)
(* bodies being read, allow it.                                            *)
Pass ==
    /\ Tick
    /\ \A c \in Calls :
          /\ IsWaiting(c) => clock - call[c].since < Timeout
          /\ call[c].pc = "body" => clock - call[c].since < Timeout + BodyTime
    /\ UNCHANGED adapter

Init ==
    /\ FakeInit
    /\ token = NoToken
    /\ issued = <<>>
    /\ call = [c \in Calls |-> Idle]
    /\ told = [c \in Calls |-> "none"]
    /\ heard = {}
    /\ lost = {}

Network ==
    \/ Revoke
    \/ \E c \in Calls : Issue(c) \/ TokenRefused(c) \/ Unauthorized(c)
    \/ \E p \in Payments : ServePayment(p) \/ TurnAway(p)
    \/ \E q \in Queries : ServeQuery(q)

Next ==
    \/ \E p \in Payments : Pay(p) \/ Drill(p)
    \/ \E q \in Queries : Ask(q)
    \/ \E c \in Calls : TakeToken(c) \/ TokenUnread(c) \/ Receive(c) \/ Abort(c)
    \/ Network
    \/ \E f \in Flushes : Flush(f) \/ Callback(f) \/ CallbackFails(f)
    \/ Pass

Spec == Init /\ [][Next]_vars

(* The event loop runs what is ready, timers run out, and the stub's timer *)
(* flushes; a delivery ends one way or the other.                          *)
Fairness ==
    /\ WF_vars(Pass)
    /\ \A c \in Calls : WF_vars(Abort(c)) /\ WF_vars(TakeToken(c) \/ TokenUnread(c))
    /\ \A f \in Flushes : WF_vars(Flush(f)) /\ WF_vars(Callback(f) \/ CallbackFails(f))

FairSpec == Spec /\ Fairness

-----------------------------------------------------------------------------
(* Properties.                                                             *)

(* "so a request never straddles expiry" (daraja.ts): a request its caller *)
(* still waits for is turned down for its token only if the token was      *)
(* revoked, whatever time its headers, its body and the request took.      *)
NeverStraddles ==
    \A c \in Calls : call[c].pc = "post" /\ call[c].reply = "401" => issued[call[c].token].revoked

(* One retry is enough for one lost token: calls that share the cache, and *)
(* refresh it at the same time, do not hand each other the dead one, so a  *)
(* call fails as unauthorized only when two tokens were revoked.           *)
RetrySuffices ==
    (\E c \in Calls : call[c].pc = "post" /\ call[c].retry /\ call[c].reply = "401")
        => Cardinality({n \in DOMAIN issued : issued[n].revoked}) >= 2

(* A payment whose callback falls due is reported, or a flush that had its *)
(* callback failed: it does not stay queued, nor does it vanish when it is *)
(* queued while flushes that took others, or HTTP calls, are under way.    *)
CallbacksLand ==
    \A p \in Payments :
        (\E i \in DOMAIN pending : pending[i] = p /\ record[p].due <= MaxClock)
            ~> (p \in delivered \cup lost)

(* Every call is answered in the end, also when Daraja never answers: the  *)
(* timeout bounds the fetch of the token and the request alike.            *)
EveryCallAnswered == \A c \in Calls : call[c].pc # "idle" ~> told[c] # "none"

-----------------------------------------------------------------------------
(* What Payments relies on (Mpesa): what the caller could take from each   *)
(* answer, and what customers did.                                         *)

(* "A definite answer: nothing was initiated" (adapter.ts), but a rejection *)
(* of undefined code ("blank") warrants nothing: the payment may be made.  *)
AsAnswer(answer) == IF answer \in {"none", "ack", "rejected"} THEN answer ELSE "unknown"

M == INSTANCE Mpesa WITH
        made <- {p \in Payments : record[p] # NoRecord},
        told <- [p \in Payments |-> AsAnswer(told[p])],
        outcome <- [p \in Payments |-> IF HasActed(p) THEN record[p].result ELSE "none"]

(* The adapter and its M-Pesa keep the promises of Mpesa: in particular a  *)
(* call refused in so many words was not and will never be initiated, not  *)
(* even by the request of a call that gave up.  An answer without its body *)
(* is the one exception.                                                   *)
ImplementsMpesa == M!Spec
=============================================================================
