-------------------------- MODULE DarajaAdapterProofs --------------------------
(***************************************************************************)
(* Theorems about DarajaAdapter, for every set of calls, every lifetime of *)
(* a token and every timeout that leave the adapter its margin.            *)
(***************************************************************************)
EXTENDS DarajaAdapter, FiniteSetTheorems, WellFoundedInduction, SequenceTheorems,
        TLAPS

Replies == {"none", "401", "ack", "refused", "pending", "paid", "declined"} \cup Accidents

Answered == {"ack", "rejected", "blank", "unknown", "failed", "answered"}

CallState == [pc: {"idle", "get", "body", "post", "late", "done"},
              amount: Nat, of: Pushes \cup {"none"}, token: Nat, since: Nat,
              retry: BOOLEAN, reply: Replies]

Records == [scenario: {"none"} \cup {Scenarios[i] : i \in DOMAIN Scenarios},
            result: {"none", "paid", "declined"}, due: Nat]

(* A call that asks Daraja has something to ask of it.                     *)
CallsOK ==
    /\ call \in [Calls -> CallState]
    /\ \A q \in Queries : call[q].pc \notin {"idle", "done"} => call[q].of \in Pushes

TypeOK ==
    /\ clock \in Nat
    /\ token \in [number: Nat, expires: Nat]
    /\ issued \in Seq([expires: Nat, revoked: BOOLEAN])
    /\ CallsOK
    /\ record \in [Payments -> Records]

-----------------------------------------------------------------------------
(* What the calls and the cache know of the tokens.                        *)

(* Some other token than that of call c has been revoked.                  *)
AnotherRevoked(c) == \E n \in DOMAIN issued : n # call[c].token /\ issued[n].revoked

(* A call in flight is younger than its timeout; its token outlives it; and*)
(* it repeats a request only after a token was lost.                       *)
CallInv(c) ==
    /\ call[c].since <= clock
    /\ IsWaiting(c) => clock <= call[c].since + Timeout
    /\ call[c].pc = "body" =>
          /\ clock <= call[c].since + Timeout + BodyTime
          /\ call[c].token \in DOMAIN issued
          /\ issued[call[c].token].expires >= call[c].since + TTL
    /\ call[c].pc = "post" =>
          /\ call[c].token \in DOMAIN issued
          /\ issued[call[c].token].expires > call[c].since + Timeout
          /\ call[c].reply = "401" => issued[call[c].token].revoked
    /\ call[c].pc \in {"get", "body"} => call[c].reply = "none"
    /\ call[c].retry /\ call[c].pc \in {"get", "body", "post"} => AnotherRevoked(c)

(* The cache never promises more of a token than Daraja does.              *)
CacheInv ==
    token.number # 0 =>
        /\ token.number \in DOMAIN issued
        /\ token.expires <= issued[token.number].expires

TokenInv == CacheInv /\ \A c \in Calls : CallInv(c)

-----------------------------------------------------------------------------

LEMMA Constants ==
    /\ TTL \in Nat /\ Margin \in Nat /\ Timeout \in Nat /\ BodyTime \in Nat /\ Delay \in Nat
    /\ Timeout > 0 /\ Timeout <= Margin /\ Margin < TTL /\ 2 * Timeout + BodyTime < TTL
    /\ Pushes \subseteq Payments /\ Queries \cap Payments = {} /\ Amounts \subseteq Nat
BY AdapterAssumption, FakeAssumption

(* The amount decides on one of the six scenarios.                         *)
LEMMA ScenarioIsOne ==
    ASSUME NEW kes \in Nat
    PROVE  ScenarioFor(kes) \in {Scenarios[i] : i \in DOMAIN Scenarios}
<1>1. kes % 100 \in 0..99
  OBVIOUS
<1>2. CASE kes % 100 <= 5
  <2>1. (kes % 100) + 1 \in DOMAIN Scenarios
    BY <1>1, <1>2 DEF Scenarios
  <2> QED BY <1>2, <2>1 DEF ScenarioFor
<1>3. CASE ~(kes % 100 <= 5)
  <2>1. ScenarioFor(kes) = Scenarios[1] /\ 1 \in DOMAIN Scenarios
    BY <1>3 DEF ScenarioFor, Scenarios
  <2> QED BY <2>1
<1> QED BY <1>2, <1>3

LEMMA ResultType == \A x : ResultOf(x) \in {"none", "paid", "declined"}
BY DEF ResultOf

(* What Requesting makes of a call.                                        *)
LEMMA RequestState ==
    ASSUME NEW x \in CallState, NEW pc \in {"get", "post"}, NEW n \in Nat, NEW retry \in BOOLEAN,
           clock \in Nat
    PROVE  LET y == Requesting(x, pc, n, retry) IN
           /\ y \in CallState
           /\ y.pc = pc /\ y.token = n /\ y.retry = retry /\ y.since = clock /\ y.reply = "none"
           /\ y.of = x.of
BY DEF Requesting, CallState, Replies, Accidents

LEMMA AccessTokenState ==
    ASSUME NEW x \in CallState, NEW retry \in BOOLEAN, TypeOK
    PROVE  LET y == AccessToken(x, retry) IN
           /\ y \in CallState
           /\ y.retry = retry /\ y.since = clock /\ y.reply = "none" /\ y.of = x.of
           /\ \/ y.pc = "get" /\ y.token = 0
              \/ y.pc = "post" /\ y.token = token.number /\ IsFresh /\ ~retry
<1>1. token.number \in Nat /\ clock \in Nat
  BY DEF TypeOK
<1>2. CASE ~retry /\ IsFresh
  <2>1. PICK n \in Nat : n = token.number
    BY <1>1
  <2>2. AccessToken(x, retry) = Requesting(x, "post", n, retry)
    BY <1>2, <2>1 DEF AccessToken
  <2>3. LET y == Requesting(x, "post", n, retry) IN
        /\ y \in CallState
        /\ y.pc = "post" /\ y.token = n /\ y.retry = retry /\ y.since = clock
        /\ y.reply = "none" /\ y.of = x.of
    BY <1>1, RequestState
  <2> QED BY <1>2, <2>1, <2>2, <2>3
<1>3. CASE ~(~retry /\ IsFresh)
  <2>1. AccessToken(x, retry) = Requesting(x, "get", 0, retry)
    BY <1>3 DEF AccessToken
  <2>2. LET y == Requesting(x, "get", 0, retry) IN
        /\ y \in CallState
        /\ y.pc = "get" /\ y.token = 0 /\ y.retry = retry /\ y.since = clock
        /\ y.reply = "none" /\ y.of = x.of
    BY <1>1, RequestState
  <2> QED BY <1>1, <2>1, <2>2
<1> QED BY <1>2, <1>3

LEMMA DoneState == Done \in CallState /\ Done.pc = "done" /\ Idle \in CallState /\ Idle.pc = "idle"
BY DEF Done, Idle, CallState, Replies, Accidents

-----------------------------------------------------------------------------
(* Types.                                                                  *)

LEMMA InitTypeOK == Init => TypeOK
BY DoneState DEF Init, FakeInit, TypeOK, CallsOK, NoToken, NoRecord, Records, Calls

(* A call goes on to state x.                                              *)
LEMMA CallUpdate ==
    ASSUME CallsOK, NEW c \in Calls, NEW x \in CallState, call' = [call EXCEPT ![c] = x],
           c \in Queries /\ x.pc \notin {"idle", "done"} => x.of \in Pushes
    PROVE  CallsOK'
BY DEF CallsOK, Calls

LEMMA FinishType ==
    ASSUME CallsOK, NEW c \in Calls, NEW answer, Finish(c, answer)
    PROVE  CallsOK'
BY CallUpdate, DoneState DEF Finish

LEMMA ReplyType ==
    ASSUME CallsOK, NEW c \in Calls, NEW reply \in Replies, Reply(c, reply)
    PROVE  CallsOK'
<1> DEFINE x == [call[c] EXCEPT !.reply = reply]
<1>1. x \in CallState /\ x.of = call[c].of /\ x.pc = call[c].pc
  BY DEF CallsOK, CallState
<1>2. call' = [call EXCEPT ![c] = x]
  BY DEF Reply, CallsOK
<1>3. c \in Queries /\ x.pc \notin {"idle", "done"} => x.of \in Pushes
  BY <1>1 DEF CallsOK
<1> HIDE DEF x
<1> QED BY <1>1, <1>2, <1>3, CallUpdate

LEMMA NextTypeOK == ASSUME TypeOK, [Next]_vars PROVE TypeOK'
<1> USE DEF TypeOK
<1>1. \A p \in Payments : p \in Calls /\ p \notin Queries
  BY Constants DEF Calls
<1>2. \A q \in Queries : q \in Calls
  BY DEF Calls
<1>3. ASSUME NEW c \in Calls, Issue(c) PROVE TypeOK'
  <2>1. issued' \in Seq([expires: Nat, revoked: BOOLEAN]) /\ Len(issued) + 1 \in Nat
    BY <1>3, Constants DEF Issue
  <2> DEFINE x == [call[c] EXCEPT !.pc = "body", !.token = Len(issued) + 1]
  <2>2. x \in CallState /\ x.of = call[c].of
    BY <2>1 DEF CallsOK, CallState
  <2>3. call' = [call EXCEPT ![c] = x] /\ call[c].pc = "get"
    BY <1>3 DEF Issue, CallsOK
  <2>4. c \in Queries /\ x.pc \notin {"idle", "done"} => x.of \in Pushes
    BY <2>2, <2>3 DEF CallsOK
  <2> HIDE DEF x
  <2>5. CallsOK'
    BY <2>2, <2>3, <2>4, CallUpdate
  <2> QED BY <1>3, <2>1, <2>5 DEF Issue, fake
<1>4. ASSUME NEW c \in Calls, TakeToken(c) PROVE TypeOK'
  <2>1. token' \in [number: Nat, expires: Nat]
    BY <1>4, Constants DEF TakeToken, Expiry, CallsOK, CallState
  <2> DEFINE x == [call[c] EXCEPT !.pc = "post", !.since = clock]
  <2>2. x \in CallState /\ x.of = call[c].of
    BY DEF CallsOK, CallState
  <2>3. call' = [call EXCEPT ![c] = x] /\ call[c].pc = "body"
    BY <1>4 DEF TakeToken, CallsOK
  <2>4. c \in Queries /\ x.pc \notin {"idle", "done"} => x.of \in Pushes
    BY <2>2, <2>3 DEF CallsOK
  <2> HIDE DEF x
  <2>5. CallsOK'
    BY <2>2, <2>3, <2>4, CallUpdate
  <2> QED BY <1>4, <2>1, <2>5 DEF TakeToken, fake
<1>5. ASSUME NEW c \in Calls, TokenRefused(c) \/ TokenUnread(c) PROVE TypeOK'
  BY <1>5, FinishType DEF TokenRefused, TokenUnread, fake
<1>6. CASE Revoke
  <2>1. issued' \in Seq([expires: Nat, revoked: BOOLEAN])
    <3>1. PICK n \in DOMAIN issued : issued' = [issued EXCEPT ![n].revoked = TRUE]
      BY <1>6 DEF Revoke
    <3>9. n \in 1..Len(issued)
      BY LenProperties
    <3>2. issued' = [issued EXCEPT ![n] = [issued[n] EXCEPT !.revoked = TRUE]]
      BY <3>1
    <3>3. issued[n] \in [expires: Nat, revoked: BOOLEAN]
      BY <3>9, ElementOfSeq
    <3>4. [issued[n] EXCEPT !.revoked = TRUE] \in [expires: Nat, revoked: BOOLEAN]
      BY <3>3
    <3> QED BY <3>2, <3>4
  <2> QED BY <1>6, <2>1 DEF Revoke, fake, CallsOK
<1>7. ASSUME NEW p \in Payments, Pay(p) PROVE TypeOK'
  <2>1. CASE \E amount \in Amounts :
               call' = [call EXCEPT ![p] = AccessToken([@ EXCEPT !.amount = amount], FALSE)]
    <3>1. PICK amount \in Amounts :
             call' = [call EXCEPT ![p] = AccessToken([call[p] EXCEPT !.amount = amount], FALSE)]
      BY <1>1, <2>1 DEF CallsOK
    <3>2. [call[p] EXCEPT !.amount = amount] \in CallState
      <4>1. amount \in Nat /\ call[p] \in CallState
        BY <1>1, Constants DEF CallsOK
      <4> QED BY <4>1 DEF CallState
    <3>3. AccessToken([call[p] EXCEPT !.amount = amount], FALSE) \in CallState
      BY <3>2, AccessTokenState
    <3>4. CallsOK'
      BY <1>1, <3>1, <3>3, CallUpdate
    <3> QED BY <1>7, <3>4 DEF Pay, fake
  <2>2. CASE Finish(p, "failed")
    <3>1. CallsOK'
      BY <1>1, <2>2, FinishType
    <3> QED BY <1>7, <3>1 DEF Pay, fake
  <2> QED BY <1>7, <2>1, <2>2 DEF Pay
<1>8. ASSUME NEW q \in Queries, Ask(q) PROVE TypeOK'
  <2>1. PICK p \in Pushes :
           call' = [call EXCEPT ![q] = AccessToken([call[q] EXCEPT !.of = p], FALSE)]
    BY <1>2, <1>8 DEF Ask, CallsOK
  <2>2. [call[q] EXCEPT !.of = p] \in CallState /\ [call[q] EXCEPT !.of = p].of = p
    BY <1>2 DEF CallsOK, CallState
  <2>3. /\ AccessToken([call[q] EXCEPT !.of = p], FALSE) \in CallState
        /\ AccessToken([call[q] EXCEPT !.of = p], FALSE).of = p
    BY <2>2, AccessTokenState
  <2>4. CallsOK'
    BY <1>2, <2>1, <2>3, CallUpdate
  <2> QED BY <1>8, <2>4 DEF Ask, fake
<1>9. ASSUME NEW c \in Calls, Unauthorized(c) PROVE TypeOK'
  <2>1. CallsOK'
    BY <1>9, ReplyType DEF Unauthorized, Replies, Accidents
  <2> QED BY <1>9, <2>1 DEF Unauthorized, fake
<1>10. ASSUME NEW p \in Payments, ServePayment(p) PROVE TypeOK'
  <2>1. CallsOK'
    <3>1. CASE call' = call
      BY <3>1 DEF CallsOK
    <3>2. CASE \E reply \in {"ack"} \cup Accidents : Reply(p, reply)
      BY <1>1, <3>2, ReplyType DEF Replies, Accidents
    <3> QED BY <1>10, <3>1, <3>2 DEF ServePayment
  <2>2. record' \in [Payments -> Records]
    <3>1. MinorToKes(call[p].amount) \in Nat
      BY <1>1 DEF MinorToKes, CallsOK, CallState
    <3> DEFINE s == ScenarioFor(MinorToKes(call[p].amount))
    <3>2. s \in {Scenarios[i] : i \in DOMAIN Scenarios} /\ DueOf(s) \in Nat
      BY <3>1, ScenarioIsOne, Constants DEF DueOf
    <3>3. record' = [record EXCEPT ![p] =
                        [scenario |-> s, result |-> ResultOf(s), due |-> DueOf(s)]]
      BY <1>10 DEF ServePayment, Initiate
    <3> HIDE DEF s
    <3>4. [scenario |-> s, result |-> ResultOf(s), due |-> DueOf(s)] \in Records
      BY <3>2, ResultType DEF Records
    <3> QED BY <3>3, <3>4
  <2> QED BY <1>10, <2>1, <2>2 DEF ServePayment
<1>11. ASSUME NEW p \in Payments, TurnAway(p) PROVE TypeOK'
  <2>1. CallsOK'
    BY <1>1, <1>11, ReplyType DEF TurnAway, Replies, Accidents
  <2> QED BY <1>11, <2>1 DEF TurnAway, fake
<1>12. ASSUME NEW q \in Queries, ServeQuery(q) PROVE TypeOK'
  <2>1. CASE Reply(q, StkQuery(call[q].of))
    <3>1. call[q].of \in Payments
      BY <1>12, Constants DEF ServeQuery, InFlight, CallsOK
    <3>2. record[call[q].of].result \in {"none", "paid", "declined"}
      BY <3>1 DEF Records
    <3>3. StkQuery(call[q].of) \in Replies
      BY <3>2 DEF StkQuery, HasActed, Replies, Accidents
    <3>4. CallsOK'
      BY <1>2, <2>1, <3>3, ReplyType
    <3> QED BY <1>12, <3>4 DEF ServeQuery, fake
  <2>2. CASE \E reply \in {"refused"} \cup Accidents : Reply(q, reply)
    <3>1. CallsOK'
      BY <1>2, <2>2, ReplyType DEF Replies, Accidents
    <3> QED BY <1>12, <3>1 DEF ServeQuery, fake
  <2> QED BY <1>12, <2>1, <2>2 DEF ServeQuery
<1>13. ASSUME NEW c \in Calls, Receive(c) PROVE TypeOK'
  <2>1. CASE Finish(c, AnswerTo(call[c].reply))
    <3>1. CallsOK'
      BY <2>1, FinishType
    <3> QED BY <1>13, <3>1 DEF Receive, fake
  <2>2. CASE Finish(c, "failed")
    <3>1. CallsOK'
      BY <2>2, FinishType
    <3> QED BY <1>13, <3>1 DEF Receive, fake
  <2>3. CASE call' = [call EXCEPT ![c] = AccessToken(call[c], TRUE)]
    <3>1. call[c] \in CallState
      BY DEF CallsOK
    <3>2. /\ AccessToken(call[c], TRUE) \in CallState
          /\ AccessToken(call[c], TRUE).of = call[c].of
      BY <3>1, AccessTokenState
    <3>3. c \in Queries => call[c].of \in Pushes
      BY <1>13 DEF Receive, CallsOK
    <3>4. CallsOK'
      BY <2>3, <3>2, <3>3, CallUpdate
    <3> QED BY <1>13, <3>4 DEF Receive, fake
  <2> QED BY <1>13, <2>1, <2>2, <2>3 DEF Receive
<1>14. ASSUME NEW c \in Calls, Abort(c) PROVE TypeOK'
  <2> DEFINE x == IF InFlight(c) /\ c \in Payments
                  THEN [call[c] EXCEPT !.pc = "late", !.since = 0, !.retry = FALSE]
                  ELSE Done
  <2>1. call' = [call EXCEPT ![c] = x]
    BY <1>14 DEF Abort, CallsOK
  <2>2. x \in CallState /\ (c \in Queries => x.pc = "done")
    <3>1. CASE InFlight(c) /\ c \in Payments
      BY <1>1, <3>1 DEF CallsOK, CallState
    <3>2. CASE ~(InFlight(c) /\ c \in Payments)
      BY <3>2, DoneState
    <3> QED BY <3>1, <3>2
  <2> HIDE DEF x
  <2>3. CallsOK'
    BY <2>1, <2>2, CallUpdate
  <2> QED BY <1>14, <2>3 DEF Abort, fake
<1>15. ASSUME NEW f \in Flushes, Flush(f) \/ Callback(f) \/ CallbackFails(f) PROVE TypeOK'
  BY <1>15 DEF Flush, Callback, CallbackFails, Take, Deliver, DeliverFails, adapter, CallsOK
<1>16. ASSUME NEW p \in Payments, Drill(p) PROVE TypeOK'
  <2>1. PICK result \in {"paid", "declined"} :
           record' = [record EXCEPT ![p].result = result, ![p].due = clock]
    BY <1>16 DEF Drill, ResolveTimeout
  <2>2. record' = [record EXCEPT ![p] = [record[p] EXCEPT !.result = result, !.due = clock]]
    BY <2>1
  <2>3. [record[p] EXCEPT !.result = result, !.due = clock] \in Records
    BY DEF Records
  <2>4. record' \in [Payments -> Records]
    BY <2>2, <2>3
  <2> QED BY <1>16, <2>4 DEF Drill, ResolveTimeout, adapter, CallsOK
<1>17. CASE Pass
  BY <1>17 DEF Pass, Tick, fake, adapter, CallsOK
<1>18. CASE UNCHANGED vars
  BY <1>18 DEF vars, fake, adapter, CallsOK
<1> QED BY <1>3, <1>4, <1>5, <1>6, <1>7, <1>8, <1>9, <1>10, <1>11, <1>12, <1>13, <1>14, <1>15,
           <1>16, <1>17, <1>18 DEF Next, Network

THEOREM AdapterTypeCorrect == Spec => []TypeOK
BY InitTypeOK, NextTypeOK, PTL DEF Spec

-----------------------------------------------------------------------------
(* Tokens.                                                                 *)

(* No token lives longer for what happens later, or comes back to life.    *)
Grows ==
    /\ DOMAIN issued \subseteq DOMAIN issued'
    /\ \A n \in DOMAIN issued :
          /\ issued'[n].expires = issued[n].expires
          /\ issued[n].revoked => issued'[n].revoked

LEMMA TokenType == ASSUME TypeOK, NEW n \in DOMAIN issued PROVE issued[n].expires \in Nat
<1>1. issued \in Seq([expires: Nat, revoked: BOOLEAN])
  BY DEF TypeOK
<1>2. n \in 1..Len(issued)
  BY <1>1, LenProperties
<1>3. issued[n] \in [expires: Nat, revoked: BOOLEAN]
  BY <1>1, <1>2, ElementOfSeq
<1> QED BY <1>3

LEMMA IssueGrows ==
    ASSUME TypeOK, NEW c \in Calls, Issue(c)
    PROVE  /\ Grows
           /\ Len(issued) + 1 \in DOMAIN issued' /\ Len(issued) + 1 \notin DOMAIN issued
           /\ issued'[Len(issued) + 1].expires = clock + TTL
<1>1. issued' = Append(issued, [expires |-> clock + TTL, revoked |-> FALSE])
  BY DEF Issue
<1>2. [expires |-> clock + TTL, revoked |-> FALSE] \in [expires: Nat, revoked: BOOLEAN]
  BY Constants DEF TypeOK
<1>3. issued \in Seq([expires: Nat, revoked: BOOLEAN])
  BY DEF TypeOK
<1>4. DOMAIN issued = 1..Len(issued) /\ Len(issued) \in Nat
  BY <1>3, LenProperties
<1>5. /\ DOMAIN issued' = 1..(Len(issued) + 1)
      /\ \A n \in 1..Len(issued) : issued'[n] = issued[n]
      /\ issued'[Len(issued) + 1] = [expires |-> clock + TTL, revoked |-> FALSE]
  BY <1>1, <1>2, <1>3, <1>4, AppendProperties
<1> QED BY <1>4, <1>5 DEF Grows

LEMMA NextGrows == ASSUME TypeOK, [Next]_vars PROVE Grows
<1>1. CASE issued' = issued
  BY <1>1 DEF Grows
<1>2. CASE Revoke
  <2>1. PICK n \in DOMAIN issued : issued' = [issued EXCEPT ![n].revoked = TRUE]
    BY <1>2 DEF Revoke
  <2>2. DOMAIN issued' = DOMAIN issued
    BY <2>1
  <2>3. \A i \in DOMAIN issued : issued[i] \in [expires: Nat, revoked: BOOLEAN]
    BY LenProperties, ElementOfSeq DEF TypeOK
  <2>4. \A i \in DOMAIN issued :
           issued'[i] = IF i = n THEN [issued[i] EXCEPT !.revoked = TRUE] ELSE issued[i]
    BY <2>1
  <2> QED BY <2>2, <2>3, <2>4 DEF Grows
<1>3. CASE \E c \in Calls : Issue(c)
  BY <1>3, IssueGrows
<1>4. issued' = issued \/ Revoke \/ \E c \in Calls : Issue(c)
  BY DEF Next, Network, Pay, Drill, ResolveTimeout, Ask, TakeToken, TokenUnread, TokenRefused,
         Unauthorized, ServePayment, TurnAway, ServeQuery, Receive, Abort, Flush, Callback,
         CallbackFails, Pass, adapter, vars
<1> QED BY <1>1, <1>2, <1>3, <1>4

(* A call that does not move keeps what it knows, up to the time its timer *)
(* allows.                                                                 *)
LEMMA CallRests ==
    ASSUME TypeOK, Grows, NEW c \in Calls, CallInv(c), call'[c] = call[c],
           \/ clock' = clock
           \/ /\ clock' = clock + 1
              /\ IsWaiting(c) => clock - call[c].since < Timeout
              /\ call[c].pc = "body" => clock - call[c].since < Timeout + BodyTime
    PROVE  CallInv(c)'
<1> DEFINE x == call[c]
<1>1. /\ x \in CallState /\ x.since \in Nat /\ clock \in Nat
      /\ Timeout \in Nat /\ BodyTime \in Nat /\ TTL \in Nat
  BY Constants DEF TypeOK, CallsOK, CallState
<1>2. AnotherRevoked(c) => AnotherRevoked(c)'
  BY DEF AnotherRevoked, Grows
<1>3. x.token \in DOMAIN issued =>
         /\ x.token \in DOMAIN issued' /\ issued'[x.token].expires = issued[x.token].expires
         /\ issued[x.token].revoked => issued'[x.token].revoked
  BY DEF Grows
<1>4. x.since <= clock'
  BY <1>1 DEF CallInv
<1>5. x.pc \in {"get", "post"} => clock' <= x.since + Timeout
  BY <1>1 DEF CallInv, IsWaiting
<1>6. x.pc = "body" => clock' <= x.since + Timeout + BodyTime
  BY <1>1 DEF CallInv
<1>7. x.pc = "post" =>
          /\ x.token \in DOMAIN issued'
          /\ issued'[x.token].expires > x.since + Timeout
          /\ x.reply = "401" => issued'[x.token].revoked
  BY <1>3 DEF CallInv
<1>8. x.pc = "body" =>
          /\ x.token \in DOMAIN issued'
          /\ issued'[x.token].expires >= x.since + TTL
  BY <1>3 DEF CallInv
<1>9. x.retry /\ x.pc \in {"get", "body", "post"} => AnotherRevoked(c)'
  BY <1>2 DEF CallInv
<1>10. call'[c] = x
  OBVIOUS
<1>11. x.pc \in {"get", "body"} => x.reply = "none"
  BY DEF CallInv
<1> HIDE DEF x
<1> QED BY <1>4, <1>5, <1>6, <1>7, <1>8, <1>9, <1>10, <1>11 DEF CallInv, IsWaiting

(* A call that has just turned to Daraja.                                  *)
LEMMA CallAsks ==
    ASSUME TypeOK, CacheInv, NEW c \in Calls, NEW x \in CallState, NEW retry \in BOOLEAN,
           call' = [call EXCEPT ![c] = AccessToken(x, retry)], UNCHANGED <<clock, issued>>,
           retry => \E n \in DOMAIN issued : issued[n].revoked,
           0 \notin DOMAIN issued
    PROVE  CallInv(c)'
<1> DEFINE y == AccessToken(x, retry)
<1>1. /\ y \in CallState /\ y.retry = retry /\ y.since = clock /\ y.reply = "none"
      /\ \/ y.pc = "get" /\ y.token = 0
         \/ y.pc = "post" /\ y.token = token.number /\ IsFresh /\ ~retry
  BY AccessTokenState
<1>2. call'[c] = y
  BY DEF TypeOK, CallsOK
<1>3. clock \in Nat /\ Timeout \in Nat /\ clock' = clock
  BY Constants DEF TypeOK
<1> HIDE DEF y
<1>4. clock <= y.since + Timeout
  BY <1>1, <1>3
<1>5. y.pc = "post" =>
         /\ y.token \in DOMAIN issued
         /\ issued[y.token].expires > y.since + Timeout
  <2> SUFFICES ASSUME y.pc = "post"
               PROVE  /\ y.token \in DOMAIN issued
                      /\ issued[y.token].expires > y.since + Timeout
    OBVIOUS
  <2>1. y.token = token.number /\ token.number # 0 /\ clock < token.expires - Margin
    BY <1>1 DEF IsFresh
  <2>2. token.number \in DOMAIN issued /\ token.expires <= issued[token.number].expires
    BY <2>1 DEF CacheInv
  <2>3. issued[token.number].expires \in Nat /\ token.expires \in Nat /\ Margin \in Nat /\ Timeout <= Margin
    BY <2>2, TokenType, Constants DEF TypeOK
  <2>4. y.since = clock
    BY <1>1
  <2>5. issued[token.number].expires > clock + Timeout
    BY <1>3, <2>1, <2>2, <2>3
  <2> QED BY <2>1, <2>2, <2>4, <2>5
<1>6. y.retry => \E n \in DOMAIN issued : n # y.token /\ issued[n].revoked
  BY <1>1
<1>7. y.pc # "body" /\ y.since <= clock /\ y.reply = "none"
  BY <1>1, <1>3
<1> QED BY <1>2, <1>3, <1>4, <1>5, <1>6, <1>7 DEF CallInv, IsWaiting, AnotherRevoked

LEMMA CallRestsDone ==
    ASSUME TypeOK, NEW c \in Calls, call'[c].pc \in {"done", "late"}, call'[c].since = 0,
           clock' = clock
    PROVE  CallInv(c)'
BY DEF CallInv, IsWaiting, TypeOK

LEMMA NextTokenInv == ASSUME TypeOK, TokenInv, [Next]_vars PROVE TokenInv'
<1>1. Grows /\ (\A c \in Calls : CallInv(c)) /\ CacheInv
  BY NextGrows DEF TokenInv
<1>2. /\ \A c \in Calls : call[c] \in CallState
      /\ 0 \notin DOMAIN issued
      /\ Payments \subseteq Calls /\ Queries \subseteq Calls
  <2>1. DOMAIN issued = 1..Len(issued)
    BY LenProperties DEF TypeOK
  <2> QED BY <2>1 DEF TypeOK, CallsOK, Calls
<1>3. ASSUME UNCHANGED <<token, clock>>, NEW c \in Calls, CallInv(c)',
             \A e \in Calls \ {c} : call'[e] = call[e]
      PROVE  TokenInv'
  <2>1. CacheInv'
    BY <1>1, <1>3 DEF CacheInv, Grows
  <2>2. \A e \in Calls : CallInv(e)'
    BY <1>1, <1>3, CallRests
  <2> QED BY <2>1, <2>2 DEF TokenInv
<1>4. ASSUME UNCHANGED <<token, call, clock>> PROVE TokenInv'
  <2>1. CacheInv'
    BY <1>1, <1>4 DEF CacheInv, Grows
  <2>2. \A e \in Calls : CallInv(e)'
    BY <1>1, <1>4, CallRests
  <2> QED BY <2>1, <2>2 DEF TokenInv
<1>5. ASSUME NEW c \in Calls, NEW answer, Finish(c, answer), UNCHANGED <<token, clock>>
      PROVE  TokenInv'
  <2>1. /\ call'[c].pc = "done" /\ call'[c].since = 0
        /\ \A e \in Calls \ {c} : call'[e] = call[e]
    BY <1>5 DEF Finish, Done, Idle, TypeOK, CallsOK
  <2>2. CallInv(c)'
    BY <1>5, <2>1, CallRestsDone
  <2> QED BY <1>3, <1>5, <2>1, <2>2
<1>6. ASSUME NEW c \in Calls, NEW x \in CallState, NEW retry \in BOOLEAN,
             call' = [call EXCEPT ![c] = AccessToken(x, retry)], UNCHANGED <<clock, issued, token>>,
             retry => \E n \in DOMAIN issued : issued[n].revoked
      PROVE  TokenInv'
  <2>1. CallInv(c)'
    BY <1>1, <1>2, <1>6, CallAsks
  <2>2. \A e \in Calls \ {c} : call'[e] = call[e]
    BY <1>6 DEF TypeOK, CallsOK
  <2> QED BY <1>3, <1>6, <2>1, <2>2
<1>7. ASSUME NEW c \in Calls, Issue(c) PROVE TokenInv'
  <2>1. /\ Len(issued) + 1 \in DOMAIN issued' /\ Len(issued) + 1 \notin DOMAIN issued
        /\ issued'[Len(issued) + 1].expires = clock + TTL
    BY <1>7, IssueGrows
  <2>2. /\ call[c].pc = "get" /\ UNCHANGED <<token, clock>>
        /\ call' = [call EXCEPT ![c].pc = "body", ![c].token = Len(issued) + 1]
    BY <1>7 DEF Issue
  <2>3. /\ call'[c].pc = "body" /\ call'[c].token = Len(issued) + 1
        /\ call'[c].since = call[c].since /\ call'[c].retry = call[c].retry
        /\ call'[c].reply = call[c].reply
        /\ \A e \in Calls \ {c} : call'[e] = call[e]
    BY <1>2, <2>2 DEF CallState, TypeOK, CallsOK
  <2>4. call[c].since \in Nat /\ clock \in Nat /\ TTL \in Nat /\ Timeout \in Nat /\ BodyTime \in Nat
    BY <1>2, Constants DEF CallState, TypeOK
  <2>5. call[c].since <= clock /\ clock <= call[c].since + Timeout
    BY <1>1, <2>2 DEF CallInv, IsWaiting
  <2>6. call[c].retry => \E n \in DOMAIN issued' : n # Len(issued) + 1 /\ issued'[n].revoked
    BY <1>1, <2>1, <2>2 DEF CallInv, AnotherRevoked, Grows
  <2>7. clock + TTL >= call[c].since + TTL /\ clock <= call[c].since + Timeout + BodyTime
    BY <2>4, <2>5
  <2>8. call[c].reply = "none"
    BY <1>1, <2>2 DEF CallInv
  <2>9. CallInv(c)'
    BY <2>1, <2>2, <2>3, <2>5, <2>6, <2>7, <2>8 DEF CallInv, IsWaiting, AnotherRevoked
  <2> QED BY <1>3, <2>2, <2>3, <2>9
<1>8. ASSUME NEW c \in Calls, TakeToken(c) PROVE TokenInv'
  <2>1. /\ call[c].pc = "body" /\ UNCHANGED <<clock, issued>>
        /\ call' = [call EXCEPT ![c].pc = "post", ![c].since = clock]
        /\ token' = [number |-> call[c].token, expires |-> call[c].since + TTL]
    BY <1>8 DEF TakeToken, Expiry
  <2>2. /\ call'[c].pc = "post" /\ call'[c].token = call[c].token
        /\ call'[c].since = clock /\ call'[c].retry = call[c].retry
        /\ call'[c].reply = call[c].reply
        /\ \A e \in Calls \ {c} : call'[e] = call[e]
    BY <1>2, <2>1 DEF CallState, TypeOK, CallsOK
  <2>3. /\ clock <= call[c].since + Timeout + BodyTime
        /\ call[c].token \in DOMAIN issued
        /\ issued[call[c].token].expires >= call[c].since + TTL
    BY <1>1, <2>1 DEF CallInv
  <2>4. /\ call[c].since \in Nat /\ clock \in Nat /\ TTL \in Nat /\ Timeout \in Nat /\ BodyTime \in Nat
        /\ 2 * Timeout + BodyTime < TTL
    BY <1>2, Constants DEF CallState, TypeOK
  <2>5. issued[call[c].token].expires \in Nat
    BY <2>3, TokenType
  <2>6. issued[call[c].token].expires > clock + Timeout /\ clock <= clock + Timeout
    BY <2>3, <2>4, <2>5
  <2>7. call[c].reply # "401"
    BY <1>1, <2>1 DEF CallInv
  <2>8. CacheInv'
    BY <2>1, <2>3 DEF CacheInv
  <2>9. CallInv(c)'
    <3>1. call[c].retry => AnotherRevoked(c)
      BY <1>1, <2>1 DEF CallInv
    <3>2. clock' = clock /\ issued' = issued
      BY <2>1
    <3>3. call'[c].retry => AnotherRevoked(c)'
      BY <2>2, <3>1, <3>2 DEF AnotherRevoked
    <3> QED BY <2>2, <2>3, <2>4, <2>6, <2>7, <3>2, <3>3 DEF CallInv, IsWaiting
  <2>10. \A e \in Calls : CallInv(e)'
    BY <1>1, <2>1, <2>2, <2>9, CallRests
  <2> QED BY <2>8, <2>10 DEF TokenInv
<1>9. ASSUME NEW c \in Calls, TokenRefused(c) \/ TokenUnread(c) PROVE TokenInv'
  BY <1>5, <1>9 DEF TokenRefused, TokenUnread
<1>10. CASE Revoke
  BY <1>4, <1>10 DEF Revoke
<1>11. ASSUME NEW p \in Payments, Pay(p) PROVE TokenInv'
  <2>1. UNCHANGED <<clock, issued, token>> /\ p \in Calls
    BY <1>2, <1>11 DEF Pay
  <2>2. CASE \E amount \in Amounts :
               call' = [call EXCEPT ![p] = AccessToken([@ EXCEPT !.amount = amount], FALSE)]
    <3>1. PICK amount \in Amounts :
             call' = [call EXCEPT ![p] = AccessToken([call[p] EXCEPT !.amount = amount], FALSE)]
      BY <2>1, <2>2 DEF TypeOK, CallsOK
    <3>2. [call[p] EXCEPT !.amount = amount] \in CallState
      <4>1. amount \in Nat /\ call[p] \in CallState
        BY <1>2, <2>1, Constants
      <4> QED BY <4>1 DEF CallState
    <3> QED BY <1>6, <2>1, <3>1, <3>2
  <2>3. CASE Finish(p, "failed")
    BY <1>5, <2>1, <2>3
  <2> QED BY <1>11, <2>2, <2>3 DEF Pay
<1>12. ASSUME NEW q \in Queries, Ask(q) PROVE TokenInv'
  <2>1. UNCHANGED <<clock, issued, token>> /\ q \in Calls
    BY <1>2, <1>12 DEF Ask
  <2>2. PICK p \in Pushes :
           call' = [call EXCEPT ![q] = AccessToken([call[q] EXCEPT !.of = p], FALSE)]
    BY <1>12, <2>1 DEF Ask, TypeOK, CallsOK
  <2>3. [call[q] EXCEPT !.of = p] \in CallState
    BY <1>2, <2>1 DEF CallState
  <2> QED BY <1>6, <2>1, <2>2, <2>3
<1>13. ASSUME NEW c \in Calls, NEW reply, Reply(c, reply), UNCHANGED <<clock, issued, token>>,
              reply = "401" /\ call[c].pc = "post" => issued[call[c].token].revoked,
              call[c].pc \in {"post", "late"}
       PROVE  TokenInv'
  <2>1. /\ call'[c].pc = call[c].pc /\ call'[c].token = call[c].token
        /\ call'[c].since = call[c].since /\ call'[c].retry = call[c].retry
        /\ call'[c].reply = reply
        /\ \A e \in Calls \ {c} : call'[e] = call[e]
    BY <1>2, <1>13 DEF Reply, CallState, TypeOK, CallsOK
  <2>2. CallInv(c)
    BY <1>1
  <2>3. CallInv(c)'
    BY <1>13, <2>1, <2>2 DEF CallInv, IsWaiting, AnotherRevoked
  <2> QED BY <1>3, <1>13, <2>1, <2>3
<1>14. ASSUME NEW c \in Calls, Unauthorized(c) PROVE TokenInv'
  <2>1. /\ Reply(c, "401") /\ UNCHANGED <<clock, issued, token>> /\ IsDead(call[c].token)
        /\ call[c].pc \in {"post", "late"}
    BY <1>14 DEF Unauthorized, InFlight
  <2>2. call[c].pc = "post" => issued[call[c].token].revoked
    <3> SUFFICES ASSUME call[c].pc = "post", issued[call[c].token].expires <= clock PROVE FALSE
      BY <2>1 DEF IsDead
    <3>1. /\ clock <= call[c].since + Timeout
          /\ call[c].token \in DOMAIN issued
          /\ issued[call[c].token].expires > call[c].since + Timeout
      BY <1>1 DEF CallInv, IsWaiting
    <3>2. issued[call[c].token].expires \in Nat
      BY <3>1, TokenType
    <3>3. call[c].since \in Nat /\ clock \in Nat /\ Timeout \in Nat
      BY <1>2, Constants DEF CallState, TypeOK
    <3> QED BY <3>1, <3>2, <3>3
  <2> QED BY <1>13, <2>1, <2>2
<1>15. ASSUME NEW p \in Payments, ServePayment(p) PROVE TokenInv'
  BY <1>2, <1>4, <1>13, <1>15 DEF ServePayment, InFlight, Accidents
<1>16. ASSUME NEW p \in Payments, TurnAway(p) PROVE TokenInv'
  BY <1>2, <1>13, <1>16 DEF TurnAway, InFlight, Accidents
<1>17. ASSUME NEW q \in Queries, ServeQuery(q) PROVE TokenInv'
  <2>1. StkQuery(call[q].of) # "401"
    <3>1. call[q].of \in Payments
      BY <1>17, Constants DEF ServeQuery, InFlight, TypeOK, CallsOK
    <3>2. record[call[q].of].result \in {"none", "paid", "declined"}
      BY <3>1 DEF TypeOK, Records
    <3> QED BY <3>2 DEF StkQuery
  <2> QED BY <1>2, <1>13, <1>17, <2>1 DEF ServeQuery, InFlight, Accidents
<1>18. ASSUME NEW c \in Calls, Receive(c) PROVE TokenInv'
  <2>1. UNCHANGED <<clock, issued, token>>
    BY <1>18 DEF Receive
  <2>2. CASE \E answer : Finish(c, answer)
    BY <1>5, <2>1, <2>2
  <2>3. CASE call[c].reply = "401" /\ call' = [call EXCEPT ![c] = AccessToken(call[c], TRUE)]
    <3>1. \E n \in DOMAIN issued : issued[n].revoked
      BY <1>1, <1>18, <2>3 DEF Receive, CallInv
    <3> QED BY <1>2, <1>6, <2>1, <2>3, <3>1
  <2> QED BY <1>18, <2>2, <2>3 DEF Receive
<1>19. ASSUME NEW c \in Calls, Abort(c) PROVE TokenInv'
  <2>1. /\ call'[c].pc \in {"done", "late"} /\ call'[c].since = 0
        /\ \A e \in Calls \ {c} : call'[e] = call[e]
        /\ UNCHANGED <<clock, token>>
    BY <1>2, <1>19 DEF Abort, Done, Idle, CallState, TypeOK, CallsOK
  <2>2. CallInv(c)'
    BY <2>1, CallRestsDone
  <2> QED BY <1>3, <2>1, <2>2
<1>20. ASSUME NEW f \in Flushes, Flush(f) \/ Callback(f) \/ CallbackFails(f) PROVE TokenInv'
  BY <1>4, <1>20 DEF Flush, Callback, CallbackFails, Take, Deliver, DeliverFails, adapter
<1>21. ASSUME NEW p \in Payments, Drill(p) PROVE TokenInv'
  BY <1>4, <1>21 DEF Drill, ResolveTimeout, adapter
<1>22. CASE Pass
  <2>1. UNCHANGED <<token, call, issued>> /\ clock' = clock + 1
    BY <1>22 DEF Pass, Tick, adapter
  <2>2. \A c \in Calls : CallInv(c)'
    BY <1>1, <1>22, <2>1, CallRests DEF Pass
  <2>3. CacheInv'
    BY <1>1, <2>1 DEF CacheInv
  <2> QED BY <2>2, <2>3 DEF TokenInv
<1>23. CASE UNCHANGED vars
  BY <1>4, <1>23 DEF vars, adapter
<1> QED BY <1>7, <1>8, <1>9, <1>10, <1>11, <1>12, <1>14, <1>15, <1>16, <1>17, <1>18, <1>19, <1>20,
           <1>21, <1>22, <1>23 DEF Next, Network

THEOREM TokenInvariant == Spec => [](TypeOK /\ TokenInv)
<1>1. Init => TokenInv
  BY DEF Init, FakeInit, NoToken, Idle, TokenInv, CacheInv, CallInv, IsWaiting
<1> QED BY <1>1, NextTokenInv, AdapterTypeCorrect, PTL DEF Spec

(* "so a request never straddles expiry": while its caller waits for it, a *)
(* request is only turned down for a token that was revoked.               *)
THEOREM NoRequestStraddles == Spec => []NeverStraddles
<1>1. TokenInv => NeverStraddles
  BY DEF TokenInv, CallInv, NeverStraddles
<1> QED BY <1>1, TokenInvariant, PTL

(* A call whose retry, too, is unauthorized has met two revoked tokens: the*)
(* retry never takes the token that the first attempt was refused with.    *)
THEOREM OneRetrySuffices == Spec => []RetrySuffices
<1> DEFINE Revoked == {n \in DOMAIN issued : issued[n].revoked}
<1>1. TypeOK /\ TokenInv => RetrySuffices
  <2> SUFFICES ASSUME TypeOK, TokenInv, NEW c \in Calls,
                      call[c].pc = "post", call[c].retry, call[c].reply = "401"
               PROVE  Cardinality(Revoked) >= 2
    BY DEF RetrySuffices
  <2>1. CallInv(c)
    BY DEF TokenInv
  <2>2. call[c].token \in Revoked
    BY <2>1 DEF CallInv
  <2>3. PICK n \in Revoked : n # call[c].token
    BY <2>1 DEF CallInv, AnotherRevoked
  <2>4. IsFiniteSet(Revoked) /\ Cardinality(Revoked) \in Nat
    <3>1. DOMAIN issued = 1..Len(issued) /\ Len(issued) \in Nat
      BY LenProperties DEF TypeOK
    <3>2. IsFiniteSet(DOMAIN issued)
      BY <3>1, FS_Interval
    <3> QED BY <3>2, FS_Subset, FS_CardinalityType
  <2>5. Cardinality({n, call[c].token}) = 2
    <3>1. Cardinality({n}) = 1 /\ IsFiniteSet({n})
      BY FS_Singleton
    <3>2. Cardinality({n} \cup {call[c].token}) = Cardinality({n}) + 1
      BY <2>3, <3>1, FS_AddElement
    <3>3. {n} \cup {call[c].token} = {n, call[c].token}
      OBVIOUS
    <3> QED BY <3>1, <3>2, <3>3
  <2>6. {n, call[c].token} \subseteq Revoked
    BY <2>2, <2>3
  <2> HIDE DEF Revoked
  <2> QED BY <2>4, <2>5, <2>6, FS_Subset
<1> QED BY <1>1, TokenInvariant, PTL

-----------------------------------------------------------------------------
(* What a flush takes out of the queue.                                    *)

(* f is the function by which Kept filters the first n entries of s.       *)
IsKept(f, s, S, n) ==
    f = [i \in 0..n |-> IF i = 0 THEN <<>>
                        ELSE IF s[i] \in S THEN Append(f[i - 1], s[i]) ELSE f[i - 1]]

LEMMA SmallestMember ==
    ASSUME NEW B, B \subseteq Nat, B # {}
    PROVE  \E n \in B : \A m \in B : n <= m
<1>1. PICK n \in B : \A m \in B : <<m, n>> \notin OpToRel(<, Nat)
  BY NatLessThanWellFounded, WFMin
<1>2. \A m \in B : ~(m < n)
  BY <1>1 DEF OpToRel
<1> QED BY <1>2

LEMMA KeptExists == ASSUME NEW s, NEW S, NEW n \in Nat PROVE \E f : IsKept(f, s, S, n)
<1> DEFINE Bad == {m \in Nat : ~ \E f : IsKept(f, s, S, m)}
<1>1. SUFFICES ASSUME Bad # {} PROVE FALSE
  OBVIOUS
<1>2. PICK m \in Bad : \A k \in Bad : m <= k
  <2>1. Bad \subseteq Nat
    OBVIOUS
  <2> HIDE DEF Bad
  <2> QED BY <1>1, <2>1, SmallestMember
<1>3. CASE m = 0
  <2>1. IsKept([i \in 0..0 |-> <<>>], s, S, 0)
    BY DEF IsKept
  <2> QED BY <1>3, <2>1
<1>4. CASE m # 0
  <2>1. m - 1 \in Nat /\ m - 1 \notin Bad
    BY <1>2, <1>4
  <2>2. PICK f : IsKept(f, s, S, m - 1)
    BY <2>1
  <2> DEFINE last == IF s[m] \in S THEN Append(f[m - 1], s[m]) ELSE f[m - 1]
             g == [i \in 0..m |-> IF i = m THEN last ELSE f[i]]
  <2>3. DOMAIN g = 0..m
    OBVIOUS
  <2>4. \A i \in 0..(m - 1) : g[i] = f[i]
    BY <2>1
  <2>5. g[m] = last
    BY <1>2
  <2>6. last = IF s[m] \in S THEN Append(g[m - 1], s[m]) ELSE g[m - 1]
    BY <2>1, <2>4
  <2>7. \A i \in 0..(m - 1) :
           f[i] = IF i = 0 THEN <<>>
                  ELSE IF s[i] \in S THEN Append(f[i - 1], s[i]) ELSE f[i - 1]
    BY <2>2 DEF IsKept
  <2> HIDE DEF last
  <2>8. \A i \in 0..m :
           g[i] = IF i = 0 THEN <<>>
                  ELSE IF s[i] \in S THEN Append(g[i - 1], s[i]) ELSE g[i - 1]
    <3> SUFFICES ASSUME NEW i \in 0..m
                 PROVE  g[i] = IF i = 0 THEN <<>>
                               ELSE IF s[i] \in S THEN Append(g[i - 1], s[i]) ELSE g[i - 1]
      OBVIOUS
    <3> HIDE DEF g
    <3>1. CASE i = m
      BY <1>4, <2>5, <2>6, <3>1
    <3>2. CASE i # m
      <4>1. i \in 0..(m - 1) /\ (i # 0 => i - 1 \in 0..(m - 1))
        BY <2>1, <3>2
      <4> QED BY <2>4, <2>7, <4>1
    <3> QED BY <3>1, <3>2
  <2>9. g = [i \in 0..m |-> g[i]]
    OBVIOUS
  <2> HIDE DEF g
  <2>10. IsKept(g, s, S, m)
    BY <2>8, <2>9 DEF IsKept
  <2> QED BY <2>10
<1> QED BY <1>3, <1>4

(* Kept returns entries of s that are in S.                                *)
LEMMA KeptType ==
    ASSUME NEW T, NEW S, NEW s \in Seq(T)
    PROVE  Kept(s, S) \in Seq(T \cap S)
<1>1. Len(s) \in Nat /\ \A i \in 1..Len(s) : s[i] \in T
  BY LenProperties, ElementOfSeq
<1> DEFINE kept == CHOOSE f : IsKept(f, s, S, Len(s))
<1>2. IsKept(kept, s, S, Len(s))
  BY <1>1, KeptExists
<1>3. Kept(s, S) = kept[Len(s)]
  BY DEF Kept, IsKept
<1> HIDE DEF kept
<1> DEFINE Bad == {i \in 0..Len(s) : kept[i] \notin Seq(T \cap S)}
<1>4. Bad = {}
  <2> SUFFICES ASSUME Bad # {} PROVE FALSE
    OBVIOUS
  <2>1. PICK i \in Bad : \A k \in Bad : i <= k
    <3>1. Bad \subseteq Nat
      OBVIOUS
    <3> HIDE DEF Bad
    <3> QED BY <3>1, SmallestMember
  <2>2. kept[i] = IF i = 0 THEN <<>>
                  ELSE IF s[i] \in S THEN Append(kept[i - 1], s[i]) ELSE kept[i - 1]
    BY <1>2 DEF IsKept
  <2>3. CASE i = 0
    BY <2>2, <2>3, EmptySeq
  <2>4. CASE i # 0
    <3>1. i \in 1..Len(s) /\ i - 1 \in 0..Len(s) /\ ~(i <= i - 1)
      BY <1>1, <2>4
    <3>2. kept[i - 1] \in Seq(T \cap S)
      BY <2>1, <3>1
    <3>3. s[i] \in T
      BY <1>1, <3>1
    <3>4. CASE s[i] \in S
      <4>1. Append(kept[i - 1], s[i]) \in Seq(T \cap S)
        BY <3>2, <3>3, <3>4, AppendProperties
      <4> QED BY <2>2, <2>4, <3>4, <4>1
    <3>5. CASE s[i] \notin S
      BY <2>2, <2>4, <3>2, <3>5
    <3> QED BY <3>4, <3>5
  <2> QED BY <2>3, <2>4
<1> QED BY <1>1, <1>3, <1>4

-----------------------------------------------------------------------------
(* What becomes of a payment's record.                                     *)

Queued == {p \in Payments : record[p].result # "none"}
Acted == {p \in Payments : HasActed(p)}

(* A payment that was made stays made, and a customer acts once.           *)
Lasts ==
    /\ \A p \in Payments : record[p] # NoRecord => record'[p] # NoRecord
    /\ \A p \in Queued : record'[p].result = record[p].result
    /\ Acted \subseteq Acted'

LEMMA SeqWiden == ASSUME NEW A, NEW B, A \subseteq B, NEW s \in Seq(A) PROVE s \in Seq(B)
OBVIOUS

LEMMA RecordsKept ==
    ASSUME TypeOK, record' = record, clock' = clock \/ clock' = clock + 1
    PROVE  Lasts /\ Queued' = Queued
<1>1. \A p \in Payments : clock \in Nat /\ record[p].due \in Nat
  BY DEF TypeOK, Records
<1>2. \A p \in Payments : HasActed(p) => HasActed(p)'
  BY <1>1 DEF HasActed
<1> QED BY <1>2 DEF Lasts, Queued, Acted

LEMMA ServeRecord ==
    ASSUME TypeOK, NEW p \in Payments, ServePayment(p)
    PROVE  /\ record[p] = NoRecord /\ record'[p] # NoRecord
           /\ \A q \in Payments \ {p} : record'[q] = record[q]
           /\ pending' = pending \o CallbacksOf(p, record'[p].scenario)
           /\ record'[p].result = ResultOf(record'[p].scenario)
           /\ UNCHANGED <<clock, flush, told, heard>>
           /\ \A e \in Calls \ {p} : call'[e] = call[e]
           /\ call[p].pc \in {"post", "late"}
           /\ call'[p].pc = call[p].pc /\ call'[p].reply \in {"none", "ack"} \cup Accidents
<1>1. p \in Calls /\ call[p] \in CallState
  BY DEF Calls, TypeOK, CallsOK
<1>2. MinorToKes(call[p].amount) \in Nat
  BY <1>1 DEF MinorToKes, CallState
<1> DEFINE s == ScenarioFor(MinorToKes(call[p].amount))
<1>3. s \in {Scenarios[i] : i \in DOMAIN Scenarios}
  BY <1>2, ScenarioIsOne
<1>4. s # "none"
  BY <1>3 DEF Scenarios
<1>5. /\ record' = [record EXCEPT ![p] =
                       [scenario |-> s, result |-> ResultOf(s), due |-> DueOf(s)]]
      /\ pending' = pending \o CallbacksOf(p, s)
      /\ UNCHANGED <<clock, flush, told, heard>>
      /\ InFlight(p)
      /\ call' = call \/ \E reply \in {"ack"} \cup Accidents : Reply(p, reply)
  BY DEF ServePayment, Initiate
<1> HIDE DEF s
<1>6. record'[p] = [scenario |-> s, result |-> ResultOf(s), due |-> DueOf(s)]
  BY <1>5 DEF TypeOK
<1>7. record[p] = NoRecord /\ call[p].pc \in {"post", "late"} /\ call[p].reply = "none"
  BY <1>5 DEF InFlight, IsServed
<1>8. /\ \A e \in Calls \ {p} : call'[e] = call[e]
      /\ call'[p].pc = call[p].pc /\ call'[p].reply \in {"none", "ack"} \cup Accidents
  BY <1>1, <1>5, <1>7 DEF Reply, TypeOK, CallsOK, CallState
<1>9. record'[p] # NoRecord /\ \A q \in Payments \ {p} : record'[q] = record[q]
  BY <1>4, <1>5, <1>6 DEF NoRecord, TypeOK
<1>10. /\ pending' = pending \o CallbacksOf(p, record'[p].scenario)
       /\ record'[p].result = ResultOf(record'[p].scenario)
       /\ UNCHANGED <<clock, flush, told, heard>>
  BY <1>5, <1>6
<1> QED BY <1>7, <1>8, <1>9, <1>10

LEMMA DrillRecord ==
    ASSUME TypeOK, NEW p \in Payments, Drill(p)
    PROVE  /\ record[p] # NoRecord /\ record'[p] # NoRecord /\ record[p].result = "none"
           /\ \A q \in Payments \ {p} : record'[q] = record[q]
           /\ \E late \in {<<>>, <<p>>} : pending' = pending \o late
           /\ record'[p].result \in {"paid", "declined"}
           /\ UNCHANGED <<clock, flush, told, heard, call>>
<1>1. PICK result \in {"paid", "declined"}, late \in {<<>>, <<p>>} :
         /\ record' = [record EXCEPT ![p].result = result, ![p].due = clock]
         /\ pending' = pending \o late
  BY DEF Drill, ResolveTimeout
<1>2. record[p].scenario = "timeout" /\ record[p].result = "none"
      /\ UNCHANGED <<clock, flush, told, heard, call>>
  BY DEF Drill, ResolveTimeout, adapter
<1>3. record[p] \in Records
  BY DEF TypeOK
<1>4. record'[p].result = result /\ \A q \in Payments \ {p} : record'[q] = record[q]
  BY <1>1, <1>3 DEF TypeOK, Records
<1>5. record[p] # NoRecord /\ record'[p] # NoRecord
  BY <1>2, <1>4 DEF NoRecord
<1> QED BY <1>1, <1>2, <1>4, <1>5

LEMMA NextRecords ==
    ASSUME [Next]_vars
    PROVE  \/ \E p \in Payments : ServePayment(p) \/ Drill(p)
           \/ record' = record /\ (clock' = clock \/ clock' = clock + 1)
BY DEF Next, Network, Pay, Ask, TakeToken, TokenUnread, TokenRefused, Issue, Revoke,
       Unauthorized, TurnAway, ServeQuery, Receive, Abort, Flush, Take, Callback, Deliver,
       CallbackFails, DeliverFails, Pass, Tick, fake, adapter, vars

LEMMA NextLasts == ASSUME TypeOK, [Next]_vars PROVE Lasts
<1>1. NoRecord.result = "none"
  BY DEF NoRecord
<1>2. ASSUME NEW p \in Payments, record[p].result = "none", record'[p] # NoRecord,
             \A q \in Payments \ {p} : record'[q] = record[q], clock' = clock
      PROVE  Lasts
  <2>1. \A q \in Queued : q # p /\ record'[q] = record[q]
    BY <1>2 DEF Queued
  <2>2. \A q \in Acted : q # p /\ HasActed(q)'
    BY <1>2 DEF Acted, HasActed
  <2> QED BY <1>2, <2>1, <2>2 DEF Lasts, Queued, Acted
<1>3. ASSUME NEW p \in Payments, ServePayment(p) PROVE Lasts
  BY <1>1, <1>2, <1>3, ServeRecord
<1>4. ASSUME NEW p \in Payments, Drill(p) PROVE Lasts
  BY <1>2, <1>4, DrillRecord
<1> QED BY <1>3, <1>4, NextRecords, RecordsKept

(* A callback is queued with its result, and in a flush once it is due.    *)
QueueInv == pending \in Seq(Queued) /\ flush \in [Flushes -> Seq(Acted)]

LEMMA NextQueueInv == ASSUME TypeOK, QueueInv, [Next]_vars PROVE QueueInv'
<1>1. Lasts /\ Queued \subseteq Queued' /\ Acted \subseteq Acted'
  BY NextLasts DEF Lasts, Queued
<1>2. pending \in Seq(Queued') /\ flush \in [Flushes -> Seq(Acted')]
  BY <1>1, SeqWiden DEF QueueInv
<1>3. ASSUME NEW p \in Payments, ServePayment(p) PROVE QueueInv'
  <2> DEFINE s == record'[p].scenario
  <2>1. /\ pending' = pending \o CallbacksOf(p, s) /\ flush' = flush
        /\ record'[p].result = ResultOf(s)
    BY <1>3, ServeRecord
  <2> HIDE DEF s
  <2>2. s # "timeout" => p \in Queued'
    BY <2>1 DEF ResultOf, Queued
  <2>3. CallbacksOf(p, s) \in Seq(Queued')
    BY <2>2, EmptySeq DEF CallbacksOf
  <2>4. pending' \in Seq(Queued')
    BY <1>2, <2>1, <2>3, ConcatProperties
  <2> QED BY <1>2, <2>1, <2>4 DEF QueueInv
<1>4. ASSUME NEW p \in Payments, Drill(p) PROVE QueueInv'
  <2>1. /\ \E late \in {<<>>, <<p>>} : pending' = pending \o late
        /\ flush' = flush /\ p \in Queued'
    BY <1>4, DrillRecord DEF Queued
  <2>2. <<>> \in Seq(Queued') /\ <<p>> \in Seq(Queued')
    BY <2>1, EmptySeq
  <2>3. pending' \in Seq(Queued')
    BY <1>2, <2>1, <2>2, ConcatProperties
  <2> QED BY <1>2, <2>1, <2>3 DEF QueueInv
<1>5. ASSUME NEW f \in Flushes, Flush(f) PROVE QueueInv'
  <2>1. /\ flush' = [flush EXCEPT ![f] = Kept(pending, Due)]
        /\ pending' = Kept(pending, Payments \ Due)
    BY <1>5 DEF Flush, Take
  <2>2. pending \in Seq(Queued)
    BY DEF QueueInv
  <2>3. /\ Kept(pending, Due) \in Seq(Queued \cap Due)
        /\ Kept(pending, Payments \ Due) \in Seq(Queued \cap (Payments \ Due))
    BY <2>2, KeptType
  <2>4. Queued \cap Due \subseteq Acted' /\ Queued \cap (Payments \ Due) \subseteq Queued'
    BY <1>1 DEF Queued, Due, IsDue, Acted, HasActed
  <2>5. Kept(pending, Due) \in Seq(Acted') /\ pending' \in Seq(Queued')
    BY <2>1, <2>3, <2>4, SeqWiden
  <2> QED BY <1>2, <2>1, <2>5 DEF QueueInv
<1>6. ASSUME NEW f \in Flushes, Callback(f) \/ CallbackFails(f) PROVE QueueInv'
  <2>1. flush[f] # <<>> /\ flush[f] \in Seq(Acted') /\ pending' = pending
    BY <1>2, <1>6 DEF Callback, CallbackFails, Deliver, DeliverFails
  <2>2. PICK rest \in Seq(Acted') : flush' = [flush EXCEPT ![f] = rest]
    <3>1. Tail(flush[f]) \in Seq(Acted') /\ <<>> \in Seq(Acted')
      BY <2>1, HeadTailProperties, EmptySeq
    <3> QED BY <1>2, <1>6, <3>1 DEF Callback, CallbackFails, Deliver, DeliverFails
  <2> QED BY <1>2, <2>1, <2>2 DEF QueueInv
<1>7. CASE UNCHANGED <<pending, flush>>
  BY <1>2, <1>7 DEF QueueInv
<1>8. \/ UNCHANGED <<pending, flush>>
      \/ \E p \in Payments : ServePayment(p) \/ Drill(p)
      \/ \E f \in Flushes : Flush(f) \/ Callback(f) \/ CallbackFails(f)
  BY DEF Next, Network, Pay, Ask, TakeToken, TokenUnread, TokenRefused, Issue, Revoke,
         Unauthorized, TurnAway, ServeQuery, Receive, Abort, Pass, Tick, fake, adapter, vars
<1> QED BY <1>3, <1>4, <1>5, <1>6, <1>7, <1>8

-----------------------------------------------------------------------------
(* What each call is answered.                                             *)

(* A payment is answered once, when its call ends; a refused one was not   *)
(* made and never is; an acknowledged one was made.                        *)
PaymentInv(p) ==
    /\ call[p].pc \notin {"late", "done"} => told[p] = "none"
    /\ told[p] = "rejected" => call[p].pc = "done" /\ record[p] = NoRecord
    /\ call[p].reply = "refused" => record[p] = NoRecord
    /\ call[p].reply = "ack" => record[p] # NoRecord
    /\ call[p].reply \notin {"pending", "paid", "declined"}

(* A query repeats what the customer did.                                  *)
QueryInv(q) ==
    call[q].reply \in {"paid", "declined"} =>
        call[q].of \in Acted /\ record[call[q].of].result = call[q].reply

AnswerInv ==
    /\ told \in [Calls -> Answered \cup {"none"}]
    /\ \A p \in Payments : PaymentInv(p)
    /\ \A q \in Queries : QueryInv(q)

LEMMA AnswerType ==
    ASSUME NEW reply \in Replies \ {"none", "401"}, NEW answer, answer = AnswerTo(reply)
    PROVE  /\ answer \in Answered
           /\ answer = "rejected" => reply = "refused"
           /\ answer = "ack" => reply = "ack"
BY DEF Replies, Accidents, Answered, AnswerTo

(* Only call c moves, and no record changes but its own.                   *)
LEMMA OneMoves ==
    ASSUME TypeOK, AnswerInv, Lasts, NEW c \in Calls,
           \A e \in Calls \ {c} : call'[e] = call[e],
           \/ told' = told
           \/ \E answer \in Answered :
                 told' = [told EXCEPT ![c] = answer],
           \A p \in Payments \ {c} : record'[p] = record[p],
           c \in Payments => PaymentInv(c)', c \in Queries => QueryInv(c)'
    PROVE  AnswerInv'
<1>1. /\ told' \in [Calls -> Answered \cup {"none"}]
      /\ \A e \in Calls \ {c} : told'[e] = told[e]
  BY DEF AnswerInv
<1>2. ASSUME NEW p \in Payments PROVE PaymentInv(p)'
  <2>1. p \in Calls
    BY DEF Calls
  <2>2. CASE p # c
    BY <1>1, <2>1, <2>2 DEF AnswerInv, PaymentInv
  <2> QED BY <2>2
<1>3. ASSUME NEW q \in Queries PROVE QueryInv(q)'
  <2>1. q \in Calls
    BY DEF Calls
  <2>2. CASE q # c
    <3>1. call'[q] = call[q] /\ QueryInv(q)
      BY <2>1, <2>2 DEF AnswerInv
    <3>2. \A p \in Acted : p \in Queued /\ record'[p].result = record[p].result /\ p \in Acted'
      BY DEF Lasts, Acted, HasActed, Queued
    <3> QED BY <3>1, <3>2 DEF QueryInv
  <2> QED BY <2>2
<1> QED BY <1>1, <1>2, <1>3 DEF AnswerInv

(* A call that ends: what it is answered, and what that rests on.          *)
LEMMA CallEnds ==
    ASSUME TypeOK, AnswerInv, Lasts, NEW c \in Calls,
           NEW answer \in Answered,
           Finish(c, answer), record' = record,
           c \in Payments /\ answer = "rejected" => record[c] = NoRecord
    PROVE  AnswerInv'
<1>1. /\ call'[c] = Done /\ told'[c] = answer
      /\ \A e \in Calls \ {c} : call'[e] = call[e]
      /\ told' = [told EXCEPT ![c] = answer]
  BY DEF Finish, TypeOK, CallsOK, AnswerInv
<1>2. Done.pc = "done" /\ Done.reply = "none"
  BY DEF Done, Idle
<1>3. c \in Payments => PaymentInv(c)'
  BY <1>1, <1>2 DEF PaymentInv
<1>4. c \in Queries => QueryInv(c)'
  BY <1>1, <1>2 DEF QueryInv
<1> QED BY <1>1, <1>3, <1>4, OneMoves

(* A call that goes on without an answer.                                  *)
LEMMA CallGoesOn ==
    ASSUME TypeOK, AnswerInv, Lasts, NEW c \in Calls, told' = told, record' = record,
           \A e \in Calls \ {c} : call'[e] = call[e],
           call[c].pc \notin {"late", "done"}, call'[c].reply \in {"none", "401"}
    PROVE  AnswerInv'
<1>1. c \in Payments => PaymentInv(c)'
  BY DEF AnswerInv, PaymentInv
<1>2. c \in Queries => QueryInv(c)'
  BY DEF QueryInv
<1> QED BY <1>1, <1>2, OneMoves

LEMMA NextAnswerInv == ASSUME TypeOK, TokenInv, AnswerInv, [Next]_vars PROVE AnswerInv'
<1>1. Lasts
  BY NextLasts
<1>2. /\ \A c \in Calls : call[c] \in CallState /\ CallInv(c)
      /\ Payments \subseteq Calls /\ Queries \subseteq Calls /\ Queries \cap Payments = {}
  BY Constants DEF TypeOK, CallsOK, Calls, TokenInv
<1>3. ASSUME NEW c \in Calls, NEW x \in CallState, NEW retry \in BOOLEAN,
             call' = [call EXCEPT ![c] = AccessToken(x, retry)], told' = told, record' = record,
             call[c].pc \notin {"late", "done"}
      PROVE  AnswerInv'
  <2>1. call'[c].reply = "none" /\ \A e \in Calls \ {c} : call'[e] = call[e]
    BY <1>3, AccessTokenState DEF TypeOK, CallsOK
  <2> QED BY <1>1, <1>3, <2>1, CallGoesOn
<1>4. ASSUME NEW c \in Calls, Issue(c) \/ TakeToken(c) PROVE AnswerInv'
  <2>1. /\ call'[c].reply = call[c].reply /\ \A e \in Calls \ {c} : call'[e] = call[e]
        /\ told' = told /\ record' = record /\ call[c].pc \in {"get", "body"}
    BY <1>2, <1>4 DEF Issue, TakeToken, fake, CallState, TypeOK, CallsOK
  <2>2. call[c].reply = "none"
    BY <1>2, <2>1 DEF CallInv
  <2> QED BY <1>1, <2>1, <2>2, CallGoesOn
<1>5. ASSUME NEW c \in Calls, TokenRefused(c) \/ TokenUnread(c) PROVE AnswerInv'
  BY <1>1, <1>5, CallEnds DEF TokenRefused, TokenUnread, fake, Answered
<1>6. ASSUME NEW p \in Payments, Pay(p) PROVE AnswerInv'
  <2>1. record' = record /\ p \in Calls /\ call[p].pc = "idle"
    BY <1>2, <1>6 DEF Pay, fake
  <2>2. CASE /\ \E amount \in Amounts :
                  call' = [call EXCEPT ![p] = AccessToken([@ EXCEPT !.amount = amount], FALSE)]
             /\ told' = told
    <3>1. PICK amount \in Amounts :
             call' = [call EXCEPT ![p] = AccessToken([call[p] EXCEPT !.amount = amount], FALSE)]
      BY <2>1, <2>2 DEF TypeOK, CallsOK
    <3>2. [call[p] EXCEPT !.amount = amount] \in CallState
      <4>1. amount \in Nat /\ call[p] \in CallState
        BY <1>2, <2>1, Constants
      <4> QED BY <4>1 DEF CallState
    <3> QED BY <1>3, <2>1, <2>2, <3>1, <3>2
  <2>3. CASE Finish(p, "failed")
    BY <1>1, <2>1, <2>3, CallEnds DEF Answered
  <2> QED BY <1>6, <2>2, <2>3 DEF Pay
<1>7. ASSUME NEW q \in Queries, Ask(q) PROVE AnswerInv'
  <2>1. UNCHANGED <<told, record>> /\ q \in Calls /\ call[q].pc = "idle"
    BY <1>2, <1>7 DEF Ask, fake
  <2>2. PICK p \in Pushes :
           call' = [call EXCEPT ![q] = AccessToken([call[q] EXCEPT !.of = p], FALSE)]
    BY <1>7, <2>1 DEF Ask, TypeOK, CallsOK
  <2>3. [call[q] EXCEPT !.of = p] \in CallState
    BY <1>2, <2>1 DEF CallState
  <2> QED BY <1>3, <2>1, <2>2, <2>3
<1>8. ASSUME NEW c \in Calls, NEW reply, InFlight(c), Reply(c, reply), UNCHANGED <<told, record>>,
             c \in Payments => reply \in {"401", "refused"} \cup Accidents,
             c \in Queries /\ reply \in {"paid", "declined"} =>
                 call[c].of \in Acted /\ record[call[c].of].result = reply
      PROVE  AnswerInv'
  <2>1. /\ call'[c].pc = call[c].pc /\ call'[c].of = call[c].of /\ call'[c].reply = reply
        /\ \A e \in Calls \ {c} : call'[e] = call[e]
    BY <1>2, <1>8 DEF Reply, CallState, TypeOK, CallsOK
  <2>2. c \in Payments => PaymentInv(c)'
    <3>1. c \in Payments => PaymentInv(c) /\ record[c] = NoRecord
      BY <1>8 DEF AnswerInv, InFlight, IsServed
    <3> QED BY <1>8, <2>1, <3>1 DEF PaymentInv, Accidents
  <2>3. c \in Queries => QueryInv(c)'
    <3>1. \A p \in Acted : p \in Acted'
      BY <1>1 DEF Lasts
    <3> QED BY <1>8, <2>1, <3>1 DEF QueryInv
  <2> QED BY <1>1, <1>8, <2>1, <2>2, <2>3, OneMoves
<1>9. ASSUME NEW c \in Calls, Unauthorized(c) PROVE AnswerInv'
  BY <1>8, <1>9 DEF Unauthorized, fake
<1>10. ASSUME NEW p \in Payments, ServePayment(p) PROVE AnswerInv'
  <2>1. /\ record'[p] # NoRecord /\ told' = told
        /\ \A q \in Payments \ {p} : record'[q] = record[q]
        /\ \A e \in Calls \ {p} : call'[e] = call[e]
        /\ call[p].pc \in {"post", "late"}
        /\ call'[p].pc = call[p].pc /\ call'[p].reply \in {"none", "ack"} \cup Accidents
    BY <1>10, ServeRecord
  <2>2. PaymentInv(p)'
    BY <2>1 DEF AnswerInv, PaymentInv, Accidents
  <2> QED BY <1>1, <1>2, <2>1, <2>2, OneMoves
<1>11. ASSUME NEW p \in Payments, TurnAway(p) PROVE AnswerInv'
  BY <1>2, <1>8, <1>11 DEF TurnAway, fake
<1>12. ASSUME NEW q \in Queries, ServeQuery(q) PROVE AnswerInv'
  <2>1. call[q].of \in Payments
    BY <1>12, Constants DEF ServeQuery, InFlight, TypeOK, CallsOK
  <2>2. StkQuery(call[q].of) \in {"paid", "declined"} =>
           call[q].of \in Acted /\ record[call[q].of].result = StkQuery(call[q].of)
    BY <2>1 DEF StkQuery, Acted
  <2> QED BY <1>2, <1>8, <1>12, <2>2 DEF ServeQuery, fake, Accidents
<1>13. ASSUME NEW c \in Calls, Receive(c) PROVE AnswerInv'
  <2>1. record' = record /\ call[c].pc = "post" /\ call[c].reply \in Replies \ {"none"}
    BY <1>2, <1>13 DEF Receive, fake, CallState
  <2>2. CASE call[c].reply # "401" /\ Finish(c, AnswerTo(call[c].reply))
    <3>1. PICK answer : answer = AnswerTo(call[c].reply) /\ Finish(c, answer)
      BY <2>2
    <3>2. /\ answer \in Answered
          /\ answer = "rejected" => call[c].reply = "refused"
      <4>1. call[c].reply \in Replies \ {"none", "401"}
        BY <2>1, <2>2
      <4> QED BY <3>1, <4>1, AnswerType
    <3>3. c \in Payments /\ answer = "rejected" => record[c] = NoRecord
      BY <3>2 DEF AnswerInv, PaymentInv
    <3> QED BY <1>1, <2>1, <3>1, <3>2, <3>3, CallEnds
  <2>3. CASE Finish(c, "failed")
    BY <1>1, <2>1, <2>3, CallEnds DEF Answered
  <2>4. CASE call' = [call EXCEPT ![c] = AccessToken(call[c], TRUE)] /\ told' = told
    BY <1>2, <1>3, <2>1, <2>4
  <2> QED BY <1>13, <2>2, <2>3, <2>4 DEF Receive
<1>14. ASSUME NEW c \in Calls, Abort(c) PROVE AnswerInv'
  <2>1. /\ call'[c].pc \in {"done", "late"} /\ call'[c].reply = "none"
        /\ \A e \in Calls \ {c} : call'[e] = call[e]
        /\ told' = [told EXCEPT ![c] = "unknown"] /\ told'[c] = "unknown" /\ record' = record
    BY <1>2, <1>14 DEF Abort, Done, Idle, InFlight, CallState, TypeOK, CallsOK, AnswerInv, fake
  <2>2. c \in Payments => PaymentInv(c)'
    BY <2>1 DEF PaymentInv
  <2>3. c \in Queries => QueryInv(c)'
    BY <2>1 DEF QueryInv
  <2> QED BY <1>1, <2>1, <2>2, <2>3, OneMoves DEF Answered
<1>15. ASSUME NEW p \in Payments, Drill(p) PROVE AnswerInv'
  <2>1. /\ record[p] # NoRecord /\ record'[p] # NoRecord /\ UNCHANGED <<told, call>>
        /\ \A q \in Payments \ {p} : record'[q] = record[q]
    BY <1>15, DrillRecord
  <2>2. PaymentInv(p)'
    BY <2>1 DEF AnswerInv, PaymentInv
  <2> QED BY <1>1, <1>2, <2>1, <2>2, OneMoves
<1>16. CASE UNCHANGED <<call, told, record>>
  <2>1. \A p \in Payments : PaymentInv(p)'
    BY <1>16 DEF AnswerInv, PaymentInv
  <2>2. \A p \in Acted : p \in Acted'
    BY <1>1 DEF Lasts
  <2>3. \A q \in Queries : QueryInv(q)'
    BY <1>16, <2>2 DEF AnswerInv, QueryInv
  <2> QED BY <1>16, <2>1, <2>3 DEF AnswerInv
<1>17. CASE \/ Revoke \/ Pass \/ UNCHANGED vars
            \/ \E f \in Flushes : Flush(f) \/ Callback(f) \/ CallbackFails(f)
  BY <1>16, <1>17 DEF Revoke, Pass, Tick, Flush, Take, Callback, Deliver, CallbackFails, DeliverFails,
                      fake, adapter, vars
<1> QED BY <1>4, <1>5, <1>6, <1>7, <1>9, <1>10, <1>11, <1>12, <1>13, <1>14, <1>15, <1>17
        DEF Next, Network

-----------------------------------------------------------------------------
(* The refinement of Mpesa.                                                *)

RefinementInv == QueueInv /\ AnswerInv

(* No payment is answered: M-Pesa takes payments up, and customers act.    *)
LEMMA Proceeds ==
    ASSUME TypeOK, TypeOK', Lasts, heard' = heard,
           \A p \in Payments : told'[p] = told[p],
           \A p \in Payments : record[p] = NoRecord /\ record'[p] # NoRecord => told[p] # "rejected"
    PROVE  M!Proceed
<1> DEFINE made == {p \in Payments : record[p] # NoRecord}
           answers == [p \in Payments |-> AsAnswer(told[p])]
           outcome == [p \in Payments |-> IF HasActed(p) THEN record[p].result ELSE "none"]
<1>1. made' \in SUBSET Payments /\ made \subseteq made'
  BY DEF Lasts
<1>2. \A p \in made' \ made : answers[p] # "rejected"
  BY DEF AsAnswer
<1>3. outcome' \in [Payments -> M!Outcomes \cup {"none"}]
  BY DEF TypeOK, Records, M!Outcomes
<1>4. ASSUME NEW p \in Payments
      PROVE  /\ outcome[p] # "none" => outcome'[p] = outcome[p]
             /\ outcome'[p] # "none" => p \in made'
  <2>1. HasActed(p) => record'[p].result = record[p].result /\ HasActed(p)'
    BY DEF Lasts, Acted, Queued, HasActed
  <2>2. outcome[p] # "none" => outcome'[p] = outcome[p]
    BY <2>1
  <2>3. outcome'[p] # "none" => record'[p].result # "none"
    BY DEF HasActed
  <2>4. NoRecord.result = "none"
    BY DEF NoRecord
  <2> QED BY <2>2, <2>3, <2>4
<1>5. answers' = answers
  OBVIOUS
<1> QED BY <1>1, <1>2, <1>3, <1>4, <1>5 DEF M!Proceed

LEMMA Answers ==
    ASSUME NEW p \in Payments, told \in [Calls -> Answered \cup {"none"}],
           told[p] = "none", UNCHANGED <<clock, record, heard>>,
           NEW answer \in Answered,
           told' = [told EXCEPT ![p] = answer],
           answer = "ack" => record[p] # NoRecord,
           answer = "rejected" => record[p] = NoRecord
    PROVE  M!Answer(p)
<1> DEFINE made == {q \in Payments : record[q] # NoRecord}
           answers == [q \in Payments |-> AsAnswer(told[q])]
           outcome == [q \in Payments |-> IF HasActed(q) THEN record[q].result ELSE "none"]
           a == AsAnswer(answer)
<1>1. answers[p] = "none"
  BY DEF AsAnswer
<1>2. a \in M!Answers /\ (a = "ack" => p \in made) /\ (a = "rejected" => p \notin made)
  BY DEF AsAnswer, M!Answers, Answered
<1>3. answers' = [answers EXCEPT ![p] = a]
  <2>1. \A q \in Payments : q \in Calls /\ told'[q] = IF q = p THEN answer ELSE told[q]
    BY DEF Calls
  <2>2. \A q \in Payments : answers'[q] = IF q = p THEN a ELSE answers[q]
    BY <2>1
  <2> QED BY <2>2
<1>4. UNCHANGED <<made, outcome, heard>>
  BY DEF HasActed
<1> HIDE DEF a
<1> QED BY <1>1, <1>2, <1>3, <1>4 DEF M!Answer

LEMMA Reports ==
    ASSUME NEW p \in Acted, UNCHANGED <<clock, record>>,
           \A q \in Payments : told'[q] = told[q],
           heard' = heard \cup {<<p, record[p].result>>}
    PROVE  M!Report(p)
<1> DEFINE outcome == [q \in Payments |-> IF HasActed(q) THEN record[q].result ELSE "none"]
<1>1. p \in Payments /\ HasActed(p)
  BY DEF Acted
<1>2. outcome[p] = record[p].result /\ record[p].result # "none"
  BY <1>1 DEF HasActed
<1> QED BY <1>1, <1>2 DEF M!Report, HasActed

LEMMA StepImplements ==
    ASSUME TypeOK, TypeOK', TokenInv, RefinementInv, [Next]_vars
    PROVE  M!Next
<1>1. /\ Lasts /\ QueueInv
      /\ told \in [Calls -> Answered \cup {"none"}]
      /\ \A p \in Payments : PaymentInv(p)
      /\ \A q \in Queries : QueryInv(q)
  BY NextLasts DEF RefinementInv, AnswerInv
<1>2. /\ \A c \in Calls : call[c] \in CallState
      /\ Payments \subseteq Calls /\ Queries \subseteq Calls /\ Queries \cap Payments = {}
      /\ Calls = Payments \cup Queries
  BY Constants DEF TypeOK, CallsOK, Calls
<1>3. ASSUME UNCHANGED <<told, heard>>,
             \A p \in Payments : record[p] = NoRecord /\ record'[p] # NoRecord => told[p] # "rejected"
      PROVE  M!Next
  BY <1>1, <1>3, Proceeds DEF M!Next
<1>4. ASSUME UNCHANGED <<told, heard, record>> PROVE M!Next
  BY <1>3, <1>4
<1>5. ASSUME NEW c \in Calls,
             NEW answer \in Answered,
             told' = [told EXCEPT ![c] = answer], UNCHANGED <<clock, record, heard>>,
             call[c].pc \notin {"late", "done"},
             c \in Payments /\ answer = "ack" => record[c] # NoRecord,
             c \in Payments /\ answer = "rejected" => record[c] = NoRecord
      PROVE  M!Next
  <2>1. CASE c \in Payments
    <3>1. told[c] = "none"
      BY <1>1, <1>5, <2>1 DEF PaymentInv
    <3>2. M!Answer(c)
      BY <1>1, <1>5, <2>1, <3>1, Answers
    <3> QED BY <2>1, <3>2 DEF M!Next
  <2>2. CASE c \in Queries
    <3>1. \A p \in Payments : told'[p] = told[p]
      BY <1>1, <1>2, <1>5, <2>2
    <3> QED BY <1>1, <1>5, <3>1, Proceeds DEF M!Next
  <2> QED BY <1>2, <2>1, <2>2
<1>6. ASSUME NEW c \in Calls, TokenRefused(c) \/ TokenUnread(c) PROVE M!Next
  <2>1. /\ told' = [told EXCEPT ![c] = "failed"] /\ UNCHANGED <<clock, record, heard>>
        /\ call[c].pc \notin {"late", "done"}
    BY <1>6 DEF TokenRefused, TokenUnread, Finish, fake
  <2> QED BY <1>5, <2>1 DEF Answered
<1>7. ASSUME NEW p \in Payments, Pay(p) PROVE M!Next
  <2>1. UNCHANGED <<clock, record, heard>> /\ call[p].pc = "idle"
    BY <1>7 DEF Pay, fake
  <2>2. told' = told \/ told' = [told EXCEPT ![p] = "failed"]
    BY <1>7 DEF Pay, Finish
  <2> QED BY <1>2, <1>4, <1>5, <2>1, <2>2 DEF Answered
<1>8. ASSUME NEW p \in Payments, ServePayment(p) PROVE M!Next
  <2>1. /\ UNCHANGED <<told, heard>> /\ call[p].pc \in {"post", "late"}
        /\ \A q \in Payments \ {p} : record'[q] = record[q]
    BY <1>8, ServeRecord
  <2>2. told[p] # "rejected"
    BY <1>1, <2>1 DEF PaymentInv
  <2> QED BY <1>3, <2>1, <2>2
<1>9. ASSUME NEW p \in Payments, Drill(p) PROVE M!Next
  <2>1. /\ UNCHANGED <<told, heard>> /\ record[p] # NoRecord
        /\ \A q \in Payments \ {p} : record'[q] = record[q]
    BY <1>9, DrillRecord
  <2> QED BY <1>3, <2>1
<1>10. ASSUME NEW c \in Calls, Abort(c) PROVE M!Next
  <2>1. /\ told' = [told EXCEPT ![c] = "unknown"] /\ UNCHANGED <<clock, record, heard>>
        /\ call[c].pc \notin {"late", "done"}
    BY <1>10 DEF Abort, IsWaiting, fake
  <2> QED BY <1>5, <2>1 DEF Answered
<1>11. ASSUME NEW c \in Calls, Receive(c) PROVE M!Next
  <2>1. /\ UNCHANGED <<clock, record>> /\ call[c].pc = "post"
        /\ call[c].reply \in Replies \ {"none"}
        /\ heard' = IF call[c].reply \in {"paid", "declined"}
                    THEN heard \cup {<<call[c].of, call[c].reply>>} ELSE heard
    BY <1>2, <1>11 DEF Receive, fake, CallState
  <2>2. CASE call[c].reply \in {"paid", "declined"}
    <3>1. c \in Queries /\ QueryInv(c)
      BY <1>1, <1>2, <2>2 DEF PaymentInv
    <3>2. call[c].of \in Acted /\ record[call[c].of].result = call[c].reply
      BY <2>2, <3>1 DEF QueryInv
    <3>3. \A p \in Payments : told'[p] = told[p]
      BY <1>1, <1>2, <1>11, <2>2, <3>1 DEF Receive, Finish
    <3>4. PICK p \in Acted : p = call[c].of
      BY <3>2
    <3>5. heard' = heard \cup {<<p, record[p].result>>}
      BY <2>1, <2>2, <3>2, <3>4
    <3>6. M!Report(p)
      BY <2>1, <3>3, <3>5, Reports
    <3> QED BY <3>6 DEF M!Next, Acted
  <2>3. CASE call[c].reply \notin {"paid", "declined", "401"}
    <3>1. PICK answer : answer = AnswerTo(call[c].reply) /\ Finish(c, answer)
      BY <1>11, <2>3 DEF Receive
    <3>2. /\ answer \in Answered
          /\ answer = "rejected" => call[c].reply = "refused"
          /\ answer = "ack" => call[c].reply = "ack"
      <4>1. call[c].reply \in Replies \ {"none", "401"}
        BY <2>1, <2>3
      <4> QED BY <3>1, <4>1, AnswerType
    <3>3. /\ c \in Payments /\ answer = "ack" => record[c] # NoRecord
          /\ c \in Payments /\ answer = "rejected" => record[c] = NoRecord
      BY <1>1, <3>2 DEF PaymentInv
    <3>4. told' = [told EXCEPT ![c] = answer] /\ UNCHANGED <<clock, record, heard>>
      BY <2>1, <2>3, <3>1 DEF Finish
    <3> QED BY <1>5, <2>1, <3>2, <3>3, <3>4
  <2>4. CASE call[c].reply = "401"
    <3>1. told' = told \/ told' = [told EXCEPT ![c] = "failed"]
      BY <1>11, <2>4 DEF Receive, Finish
    <3>2. UNCHANGED <<clock, record, heard>>
      BY <2>1, <2>4
    <3> QED BY <1>4, <1>5, <2>1, <3>1, <3>2 DEF Answered
  <2> QED BY <2>2, <2>3, <2>4
<1>12. ASSUME NEW f \in Flushes, Callback(f) \/ CallbackFails(f) PROVE M!Next
  <2>1. flush[f] \in Seq(Acted) /\ flush[f] # <<>> /\ UNCHANGED <<clock, record, told>>
    BY <1>1, <1>12 DEF Callback, CallbackFails, Deliver, DeliverFails, QueueInv
  <2>2. PICK p \in Acted : p = Head(flush[f])
    BY <2>1, HeadTailProperties
  <2>3. heard' = heard \/ heard' = heard \cup {<<p, record[p].result>>}
    BY <1>12, <2>2 DEF Callback, CallbackFails
  <2>4. CASE heard' = heard \cup {<<p, record[p].result>>}
    <3>1. M!Report(p)
      BY <2>1, <2>4, Reports
    <3> QED BY <3>1 DEF M!Next, Acted
  <2> QED BY <1>4, <2>1, <2>3, <2>4
<1>13. CASE \/ Revoke \/ Pass \/ UNCHANGED vars
            \/ \E c \in Calls : Issue(c) \/ TakeToken(c) \/ Unauthorized(c)
            \/ \E q \in Queries : Ask(q) \/ ServeQuery(q)
            \/ \E p \in Payments : TurnAway(p)
            \/ \E f \in Flushes : Flush(f)
  BY <1>4, <1>13 DEF Revoke, Pass, Tick, Issue, TakeToken, Unauthorized, Ask, ServeQuery, TurnAway,
                     Flush, Take, fake, adapter, vars
<1> QED BY <1>6, <1>7, <1>8, <1>9, <1>10, <1>11, <1>12, <1>13 DEF Next, Network

(* For every instance: a rejected payment was not made and never is, an    *)
(* acknowledged one was, and whatever callbacks and queries report is what *)
(* the customer did, also where calls time out and requests arrive late.   *)
THEOREM AdapterKeepsMpesa == Spec => ImplementsMpesa
<1>1. Init => RefinementInv
  <2>1. <<>> \in Seq(Queued) /\ <<>> \in Seq(Acted)
    BY EmptySeq
  <2>2. SUFFICES ASSUME Init PROVE RefinementInv
    OBVIOUS
  <2>3. pending = <<>> /\ flush = [f \in Flushes |-> <<>>]
    BY <2>2 DEF Init, FakeInit
  <2>4. QueueInv
    BY <2>1, <2>3 DEF QueueInv
  <2>5. AnswerInv
    BY <2>2 DEF Init, Idle, Calls, AnswerInv, PaymentInv, QueryInv
  <2> QED BY <2>4, <2>5 DEF RefinementInv
<1>2. TypeOK /\ TokenInv /\ RefinementInv /\ [Next]_vars => RefinementInv'
  BY NextQueueInv, NextAnswerInv DEF RefinementInv
<1>3. Spec => []RefinementInv
  BY <1>1, <1>2, TokenInvariant, PTL DEF Spec
<1>4. Init => M!Init
  BY DEF Init, FakeInit, Calls, AsAnswer, NoRecord, HasActed, M!Init
<1>5. TypeOK /\ TypeOK' /\ TokenInv /\ RefinementInv /\ [Next]_vars => M!Next
  BY StepImplements
<1> QED BY <1>3, <1>4, <1>5, TokenInvariant, PTL DEF Spec, ImplementsMpesa, M!Spec
=============================================================================
