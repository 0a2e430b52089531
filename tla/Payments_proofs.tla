-------------------------- MODULE Payments_proofs --------------------------
(***************************************************************************)
(* Proofs about Payments, for any number of calls and order ids, any       *)
(* idempotency modes and any error codes.                                  *)
(***************************************************************************)
EXTENDS Payments, TLAPS

-----------------------------------------------------------------------------
(* Type correctness                                                        *)

\* _raise_if_api_error raises one of the four API-tier exceptions or nothing.
LEMMA ApiExceptionType ==
    ASSUME NEW code \in Nat
    PROVE  ApiException(code) \in Exceptions \cup {"none"}
BY DEF ApiException, Exceptions

\* Every way a call can end is an outcome.
LEMMA RaisedType ==
    ASSUME NEW kind \in Kinds, NEW id \in Ids
    PROVE  Raised(kind, id) \in Outcome
BY DEF Raised, Outcome, WireStatus

\* So is what the client makes of any whole answer.
LEMMA AnswerType ==
    ASSUME NEW action, NEW r \in Reply
    PROVE  Answer(action, r) \in Outcome
<1>1. ApiException(r.code) \in Exceptions \cup {"none"}
  BY ApiExceptionType DEF Reply
<1>2. NoId \in Ids /\ "TransportError" \in Kinds
  BY DEF Ids, Kinds, NetworkErrors
<1>3. ASSUME ApiException(r.code) # "none"
      PROVE  Raised(ApiException(r.code), NoId) \in Outcome
  BY <1>1, <1>2, <1>3, RaisedType DEF Kinds
<1>4. TransactionResult(r) \in Outcome
  BY <1>2 DEF TransactionResult, Outcome, Kinds, WireStatus, ParseStatus,
     TransactionStatus
<1>5. OrderStatus(r) \in Outcome
  <2>1. \A x \in r.rows : [order |-> x.order, status |-> ParseStatus(x.status)]
                             \in [order : Calls, status : TransactionStatus]
    BY DEF Reply, Row, ParseStatus, TransactionStatus
  <2>2. CASE r.rows = {}
    BY <2>2, <1>2, RaisedType DEF OrderStatus
  <2>3. CASE r.rows # {}
    <3>1. {[order |-> x.order, status |-> ParseStatus(x.status)] : x \in r.rows}
             \in SUBSET [order : Calls, status : TransactionStatus]
      BY <2>1
    <3> QED BY <3>1, <2>3, <1>2 DEF OrderStatus, Outcome, Kinds, WireStatus
  <2> QED BY <2>2, <2>3
<1> QED BY <1>3, <1>4, <1>5 DEF Answer

\* What the gateway answers is a reply.
LEMMA AnswersAreReplies ==
    ASSUME TypeOK, NEW i \in Calls
    PROVE  /\ NoReply \in Reply
           /\ \A code \in ErrorCodes : Refusal(code) \in Reply
           /\ \A s \in WireStatus : Verdict(s) \in Reply
           /\ \A s \in Verdicts : Verdict(s) \in Reply
           /\ \A j \in Matching(req[i].id) :
                Verdict(IF WireMode(req[i].id) = 1 THEN "DECLINED" ELSE leg[j]) \in Reply
           /\ Table({[order |-> j, status |-> leg[j]] : j \in Matching(req[i].id)})
                \in Reply
<1>1. NoReply \in Reply
  BY DEF NoReply, Reply, WireStatus
<1>2. ASSUME NEW code \in ErrorCodes PROVE Refusal(code) \in Reply
  BY ErrorCodesAssumption DEF Refusal, Reply, WireStatus
<1>3. ASSUME NEW s \in WireStatus PROVE Verdict(s) \in Reply
  BY DEF Verdict, Reply
<1>4. ASSUME NEW s \in Verdicts PROVE Verdict(s) \in Reply
  BY <1>3, VerdictsAssumption DEF WireStatus
<1>5. ASSUME NEW j \in Matching(req[i].id)
      PROVE  Verdict(IF WireMode(req[i].id) = 1 THEN "DECLINED" ELSE leg[j]) \in Reply
  BY <1>3 DEF Matching, TypeOK, WireStatus, TransactionStatus
<1>6. {[order |-> j, status |-> leg[j]] : j \in Matching(req[i].id)} \in SUBSET Row
  BY DEF Matching, Row, TypeOK
<1>7. Table({[order |-> j, status |-> leg[j]] : j \in Matching(req[i].id)}) \in Reply
  BY <1>6 DEF Table, Reply, WireStatus
<1> QED BY <1>1, <1>2, <1>3, <1>4, <1>5, <1>7

\* The initial state is well typed.
LEMMA TypeInit == Init => TypeOK
BY RaisedType DEF Init, TypeOK, Ids, Request, Reply, NoReply, WireStatus, Kinds

\* Every step keeps every variable in its type.
LEMMA TypeNext == TypeOK /\ [Next]_vars => TypeOK'
<1> SUFFICES ASSUME TypeOK, [Next]_vars PROVE TypeOK'
  OBVIOUS
<1> USE DEF TypeOK
<1>1. NoReply \in Reply
  BY DEF NoReply, Reply, WireStatus
<1>2. ASSUME NEW i \in Calls, NEW o \in Outcome, Return(i, o),
             inflight' \subseteq Calls
      PROVE  TypeOK'
  BY <1>1, <1>2 DEF Return
<1>3. ASSUME NEW i \in Calls, NEW r \in Reply, Process(i, r), leg' \in [Calls -> WireStatus]
      PROVE  TypeOK'
  BY <1>3 DEF Process
<1>4. ASSUME NEW i \in Calls, Transact(i) PROVE TypeOK'
  BY <1>4 DEF Transact, Post, Request, Ids
<1>5. ASSUME NEW i \in Calls, Status(i) PROVE TypeOK'
  BY <1>5 DEF Status, Post, Request, Ids
<1>6. ASSUME NEW i \in Calls, RejectLocally(i) PROVE TypeOK'
  <2>1. /\ Raised("ValidationError", NoId) \in Outcome
        /\ Raised("Unwrapped", NoId) \in Outcome
    BY RaisedType DEF Kinds, Exceptions, NetworkErrors, Ids
  <2> QED BY <1>6, <2>1 DEF RejectLocally, Request, Ids
<1>7. ASSUME NEW i \in Calls, Receive(i) PROVE TypeOK'
  BY <1>2, <1>7, AnswerType DEF Receive
<1>8. ASSUME NEW i \in Calls, ConnectTimeout(i) PROVE TypeOK'
  <2>1. Raised("InovioTimeoutError", ErrorKey(req[i])) \in Outcome
    BY RaisedType DEF Kinds, NetworkErrors, ErrorKey, Ids, Request
  <2> QED BY <1>2, <1>8, <2>1 DEF ConnectTimeout
<1>9. ASSUME NEW i \in Calls, ReadTimeout(i) PROVE TypeOK'
  <2>1. Raised("InovioTimeoutError", ErrorKey(req[i])) \in Outcome
    BY RaisedType DEF Kinds, NetworkErrors, ErrorKey, Ids, Request
  <2>2. Raised("socket.timeout", NoId) \in Outcome
    BY RaisedType DEF Kinds, NetworkErrors, Ids
  <2> QED BY <1>2, <1>9, <2>1, <2>2 DEF ReadTimeout
<1>10. ASSUME NEW i \in Calls, NetworkFails(i) PROVE TypeOK'
  <2>1. \A kind \in {"TransportError", "Unwrapped"} : Raised(kind, NoId) \in Outcome
    BY RaisedType DEF Kinds, NetworkErrors, Ids
  <2> QED BY <1>2, <1>10, <2>1 DEF NetworkFails
<1>18. ASSUME NEW i \in Calls, ReceiveUnreadable(i) PROVE TypeOK'
  <2>1. Raised("Unwrapped", NoId) \in Outcome
    BY RaisedType DEF Kinds, NetworkErrors, Ids
  <2> QED BY <1>2, <1>18, <2>1 DEF ReceiveUnreadable
<1>19. ASSUME NEW i \in Calls, Misanswered(i) PROVE TypeOK'
  <2>1. Verdict("none") \in Reply
    BY AnswersAreReplies DEF WireStatus
  <2> QED BY <1>2, <1>19, <2>1, AnswerType DEF Misanswered
<1>11. ASSUME NEW i \in Calls, LoseRequest(i) PROVE TypeOK'
  BY <1>11 DEF LoseRequest
<1>12. ASSUME NEW i \in Calls, GatewayRefuses(i) PROVE TypeOK'
  BY <1>3, <1>12, AnswersAreReplies DEF GatewayRefuses
<1>13. ASSUME NEW i \in Calls, GatewayDecides(i) PROVE TypeOK'
  <2>1. PICK s \in Verdicts : Process(i, Verdict(s)) /\ leg' = [leg EXCEPT ![i] = s]
    BY <1>13 DEF GatewayDecides
  <2>2. leg' \in [Calls -> WireStatus]
    BY <2>1, VerdictsAssumption DEF WireStatus
  <2> QED BY <1>3, <2>1, <2>2, AnswersAreReplies
<1>14. ASSUME NEW i \in Calls, GatewayRepeats(i) PROVE TypeOK'
  BY <1>3, <1>14, AnswersAreReplies DEF GatewayRepeats
<1>15. ASSUME NEW i \in Calls, GatewayReports(i) PROVE TypeOK'
  BY <1>3, <1>15, AnswersAreReplies DEF GatewayReports
<1>16. ASSUME NEW i \in Calls, Settle(i) PROVE TypeOK'
  BY <1>16 DEF Settle, WireStatus, TransactionStatus
<1>17. CASE UNCHANGED vars
  BY <1>17 DEF vars
<1> QED
  BY <1>4, <1>5, <1>6, <1>7, <1>8, <1>9, <1>10, <1>11, <1>12, <1>13, <1>14,
     <1>15, <1>16, <1>17, <1>18, <1>19 DEF Next

\* Every variable keeps its type.
THEOREM TypeCorrect == Spec => []TypeOK
BY TypeInit, TypeNext, PTL DEF Spec

-----------------------------------------------------------------------------
(* What a call's stage says of its request, answer, order and outcome      *)

Bookkeeping ==
    \A i \in Calls :
        /\ pc[i] = "idle" => i \notin inflight /\ leg[i] = "none"
        /\ i \in inflight => leg[i] = "none" /\ ~reply[i].arrived
        /\ pc[i] # "sent" => reply[i] = NoReply
        /\ pc[i] # "returned" => outcome[i] = Raised("none", NoId)
        /\ reply[i].code # 0 => leg[i] = "none"

\* Nothing has been sent, answered or returned at first.
LEMMA BookkeepingInit == Init => Bookkeeping
BY DEF Init, Bookkeeping, NoReply

\* A call that returns leaves its connection empty and its order alone.
LEMMA ReturnKeepsBookkeeping ==
    ASSUME TypeOK, Bookkeeping, NEW i \in Calls, NEW o, Return(i, o),
           inflight' \in {inflight, inflight \ {i}}
    PROVE  Bookkeeping'
<1>1. inflight' \subseteq inflight
  OBVIOUS
<1>2. /\ pc' = [pc EXCEPT ![i] = "returned"]
      /\ reply' = [reply EXCEPT ![i] = NoReply]
      /\ outcome' = [outcome EXCEPT ![i] = o]
      /\ leg' = leg
  BY DEF Return
<1> SUFFICES ASSUME NEW j \in Calls
             PROVE  /\ pc'[j] = "idle" => j \notin inflight' /\ leg'[j] = "none"
                    /\ j \in inflight' => leg'[j] = "none" /\ ~reply'[j].arrived
                    /\ pc'[j] # "sent" => reply'[j] = NoReply
                    /\ pc'[j] # "returned" => outcome'[j] = Raised("none", NoId)
                    /\ reply'[j].code # 0 => leg'[j] = "none"
  BY DEF Bookkeeping
<1> QED BY <1>1, <1>2 DEF Bookkeeping, TypeOK, NoReply

\* An answer of the gateway names an order or an error code, never both.
LEMMA ProcessKeepsBookkeeping ==
    ASSUME TypeOK, Bookkeeping, NEW i \in Calls, NEW r \in Reply, Process(i, r),
           \/ leg' = leg
           \/ r.code = 0 /\ \E s : leg' = [leg EXCEPT ![i] = s]
    PROVE  Bookkeeping'
<1>1. i \in inflight /\ inflight' = inflight \ {i}
  BY DEF Process
<1>2. pc' = pc /\ outcome' = outcome /\ pc[i] # "idle"
  BY <1>1 DEF Process, Bookkeeping
<1>3. \A j \in Calls : j # i => reply'[j] = reply[j] /\ leg'[j] = leg[j]
  BY DEF Process, TypeOK
<1>4. reply'[i] = IF pc[i] = "sent" THEN r ELSE reply[i]
  BY DEF Process, TypeOK
<1>5. reply'[i].code # 0 => leg'[i] = "none"
  BY <1>1, <1>4 DEF Bookkeeping, TypeOK, NoReply
<1> QED BY <1>1, <1>2, <1>3, <1>4, <1>5 DEF Bookkeeping

\* Every step keeps the books of every call.
LEMMA BookkeepingNext == TypeOK /\ Bookkeeping /\ [Next]_vars => Bookkeeping'
<1> SUFFICES ASSUME TypeOK, Bookkeeping, [Next]_vars PROVE Bookkeeping'
  OBVIOUS
<1>1. ASSUME NEW i \in Calls, NEW action, NEW id, Post(i, action, id)
      PROVE  Bookkeeping'
  BY <1>1 DEF Post, Bookkeeping, TypeOK, NoReply
<1>2. ASSUME NEW i \in Calls, RejectLocally(i) PROVE Bookkeeping'
  BY <1>2 DEF RejectLocally, Bookkeeping, TypeOK, NoReply
<1>3. ASSUME NEW i \in Calls,
             \/ Receive(i) \/ ReceiveUnreadable(i) \/ Misanswered(i)
             \/ ConnectTimeout(i) \/ ReadTimeout(i) \/ NetworkFails(i)
      PROVE  Bookkeeping'
  BY <1>3, ReturnKeepsBookkeeping
     DEF Receive, ReceiveUnreadable, Misanswered, ConnectTimeout, ReadTimeout,
         NetworkFails
<1>4. ASSUME NEW i \in Calls, LoseRequest(i) PROVE Bookkeeping'
  BY <1>4 DEF LoseRequest, Bookkeeping
<1>5. ASSUME NEW i \in Calls,
             GatewayRefuses(i) \/ GatewayRepeats(i) \/ GatewayReports(i)
      PROVE  Bookkeeping'
  <2>1. PICK r \in Reply : Process(i, r)
    BY <1>5, AnswersAreReplies DEF GatewayRefuses, GatewayRepeats, GatewayReports
  <2>2. leg' = leg
    BY <1>5 DEF GatewayRefuses, GatewayRepeats, GatewayReports
  <2> QED BY <2>1, <2>2, ProcessKeepsBookkeeping
<1>8. ASSUME NEW i \in Calls, GatewayDecides(i) PROVE Bookkeeping'
  <2>1. PICK s \in Verdicts : Process(i, Verdict(s)) /\ leg' = [leg EXCEPT ![i] = s]
    BY <1>8 DEF GatewayDecides
  <2>2. Verdict(s) \in Reply /\ Verdict(s).code = 0
    BY AnswersAreReplies DEF Verdict
  <2> QED BY <2>1, <2>2, ProcessKeepsBookkeeping
<1>6. ASSUME NEW i \in Calls, Settle(i) PROVE Bookkeeping'
  BY <1>6, UnlistedAssumption DEF Settle, Bookkeeping, TypeOK
<1>7. CASE UNCHANGED vars
  BY <1>7 DEF vars, Bookkeeping
<1> QED
  BY <1>1, <1>2, <1>3, <1>4, <1>5, <1>6, <1>7, <1>8 DEF Next, Transact, Status

-----------------------------------------------------------------------------
(* At most one order per retry-safe id                                     *)

\* A repeated id is only ever processed under OFF: the mode the SDK sends for
\* every other setting makes the gateway answer with the order it has.
LEMMA RepeatIsDeduplicated ==
    ASSUME TypeOK, NEW i \in Calls, NEW j \in Calls, ~Deduplicated(i),
           req[i].id # NoId, req[j].id = req[i].id, leg[j] # "none"
    PROVE  Mode[req[i].id] = "OFF"
<1>1. j \in Matching(req[i].id)
  BY DEF Matching
<1>2. WireMode(req[i].id) = 0
  BY <1>1 DEF Deduplicated
<1>3. Mode[req[i].id] \in Modes
  BY ModeAssumption DEF TypeOK, Request, Ids
<1> QED BY <1>2, <1>3 DEF WireMode, Modes

\* Steps that create no order and touch no order's id keep NoDoubleCharge.
LEMMA SameOrdersKeepNoDoubleCharge ==
    ASSUME NoDoubleCharge,
           \A i \in Calls : leg'[i] # "none" => leg[i] # "none" /\ req'[i] = req[i]
    PROVE  NoDoubleCharge'
BY DEF NoDoubleCharge

\* Only GatewayDecides makes an order, never of a deduplicated id that has one.
LEMMA NoDoubleChargeNext ==
    TypeOK /\ Bookkeeping /\ NoDoubleCharge /\ [Next]_vars => NoDoubleCharge'
<1> SUFFICES ASSUME TypeOK, Bookkeeping, NoDoubleCharge, [Next]_vars
             PROVE  NoDoubleCharge'
  OBVIOUS
<1>1. ASSUME NEW i \in Calls, NEW action, NEW id, Post(i, action, id)
      PROVE  NoDoubleCharge'
  BY <1>1, SameOrdersKeepNoDoubleCharge DEF Post, TypeOK, Bookkeeping
<1>2. ASSUME NEW i \in Calls, RejectLocally(i) PROVE NoDoubleCharge'
  BY <1>2, SameOrdersKeepNoDoubleCharge DEF RejectLocally, TypeOK, Bookkeeping
<1>3. ASSUME NEW i \in Calls,
             \/ Receive(i) \/ ReceiveUnreadable(i) \/ Misanswered(i)
             \/ ConnectTimeout(i) \/ ReadTimeout(i) \/ NetworkFails(i)
      PROVE  NoDoubleCharge'
  <2>1. req' = req /\ leg' = leg
    BY <1>3 DEF Receive, ReceiveUnreadable, Misanswered, ConnectTimeout,
       ReadTimeout, NetworkFails, Return
  <2> QED BY <2>1, SameOrdersKeepNoDoubleCharge
<1>4. ASSUME NEW i \in Calls, LoseRequest(i) PROVE NoDoubleCharge'
  BY <1>4, SameOrdersKeepNoDoubleCharge DEF LoseRequest
<1>5. ASSUME NEW i \in Calls,
             GatewayRefuses(i) \/ GatewayRepeats(i) \/ GatewayReports(i)
      PROVE  NoDoubleCharge'
  <2>1. req' = req /\ leg' = leg
    BY <1>5 DEF GatewayRefuses, GatewayRepeats, GatewayReports, Process
  <2> QED BY <2>1, SameOrdersKeepNoDoubleCharge
<1>6. ASSUME NEW i \in Calls, GatewayDecides(i) PROVE NoDoubleCharge'
  <2>1. req' = req /\ \A j \in Calls : j # i => leg'[j] = leg[j]
    BY <1>6 DEF GatewayDecides, Process, TypeOK
  <2>2. ASSUME NEW j \in Calls, j # i, leg[j] # "none", req[j].id = req[i].id,
               req[i].id # NoId
        PROVE  Mode[req[i].id] = "OFF"
    BY <1>6, <2>2, RepeatIsDeduplicated DEF GatewayDecides
  <2> QED BY <2>1, <2>2 DEF NoDoubleCharge
<1>7. ASSUME NEW i \in Calls, Settle(i) PROVE NoDoubleCharge'
  <2>1. req' = req /\ \A j \in Calls : leg'[j] # "none" => leg[j] # "none"
    BY <1>7, UnlistedAssumption DEF Settle, TypeOK
  <2> QED BY <2>1, SameOrdersKeepNoDoubleCharge
<1>8. CASE UNCHANGED vars
  BY <1>8, SameOrdersKeepNoDoubleCharge DEF vars
<1> QED
  BY <1>1, <1>2, <1>3, <1>4, <1>5, <1>6, <1>7, <1>8 DEF Next, Transact, Status

\* However many calls use a retry-safe id, the gateway makes one order of them.
THEOREM AtMostOneCharge == Spec => []NoDoubleCharge
<1>1. Init => NoDoubleCharge
  BY DEF Init, NoDoubleCharge
<1>2. TypeOK /\ Bookkeeping /\ NoDoubleCharge /\ [Next]_vars
        => TypeOK' /\ Bookkeeping' /\ NoDoubleCharge'
  BY TypeNext, BookkeepingNext, NoDoubleChargeNext
<1> QED BY <1>1, <1>2, TypeInit, BookkeepingInit, PTL DEF Spec

-----------------------------------------------------------------------------
(* Answers on the wire, and answers told, speak of orders that are there   *)

\* An order with status s stands behind what call i is told.
Evidence(i, s) ==
    \E j \in Calls :
        /\ leg[j] = s
        /\ \/ j = i
           \/ req[i].id # NoId /\ req[j].id = req[i].id

\* DECLINED needs no order under DECLINE_DUP: it then means "a duplicate".
Vouched(i, s) ==
    s = "APPROVED" \/ (s = "DECLINED" /\ RetrySafe(req[i].id)) => Evidence(i, s)

RepliesVouched ==
    \A i \in Calls : /\ Vouched(i, reply[i].status)
                     /\ \A x \in reply[i].rows : Vouched(i, x.status)

ToldVouched == \A i \in Calls : \A s \in Told(i) : Vouched(i, s)

\* A decided order keeps its status and its id, and so does the id of any call
\* that has begun.
LEMMA DecidedOrdersStay ==
    ASSUME TypeOK, Bookkeeping, [Next]_vars, NEW j \in Calls
    PROVE  /\ leg[j] \in {"APPROVED", "DECLINED"} => leg'[j] = leg[j]
           /\ pc[j] # "idle" => req'[j] = req[j]
<1>1. ASSUME NEW i \in Calls, NEW action, NEW id, Post(i, action, id)
      PROVE  leg' = leg /\ (pc[j] # "idle" => req'[j] = req[j])
  BY <1>1 DEF Post, TypeOK
<1>2. ASSUME NEW i \in Calls, RejectLocally(i)
      PROVE  leg' = leg /\ (pc[j] # "idle" => req'[j] = req[j])
  BY <1>2 DEF RejectLocally, TypeOK
<1>3. ASSUME NEW i \in Calls,
             \/ Receive(i) \/ ReceiveUnreadable(i) \/ Misanswered(i)
             \/ ConnectTimeout(i) \/ ReadTimeout(i) \/ NetworkFails(i)
             \/ LoseRequest(i)
      PROVE  leg' = leg /\ req' = req
  BY <1>3 DEF Receive, ReceiveUnreadable, Misanswered, ConnectTimeout,
     ReadTimeout, NetworkFails, Return, LoseRequest
<1>4. ASSUME NEW i \in Calls,
             GatewayRefuses(i) \/ GatewayRepeats(i) \/ GatewayReports(i)
      PROVE  leg' = leg /\ req' = req
  BY <1>4 DEF GatewayRefuses, GatewayRepeats, GatewayReports, Process
<1>5. ASSUME NEW i \in Calls, GatewayDecides(i)
      PROVE  /\ leg[j] \in {"APPROVED", "DECLINED"} => leg'[j] = leg[j]
             /\ req' = req
  <2>1. leg[i] = "none"
    BY <1>5 DEF GatewayDecides, Process, Bookkeeping
  <2> QED BY <1>5, <2>1 DEF GatewayDecides, Process, TypeOK
<1>6. ASSUME NEW i \in Calls, Settle(i)
      PROVE  /\ leg[j] \in {"APPROVED", "DECLINED"} => leg'[j] = leg[j]
             /\ req' = req
  BY <1>6, UnlistedAssumption DEF Settle, TypeOK, TransactionStatus
<1>7. CASE UNCHANGED vars
  BY <1>7 DEF vars
<1> QED
  BY <1>1, <1>2, <1>3, <1>4, <1>5, <1>6, <1>7 DEF Next, Transact, Status

\* What stood behind an answer still stands behind it.
LEMMA VouchedStays ==
    ASSUME TypeOK, Bookkeeping, [Next]_vars, NEW i \in Calls, pc[i] # "idle",
           NEW s, Vouched(i, s)
    PROVE  Vouched(i, s)'
<1>1. req'[i] = req[i]
  BY DecidedOrdersStay
<1>2. ASSUME s \in {"APPROVED", "DECLINED"}, Evidence(i, s) PROVE Evidence(i, s)'
  <2>1. PICK j \in Calls :
          /\ leg[j] = s
          /\ \/ j = i
             \/ req[i].id # NoId /\ req[j].id = req[i].id
    BY <1>2 DEF Evidence
  <2>2. leg'[j] = s
    BY <1>2, <2>1, DecidedOrdersStay
  <2>3. req'[j] = req[j]
    BY <1>2, <2>1, DecidedOrdersStay DEF Bookkeeping
  <2> QED BY <1>1, <2>1, <2>2, <2>3 DEF Evidence
<1> QED BY <1>1, <1>2 DEF Vouched, RetrySafe

\* Calls whose answer or outcome a step leaves alone remain vouched for.
LEMMA UntouchedStayVouched ==
    ASSUME TypeOK, Bookkeeping, RepliesVouched, ToldVouched, [Next]_vars,
           NEW i \in Calls
    PROVE  /\ reply'[i] \in {reply[i], NoReply}
                => /\ Vouched(i, reply[i].status)'
                   /\ \A x \in reply'[i].rows : Vouched(i, x.status)'
           /\ outcome'[i] = outcome[i] => \A s \in Told(i)' : Vouched(i, s)'
<1>1. \A s : s \notin {"APPROVED", "DECLINED"} => Vouched(i, s)'
  BY DEF Vouched
<1>2. reply'[i] = NoReply => /\ Vouched(i, reply[i].status)'
                             /\ \A x \in reply'[i].rows : Vouched(i, x.status)'
  BY <1>1 DEF NoReply
<1>3. CASE pc[i] = "idle"
  <2>1. reply[i] = NoReply /\ outcome[i] = Raised("none", NoId)
    BY <1>3 DEF Bookkeeping
  <2>2. outcome'[i] = outcome[i] => Told(i)' = {}
    BY <2>1 DEF Told, Raised
  <2> QED BY <1>2, <2>1, <2>2
<1>4. CASE pc[i] # "idle"
  <2>1. \A s : Vouched(i, s) => Vouched(i, s)'
    BY <1>4, VouchedStays
  <2>2. reply'[i] = reply[i] => /\ Vouched(i, reply[i].status)'
                                /\ \A x \in reply'[i].rows : Vouched(i, x.status)'
    BY <2>1 DEF RepliesVouched
  <2>3. outcome'[i] = outcome[i] => Told(i)' = Told(i)
    BY DEF Told
  <2> QED BY <1>2, <2>1, <2>2, <2>3 DEF ToldVouched
<1> QED BY <1>3, <1>4

\* What the client makes of an answer tells no more than the answer does.
LEMMA AnswerTellsWhatArrived ==
    ASSUME NEW i \in Calls, NEW action, NEW r \in Reply,
           outcome'[i] = Answer(action, r), NEW s \in Told(i)',
           s \in {"APPROVED", "DECLINED"}
    PROVE  s = r.status \/ \E x \in r.rows : s = x.status
<1>1. CASE ApiException(r.code) # "none"
  <2>1. outcome'[i] = Raised(ApiException(r.code), NoId)
    BY <1>1 DEF Answer
  <2>2. ApiException(r.code) # "TransactionResult"
    BY ApiExceptionType DEF Reply, Exceptions
  <2> QED BY <2>1, <2>2 DEF Raised, Told
<1>2. CASE ApiException(r.code) = "none" /\ action # "CCSTATUS"
  <2>1. Told(i)' = {ParseStatus(r.status)}
    BY <1>2 DEF Answer, TransactionResult, Told
  <2> QED BY <2>1 DEF ParseStatus
<1>3. CASE ApiException(r.code) = "none" /\ action = "CCSTATUS"
  <2>1. outcome'[i] = OrderStatus(r)
    BY <1>3 DEF Answer
  <2>2. r.rows # {} /\ Told(i)' = {x.status : x \in
                   {[order |-> y.order, status |-> ParseStatus(y.status)] : y \in r.rows}}
    BY <2>1 DEF OrderStatus, Raised, Told
  <2>3. PICK y \in r.rows : s = ParseStatus(y.status)
    BY <2>2
  <2> QED BY <2>3 DEF ParseStatus
<1> QED BY <1>1, <1>2, <1>3

\* A step of the gateway that answers call i with something vouched for.
LEMMA ProcessKeepsVouched ==
    ASSUME TypeOK, Bookkeeping, RepliesVouched, ToldVouched, [Next]_vars,
           NEW i \in Calls, NEW r, Process(i, r),
           Vouched(i, r.status)', \A x \in r.rows : Vouched(i, x.status)'
    PROVE  RepliesVouched' /\ ToldVouched'
<1>1. outcome' = outcome
  BY DEF Process
<1>2. ToldVouched'
  BY <1>1, UntouchedStayVouched DEF ToldVouched
<1>3. ASSUME NEW j \in Calls
      PROVE  /\ Vouched(j, reply[j].status)'
             /\ \A x \in reply'[j].rows : Vouched(j, x.status)'
  <2>1. CASE reply'[j] = reply[j]
    BY <2>1, UntouchedStayVouched
  <2>2. CASE reply'[j] # reply[j]
    <3>1. j = i /\ reply'[j] = r
      BY <2>2 DEF Process, TypeOK
    <3> QED BY <3>1 DEF Vouched, Evidence
  <2> QED BY <2>1, <2>2
<1> QED BY <1>2, <1>3 DEF RepliesVouched

\* Every step leaves what is told, and what is about to be, vouched for.
LEMMA VouchedNext ==
    TypeOK /\ Bookkeeping /\ RepliesVouched /\ ToldVouched /\ [Next]_vars
      => RepliesVouched' /\ ToldVouched'
<1> SUFFICES ASSUME TypeOK, Bookkeeping, RepliesVouched, ToldVouched, [Next]_vars
             PROVE  RepliesVouched' /\ ToldVouched'
  OBVIOUS
<1>1. \A i \in Calls : reply'[i] \in {reply[i], NoReply}
        => /\ Vouched(i, reply[i].status)'
           /\ \A x \in reply'[i].rows : Vouched(i, x.status)'
  BY UntouchedStayVouched
<1>2. (\A i \in Calls : reply'[i] \in {reply[i], NoReply}) => RepliesVouched'
  BY <1>1 DEF RepliesVouched
<1>3. \A i \in Calls : outcome'[i] = outcome[i] => \A s \in Told(i)' : Vouched(i, s)'
  BY UntouchedStayVouched
<1>4. ASSUME reply' = reply, outcome' = outcome
      PROVE  RepliesVouched' /\ ToldVouched'
  BY <1>2, <1>3, <1>4 DEF ToldVouched
<1>5. ASSUME NEW i \in Calls, \A j \in Calls \ {i} : outcome'[j] = outcome[j],
             \A j \in Calls : reply'[j] \in {reply[j], NoReply},
             \A s \in Told(i)' : Vouched(i, s)'
      PROVE  RepliesVouched' /\ ToldVouched'
  BY <1>2, <1>3, <1>5 DEF ToldVouched
<1>6. ASSUME NEW i \in Calls, NEW kind, NEW id, kind # "TransactionResult",
             outcome'[i] = Raised(kind, id)
      PROVE  Told(i)' = {}
  BY <1>6 DEF Told, Raised
<1>7. ASSUME NEW i \in Calls, NEW kind, NEW id, kind # "TransactionResult",
             Return(i, Raised(kind, id))
      PROVE  RepliesVouched' /\ ToldVouched'
  <2>1. /\ \A j \in Calls \ {i} : outcome'[j] = outcome[j]
        /\ \A j \in Calls : reply'[j] \in {reply[j], NoReply}
        /\ outcome'[i] = Raised(kind, id)
    BY <1>7 DEF Return, TypeOK
  <2> QED BY <1>5, <1>6, <1>7, <2>1
<1>8. ASSUME NEW i \in Calls, NEW action, NEW id, Post(i, action, id)
      PROVE  RepliesVouched' /\ ToldVouched'
  BY <1>4, <1>8 DEF Post
<1>9. ASSUME NEW i \in Calls, RejectLocally(i) PROVE RepliesVouched' /\ ToldVouched'
  <2>1. /\ \A j \in Calls \ {i} : outcome'[j] = outcome[j]
        /\ reply' = reply
        /\ \E kind \in {"ValidationError", "Unwrapped"} : outcome'[i] = Raised(kind, NoId)
    BY <1>9 DEF RejectLocally, TypeOK
  <2>2. Told(i)' = {}
    BY <1>6, <2>1
  <2> QED BY <1>5, <2>1, <2>2
<1>10. ASSUME NEW i \in Calls, Receive(i) PROVE RepliesVouched' /\ ToldVouched'
  <2>1. /\ \A j \in Calls \ {i} : outcome'[j] = outcome[j]
        /\ \A j \in Calls : reply'[j] \in {reply[j], NoReply}
        /\ outcome'[i] = Answer(req[i].action, reply[i])
        /\ pc[i] # "idle"
    BY <1>10 DEF Receive, Return, TypeOK
  <2>2. ASSUME NEW s \in Told(i)' PROVE Vouched(i, s)'
    <3>1. CASE s \in {"APPROVED", "DECLINED"}
      <4>1. reply[i] \in Reply
        BY DEF TypeOK
      <4>2. s = reply[i].status \/ \E x \in reply[i].rows : s = x.status
        BY <2>1, <2>2, <3>1, <4>1, AnswerTellsWhatArrived
      <4>3. Vouched(i, s)
        BY <4>2 DEF RepliesVouched
      <4> QED BY <2>1, <4>3, VouchedStays
    <3>2. CASE s \notin {"APPROVED", "DECLINED"}
      BY <3>2 DEF Vouched
    <3> QED BY <3>1, <3>2
  <2> QED BY <1>5, <2>1, <2>2
<1>11. ASSUME NEW i \in Calls,
              \/ ReceiveUnreadable(i)
              \/ ConnectTimeout(i) \/ ReadTimeout(i) \/ NetworkFails(i)
       PROVE  RepliesVouched' /\ ToldVouched'
  BY <1>7, <1>11 DEF ReceiveUnreadable, ConnectTimeout, ReadTimeout, NetworkFails
<1>18. ASSUME NEW i \in Calls, Misanswered(i) PROVE RepliesVouched' /\ ToldVouched'
  <2>1. /\ \A j \in Calls \ {i} : outcome'[j] = outcome[j]
        /\ \A j \in Calls : reply'[j] \in {reply[j], NoReply}
        /\ outcome'[i] = Answer(req[i].action, Verdict("none"))
    BY <1>18 DEF Misanswered, Return, TypeOK
  <2>2. /\ Verdict("none") \in Reply
        /\ Verdict("none").status = "none" /\ Verdict("none").rows = {}
    BY AnswersAreReplies DEF Verdict, WireStatus
  <2>3. \A s \in Told(i)' : s \notin {"APPROVED", "DECLINED"}
    BY <2>1, <2>2, AnswerTellsWhatArrived
  <2> QED BY <1>5, <2>1, <2>3 DEF Vouched
<1>12. ASSUME NEW i \in Calls, LoseRequest(i) \/ Settle(i)
       PROVE  RepliesVouched' /\ ToldVouched'
  BY <1>4, <1>12 DEF LoseRequest, Settle
<1>13. ASSUME NEW i \in Calls, GatewayRefuses(i) PROVE RepliesVouched' /\ ToldVouched'
  <2>1. PICK code \in ErrorCodes : Process(i, Refusal(code))
    BY <1>13 DEF GatewayRefuses
  <2>2. Refusal(code).status = "none" /\ Refusal(code).rows = {}
    BY DEF Refusal
  <2>3. Vouched(i, Refusal(code).status)'
    BY <2>2 DEF Vouched
  <2> QED BY <2>1, <2>2, <2>3, ProcessKeepsVouched
<1>14. ASSUME NEW i \in Calls, GatewayDecides(i) PROVE RepliesVouched' /\ ToldVouched'
  <2>1. PICK s \in Verdicts : Process(i, Verdict(s)) /\ leg' = [leg EXCEPT ![i] = s]
    BY <1>14 DEF GatewayDecides
  <2>2. Verdict(s).status = s /\ Verdict(s).rows = {}
    BY DEF Verdict
  <2>3. Vouched(i, Verdict(s).status)'
    BY <2>1, <2>2 DEF Vouched, Evidence, TypeOK
  <2> QED BY <2>1, <2>2, <2>3, ProcessKeepsVouched
<1>15. ASSUME NEW i \in Calls, GatewayRepeats(i) PROVE RepliesVouched' /\ ToldVouched'
  <2>1. PICK j \in Matching(req[i].id) : \E r :
          /\ Process(i, r)
          /\ r = Verdict(IF WireMode(req[i].id) = 1 THEN "DECLINED" ELSE leg[j])
    BY <1>15 DEF GatewayRepeats
  <2>2. PICK r :
          /\ Process(i, r)
          /\ r = Verdict(IF WireMode(req[i].id) = 1 THEN "DECLINED" ELSE leg[j])
    BY <2>1
  <2>3. /\ r.status = IF WireMode(req[i].id) = 1 THEN "DECLINED" ELSE leg[j]
        /\ r.rows = {}
    BY <2>2 DEF Verdict
  <2>4. /\ leg' = leg /\ req' = req
        /\ j \in Calls /\ req[i].id # NoId /\ req[j].id = req[i].id
    BY <1>15, <2>2 DEF GatewayRepeats, Process, Matching
  <2>5. CASE WireMode(req[i].id) = 1
    <3>1. ~RetrySafe(req[i].id)
      BY <2>5 DEF RetrySafe, WireMode
    <3>2. Vouched(i, r.status)'
      BY <2>3, <2>4, <2>5, <3>1 DEF Vouched, RetrySafe
    <3> QED BY <2>2, <2>3, <3>2, ProcessKeepsVouched
  <2>6. CASE WireMode(req[i].id) # 1
    <3>1. Vouched(i, r.status)'
      BY <2>3, <2>4, <2>6 DEF Vouched, Evidence
    <3> QED BY <2>2, <2>3, <3>1, ProcessKeepsVouched
  <2> QED BY <2>5, <2>6
<1>16. ASSUME NEW i \in Calls, GatewayReports(i) PROVE RepliesVouched' /\ ToldVouched'
  <2>1. PICK r : /\ Process(i, r)
                 /\ r = Table({[order |-> j, status |-> leg[j]] :
                                 j \in Matching(req[i].id)})
    BY <1>16 DEF GatewayReports
  <2>2. leg' = leg /\ req' = req /\ r.status = "none"
    BY <1>16, <2>1 DEF GatewayReports, Process, Table
  <2>3. ASSUME NEW x \in r.rows PROVE Vouched(i, x.status)'
    <3>1. PICK j \in Matching(req[i].id) : x.status = leg[j]
      BY <2>1 DEF Table
    <3> QED BY <2>2, <3>1 DEF Matching, Vouched, Evidence
  <2>4. Vouched(i, r.status)'
    BY <2>2 DEF Vouched
  <2> QED BY <2>1, <2>3, <2>4, ProcessKeepsVouched
<1>17. CASE UNCHANGED vars
  BY <1>4, <1>17 DEF vars
<1> QED
  BY <1>8, <1>9, <1>10, <1>11, <1>12, <1>13, <1>14, <1>15, <1>16, <1>17, <1>18
     DEF Next, Transact, Status

\* Nothing is told at first.
LEMMA VouchedInit == Init => RepliesVouched /\ ToldVouched
BY DEF Init, RepliesVouched, ToldVouched, Vouched, Told, NoReply, Raised

\* The inductive invariant behind the safety theorems below.
IInv == TypeOK /\ Bookkeeping /\ NoDoubleCharge /\ RepliesVouched /\ ToldVouched

\* The inductive invariant holds in every reachable state.
LEMMA InductiveInvariant == Spec => []IInv
<1>1. Init => IInv
  BY TypeInit, BookkeepingInit, VouchedInit DEF IInv, Init, NoDoubleCharge
<1>2. IInv /\ [Next]_vars => IInv'
  BY TypeNext, BookkeepingNext, NoDoubleChargeNext, VouchedNext DEF IInv
<1> QED BY <1>1, <1>2, PTL DEF Spec

\* No interleaving makes the SDK report an approval the gateway did not give.
THEOREM ApprovalIsReal == Spec => []ApprovedMeansCharged
<1>1. IInv => ApprovedMeansCharged
  BY DEF IInv, ToldVouched, Vouched, Evidence, ApprovedMeansCharged
<1> QED BY <1>1, InductiveInvariant, PTL

\* No two callers of a retry-safe order are told opposite things of it.
THEOREM CallersAgree == Spec => []AnswersAgree
<1>1. ASSUME IInv, NEW i \in Calls, NEW j \in Calls,
             req[i].id = req[j].id, RetrySafe(req[i].id),
             "APPROVED" \in Told(i), "DECLINED" \in Told(j)
      PROVE  FALSE
  <2>1. PICK a \in Calls : leg[a] = "APPROVED" /\ req[a].id = req[i].id
    BY <1>1 DEF IInv, ToldVouched, Vouched, Evidence
  <2>2. PICK d \in Calls : leg[d] = "DECLINED" /\ req[d].id = req[i].id
    BY <1>1 DEF IInv, ToldVouched, Vouched, Evidence
  <2>3. req[i].id # NoId /\ Mode[req[i].id] # "OFF"
    BY <1>1, NoIdAssumption DEF RetrySafe
  <2>4. a = d
    BY <1>1, <2>1, <2>2, <2>3 DEF IInv, NoDoubleCharge
  <2> QED BY <2>1, <2>2, <2>4
<1>2. IInv => AnswersAgree
  BY <1>1 DEF AnswersAgree
<1> QED BY <1>2, InductiveInvariant, PTL

-----------------------------------------------------------------------------
(* Exceptions                                                              *)

\* An API-tier exception comes from an answer with an error code, which the
\* gateway gives only to requests it did not process.
LEMMA ApiErrorNext ==
    TypeOK /\ Bookkeeping /\ ApiErrorMeansNoOrder /\ [Next]_vars
      => ApiErrorMeansNoOrder'
<1> SUFFICES ASSUME TypeOK, Bookkeeping, ApiErrorMeansNoOrder, [Next]_vars
             PROVE  ApiErrorMeansNoOrder'
  OBVIOUS
<1>1. ASSUME NEW i \in Calls, NEW action, NEW id, Post(i, action, id)
      PROVE  ApiErrorMeansNoOrder'
  <2>1. outcome[i].kind \notin Exceptions
    BY <1>1 DEF Post, Bookkeeping, Raised, Exceptions
  <2> QED BY <1>1, <2>1 DEF Post, ApiErrorMeansNoOrder
<1>2. ASSUME NEW i \in Calls, RejectLocally(i) PROVE ApiErrorMeansNoOrder'
  BY <1>2 DEF RejectLocally, ApiErrorMeansNoOrder, Bookkeeping, TypeOK
<1>3. ASSUME NEW i \in Calls, NEW o, Return(i, o), inflight' \subseteq inflight,
             o.kind \in Exceptions => leg[i] = "none" /\ i \notin inflight
      PROVE  ApiErrorMeansNoOrder'
  BY <1>3 DEF Return, ApiErrorMeansNoOrder, TypeOK
<1>4. ASSUME NEW i \in Calls, Receive(i) PROVE ApiErrorMeansNoOrder'
  <2> DEFINE o == Answer(req[i].action, reply[i])
  <2>1. reply[i].arrived /\ Return(i, o) /\ inflight' = inflight
    BY <1>4 DEF Receive
  <2>2. reply[i] \in Reply
    BY DEF TypeOK
  <2>3. ASSUME o.kind \in Exceptions PROVE ApiException(reply[i].code) # "none"
    BY <2>3 DEF Answer, OrderStatus, TransactionResult, Raised, Exceptions
  <2>4. ApiException(0) = "none"
    BY DEF ApiException
  <2>5. o.kind \in Exceptions => leg[i] = "none" /\ i \notin inflight
    BY <2>1, <2>3, <2>4 DEF Bookkeeping
  <2> HIDE DEF o
  <2> QED BY <1>3, <2>1, <2>5
<1>5. ASSUME NEW i \in Calls,
             \/ ReceiveUnreadable(i)
             \/ ConnectTimeout(i) \/ ReadTimeout(i) \/ NetworkFails(i)
      PROVE  ApiErrorMeansNoOrder'
  <2>1. \A id : \A kind \in NetworkErrors :
           Raised(kind, id).kind \notin Exceptions
    BY DEF Raised, NetworkErrors, Exceptions
  <2>2. inflight' \subseteq inflight
    BY <1>5 DEF ReceiveUnreadable, ConnectTimeout, ReadTimeout, NetworkFails
  <2>3. \E id : \E kind \in NetworkErrors :
           Return(i, Raised(kind, id))
    BY <1>5 DEF ReceiveUnreadable, ConnectTimeout, ReadTimeout, NetworkFails,
       NetworkErrors
  <2> QED BY <1>3, <2>1, <2>2, <2>3
<1>10. ASSUME NEW i \in Calls, Misanswered(i) PROVE ApiErrorMeansNoOrder'
  <2> DEFINE o == Answer(req[i].action, Verdict("none"))
  <2>1. Return(i, o) /\ inflight' = inflight
    BY <1>10 DEF Misanswered
  <2>2. o.kind \notin Exceptions
    BY DEF Answer, Verdict, ApiException, OrderStatus, TransactionResult, Raised,
       Exceptions
  <2> HIDE DEF o
  <2> QED BY <1>3, <2>1, <2>2
<1>6. ASSUME NEW i \in Calls,
             \/ LoseRequest(i)
             \/ GatewayRefuses(i) \/ GatewayRepeats(i) \/ GatewayReports(i)
      PROVE  ApiErrorMeansNoOrder'
  <2>1. leg' = leg /\ outcome' = outcome /\ inflight' \subseteq inflight
    BY <1>6 DEF LoseRequest, GatewayRefuses, GatewayRepeats, GatewayReports, Process
  <2> QED BY <2>1 DEF ApiErrorMeansNoOrder
<1>7. ASSUME NEW i \in Calls, GatewayDecides(i) PROVE ApiErrorMeansNoOrder'
  <2>1. /\ outcome' = outcome /\ inflight' \subseteq inflight /\ i \in inflight
        /\ \A j \in Calls : j # i => leg'[j] = leg[j]
    BY <1>7 DEF GatewayDecides, Process, TypeOK
  <2> QED BY <2>1 DEF ApiErrorMeansNoOrder
<1>8. ASSUME NEW i \in Calls, Settle(i) PROVE ApiErrorMeansNoOrder'
  <2>1. /\ outcome' = outcome /\ inflight' = inflight /\ leg[i] # "none"
        /\ \A j \in Calls : j # i => leg'[j] = leg[j]
    BY <1>8, UnlistedAssumption DEF Settle, TypeOK
  <2> QED BY <2>1 DEF ApiErrorMeansNoOrder
<1>9. CASE UNCHANGED vars
  BY <1>9 DEF vars, ApiErrorMeansNoOrder
<1> QED
  BY <1>1, <1>2, <1>4, <1>5, <1>6, <1>7, <1>8, <1>9, <1>10
     DEF Next, Transact, Status

\* A merchant who catches one of the API-tier exceptions may correct the request
\* and send it again: this one made no order and never will.
THEOREM RefusedMeansNoOrder == Spec => []ApiErrorMeansNoOrder
<1>1. Init => ApiErrorMeansNoOrder
  BY DEF Init, ApiErrorMeansNoOrder
<1>2. TypeOK /\ Bookkeeping /\ ApiErrorMeansNoOrder /\ [Next]_vars
        => TypeOK' /\ Bookkeeping' /\ ApiErrorMeansNoOrder'
  BY TypeNext, BookkeepingNext, ApiErrorNext
<1> QED BY <1>1, <1>2, TypeInit, BookkeepingInit, PTL DEF Spec

\* Every InovioTimeoutError of a sale, authorize or force_credit carries the id
\* the call was made with: what a worker asks by (Recovery_proofs).
TimeoutCarriesId ==
    \A i \in Calls :
        outcome[i].kind = "InovioTimeoutError" /\ req[i].action = "transact"
          => outcome[i].id = req[i].id

\* Only the two timeouts raise InovioTimeoutError, with the key of the call.
LEMMA TimeoutNext ==
    TypeOK /\ Bookkeeping /\ TimeoutCarriesId /\ [Next]_vars => TimeoutCarriesId'
<1> SUFFICES ASSUME TypeOK, Bookkeeping, TimeoutCarriesId, [Next]_vars
             PROVE  TimeoutCarriesId'
  OBVIOUS
<1>1. ASSUME NEW i \in Calls, NEW action, NEW id, Post(i, action, id)
      PROVE  TimeoutCarriesId'
  <2>1. outcome[i].kind # "InovioTimeoutError"
    BY <1>1 DEF Post, Bookkeeping, Raised
  <2> QED BY <1>1, <2>1 DEF Post, TimeoutCarriesId, TypeOK
<1>2. ASSUME NEW i \in Calls, RejectLocally(i) PROVE TimeoutCarriesId'
  BY <1>2 DEF RejectLocally, TimeoutCarriesId, TypeOK, Raised
<1>3. ASSUME NEW i \in Calls, NEW o, Return(i, o),
             o.kind = "InovioTimeoutError" => o.id = ErrorKey(req[i])
      PROVE  TimeoutCarriesId'
  BY <1>3 DEF Return, TimeoutCarriesId, TypeOK, ErrorKey
<1>4. ASSUME NEW i \in Calls, Receive(i) PROVE TimeoutCarriesId'
  <2>1. Return(i, Answer(req[i].action, reply[i])) /\ reply[i] \in Reply
    BY <1>4 DEF Receive, TypeOK
  <2>2. Answer(req[i].action, reply[i]).kind # "InovioTimeoutError"
    BY <2>1, ApiExceptionType
       DEF Answer, OrderStatus, TransactionResult, Raised, Exceptions, Reply
  <2> QED BY <1>3, <2>1, <2>2
<1>5. ASSUME NEW i \in Calls, ConnectTimeout(i) \/ ReadTimeout(i)
      PROVE  TimeoutCarriesId'
  BY <1>3, <1>5 DEF ConnectTimeout, ReadTimeout, Raised
<1>6. ASSUME NEW i \in Calls, ReceiveUnreadable(i) \/ NetworkFails(i)
      PROVE  TimeoutCarriesId'
  BY <1>3, <1>6 DEF ReceiveUnreadable, NetworkFails, Raised
<1>9. ASSUME NEW i \in Calls, Misanswered(i) PROVE TimeoutCarriesId'
  <2>1. Answer(req[i].action, Verdict("none")).kind # "InovioTimeoutError"
    BY DEF Answer, Verdict, ApiException, OrderStatus, TransactionResult, Raised
  <2> QED BY <1>3, <1>9, <2>1 DEF Misanswered
<1>7. ASSUME NEW i \in Calls,
             \/ LoseRequest(i) \/ Settle(i) \/ GatewayRefuses(i)
             \/ GatewayDecides(i) \/ GatewayRepeats(i) \/ GatewayReports(i)
      PROVE  TimeoutCarriesId'
  <2>1. req' = req /\ outcome' = outcome
    BY <1>7 DEF LoseRequest, Settle, GatewayRefuses, GatewayDecides,
       GatewayRepeats, GatewayReports, Process
  <2> QED BY <2>1 DEF TimeoutCarriesId
<1>8. CASE UNCHANGED vars
  BY <1>8 DEF vars, TimeoutCarriesId
<1> QED
  BY <1>1, <1>2, <1>4, <1>5, <1>6, <1>7, <1>8, <1>9 DEF Next, Transact, Status

-----------------------------------------------------------------------------
(* Payments implements ChargeOnce: seen through the mapping, every step of *)
(* any number of calls is a step of the promise or changes nothing it      *)
(* speaks of.  IInv is the invariant: of each retry-safe id there is one   *)
(* order, and what is told has it behind.                                  *)

\* A leg's status as the promise sees it.
Abstract(s) == IF s \in {"APPROVED", "DECLINED", "FAILED"} THEN s ELSE "open"

Decisions == {"APPROVED", "DECLINED"}

\* What call i adds to ToldOf of its order.
Says(i) == Told(i) \cap Decisions

-----------------------------------------------------------------------------
(* The state of an order is the status of its one leg                      *)

StateIsLeg ==
    \A o \in RetrySafeOrders :
        /\ Matching(o) = {} => StateOf(o) = "none"
        /\ \A j \in Matching(o) : StateOf(o) = Abstract(leg[j])

\* A retry-safe id has one leg at most, so its status is the state.
LEMMA OneLegDecides == TypeOK /\ NoDoubleCharge => StateIsLeg
<1> SUFFICES ASSUME TypeOK, NoDoubleCharge, NEW o \in RetrySafeOrders
             PROVE  /\ Matching(o) = {} => StateOf(o) = "none"
                    /\ \A j \in Matching(o) : StateOf(o) = Abstract(leg[j])
  BY DEF StateIsLeg
<1>1. Matching(o) = {} => StateOf(o) = "none"
  BY DEF StateOf, LegsSay
<1>2. ASSUME NEW j \in Matching(o) PROVE StateOf(o) = Abstract(leg[j])
  <2>1. ASSUME NEW k \in Matching(o) PROVE k = j
    BY <1>2, <2>1, NoIdAssumption
       DEF Matching, NoDoubleCharge, RetrySafeOrders, RetrySafe
  <2>2. ASSUME NEW S PROVE LegsSay(o, S) <=> leg[j] \in S
    BY <1>2, <2>1 DEF LegsSay
  <2>3. leg[j] \in TransactionStatus \cup {Unlisted}
    BY DEF Matching, TypeOK, WireStatus
  <2> QED BY <2>2, <2>3, UnlistedAssumption DEF StateOf, Abstract, TransactionStatus
<1> QED BY <1>1, <1>2

-----------------------------------------------------------------------------
(* How single steps change what the promise sees                           *)

\* A step that makes and decides no order, and after which every call that says
\* anything says what it did of the order it did, is not seen.
LEMMA QuietStep ==
    ASSUME leg' = leg,
           \A i \in Calls :
               \/ req'[i].id = req[i].id /\ Says(i)' = Says(i)
               \/ leg[i] = "none" /\ Says(i) = {} /\ Says(i)' = {}
    PROVE  UNCHANGED Promise!vars
<1>1. ASSUME NEW o \in RetrySafeOrders PROVE Matching(o)' = Matching(o)
  BY DEF Matching
<1>2. ASSUME NEW o \in RetrySafeOrders PROVE StateOf(o)' = StateOf(o)
  BY <1>1 DEF StateOf, LegsSay
<1>3. ASSUME NEW o \in RetrySafeOrders PROVE ToldOf(o)' = ToldOf(o)
  <2>1. ToldOf(o) = {s \in Decisions : \E i \in Calls : req[i].id = o /\ s \in Says(i)}
    BY DEF ToldOf, Says, Decisions
  <2>2. ToldOf(o)' = {s \in Decisions : \E i \in Calls : req'[i].id = o /\ s \in Says(i)'}
    BY DEF ToldOf, Says, Decisions
  <2> QED BY <2>1, <2>2
<1>4. RetrySafeOrders' = RetrySafeOrders
  BY DEF RetrySafeOrders, RetrySafe
<1> QED BY <1>2, <1>3, <1>4 DEF Promise!vars

\* A call that returns tells nothing of an order or the order's decision.
LEMMA ReturnTells ==
    ASSUME IInv, IInv', NEW i \in Calls, NEW x, Return(i, x)
    PROVE  [Promise!Next]_(Promise!vars)
<1> DEFINE o == req[i].id
<1>1. leg' = leg /\ req' = req /\ \A j \in Calls : j # i => outcome'[j] = outcome[j]
  BY DEF Return, IInv, TypeOK
<1>2. \A j \in Calls : j # i => Says(j)' = Says(j)
  BY <1>1 DEF Says, Told
<1>3. Says(i) = {}
  BY DEF Return, IInv, Bookkeeping, Says, Told, Raised, Decisions
<1>4. CASE Says(i)' = {}
  BY <1>1, <1>2, <1>3, <1>4, QuietStep
<1>5. CASE Says(i)' # {} /\ o \in RetrySafeOrders
  <2>1. ASSUME NEW s \in Says(i)' PROVE StateOf(o) = s
    <3>1. o # NoId /\ RetrySafe(o)
      BY <1>5, NoIdAssumption DEF RetrySafeOrders
    <3>2. s \in Told(i)' /\ s \in Decisions
      BY <2>1 DEF Says
    <3>3. Vouched(i, s)'
      BY <3>2 DEF IInv, ToldVouched
    <3>4. Evidence(i, s)'
      BY <1>1, <3>1, <3>2, <3>3 DEF Vouched, Decisions
    <3>5. PICK j \in Matching(o) : leg[j] = s
      BY <1>1, <3>1, <3>2, <3>4 DEF Evidence, Matching, Decisions
    <3>6. StateIsLeg
      BY OneLegDecides DEF IInv
    <3> QED BY <1>5, <3>2, <3>5, <3>6 DEF StateIsLeg, Abstract, Decisions
  <2>2. StateOf(o) \in Decisions /\ Says(i)' = {StateOf(o)}
    BY <1>5, <2>1 DEF Says
  <2>3. ASSUME NEW p \in RetrySafeOrders
        PROVE  /\ StateOf(p)' = StateOf(p)
               /\ ToldOf(p)' = ToldOf(p) \cup (IF p = o THEN {StateOf(o)} ELSE {})
    <3>1. StateOf(p)' = StateOf(p)
      BY <1>1 DEF StateOf, LegsSay, Matching
    <3>2. ToldOf(p) = {s \in Decisions : \E j \in Calls : req[j].id = p /\ s \in Says(j)}
      BY DEF ToldOf, Says, Decisions
    <3>3. ToldOf(p)' = {s \in Decisions : \E j \in Calls : req[j].id = p /\ s \in Says(j)'}
      BY <1>1 DEF ToldOf, Says, Decisions
    <3> HIDE DEF o
    <3>4. \A s : (\E j \in Calls : req[j].id = p /\ s \in Says(j)')
             <=> \/ \E j \in Calls : req[j].id = p /\ s \in Says(j)
                 \/ req[i].id = p /\ s = StateOf(o)
      BY <1>2, <1>3, <2>2
    <3> QED BY <2>2, <3>1, <3>2, <3>3, <3>4 DEF o
  <2>4. RetrySafeOrders' = RetrySafeOrders
    BY DEF RetrySafeOrders, RetrySafe
  <2>5. Promise!Tell(o)
    BY <1>5, <2>2, <2>3, <2>4 DEF Promise!Tell, Decisions
  <2> QED BY <1>5, <2>5 DEF Promise!Next
<1>6. CASE o \notin RetrySafeOrders
  <2>1. ASSUME NEW p \in RetrySafeOrders
        PROVE  StateOf(p)' = StateOf(p) /\ ToldOf(p)' = ToldOf(p)
    <3>1. StateOf(p)' = StateOf(p)
      BY <1>1 DEF StateOf, LegsSay, Matching
    <3>2. \A j \in Calls : req[j].id = p => Told(j)' = Told(j)
      BY <1>1, <1>6 DEF Told
    <3> QED BY <1>1, <3>1, <3>2 DEF ToldOf
  <2>2. RetrySafeOrders' = RetrySafeOrders
    BY DEF RetrySafeOrders, RetrySafe
  <2> QED BY <2>1, <2>2 DEF Promise!vars
<1> QED BY <1>4, <1>5, <1>6

\* A leg that is made, or settled, is seen in the state of its order alone.
LEMMA LegChanges ==
    ASSUME IInv, IInv', NEW i \in Calls, NEW s \in Verdicts \cup TransactionStatus,
           leg' = [leg EXCEPT ![i] = s], req' = req, outcome' = outcome
    PROVE  \A p \in RetrySafeOrders :
             /\ ToldOf(p)' = ToldOf(p)
             /\ StateOf(p)' = IF p = req[i].id THEN Abstract(s) ELSE StateOf(p)
<1> SUFFICES ASSUME NEW p \in RetrySafeOrders
             PROVE  /\ ToldOf(p)' = ToldOf(p)
                    /\ StateOf(p)' = IF p = req[i].id THEN Abstract(s) ELSE StateOf(p)
  OBVIOUS
<1>1. ToldOf(p)' = ToldOf(p)
  BY DEF ToldOf, Told
<1>2. leg'[i] = s /\ s # "none" /\ \A j \in Calls : j # i => leg'[j] = leg[j]
  BY VerdictsAssumption, UnlistedAssumption DEF IInv, TypeOK, TransactionStatus
<1>3. CASE p = req[i].id
  <2>1. i \in Matching(p)'
    BY <1>2, <1>3, NoIdAssumption DEF Matching, RetrySafeOrders
  <2>2. (TypeOK /\ NoDoubleCharge => StateIsLeg)'
    BY OneLegDecides, PTL
  <2>3. StateIsLeg'
    BY <2>2 DEF IInv
  <2> QED BY <1>1, <1>2, <1>3, <2>1, <2>3 DEF StateIsLeg, Abstract
<1>4. CASE p # req[i].id
  <2>1. Matching(p)' = Matching(p) /\ i \notin Matching(p)
    BY <1>2, <1>4 DEF Matching
  <2>2. \A j \in Matching(p) : leg'[j] = leg[j]
    BY <1>2, <2>1 DEF Matching
  <2>3. \A S : LegsSay(p, S)' <=> LegsSay(p, S)
    BY <2>1, <2>2 DEF LegsSay
  <2> QED BY <1>1, <1>4, <2>3 DEF StateOf
<1> QED BY <1>3, <1>4

-----------------------------------------------------------------------------
(* Every step                                                              *)

\* No order is there and nothing was told at first.
LEMMA ImplementsInit == Init => Promise!Init
<1> SUFFICES ASSUME Init, NEW o \in RetrySafeOrders
             PROVE  StateOf(o) = "none" /\ ToldOf(o) = {}
  BY DEF Promise!Init
<1>1. Matching(o) = {}
  BY DEF Init, Matching
<1>2. \A i \in Calls : Told(i) = {}
  BY DEF Init, Told, Raised
<1> QED BY <1>1, <1>2 DEF StateOf, LegsSay, ToldOf

\* Returns tell, the gateway decides and settles, and nothing else is seen.
LEMMA ImplementsNext == IInv /\ IInv' /\ [Next]_vars => [Promise!Next]_(Promise!vars)
<1> SUFFICES ASSUME IInv, IInv', [Next]_vars PROVE [Promise!Next]_(Promise!vars)
  OBVIOUS
<1>1. RetrySafeOrders' = RetrySafeOrders
  BY DEF RetrySafeOrders, RetrySafe
<1>2. ASSUME NEW i \in Calls, NEW action, NEW id, Post(i, action, id)
      PROVE  UNCHANGED Promise!vars
  <2>1. leg[i] = "none" /\ outcome[i] = Raised("none", NoId) /\ outcome' = outcome
    BY <1>2 DEF Post, IInv, Bookkeeping
  <2>2. Says(i) = {} /\ \A j \in Calls : Says(j)' = Says(j)
    BY <2>1 DEF Says, Told, Raised
  <2>3. leg' = leg /\ \A j \in Calls : j # i => req'[j] = req[j]
    BY <1>2 DEF Post, IInv, TypeOK
  <2> QED BY <2>1, <2>2, <2>3, QuietStep
<1>3. ASSUME NEW i \in Calls, RejectLocally(i) PROVE UNCHANGED Promise!vars
  <2>1. leg' = leg /\ req' = req /\ \A j \in Calls : j # i => outcome'[j] = outcome[j]
    BY <1>3 DEF RejectLocally, IInv, TypeOK
  <2>2. /\ outcome[i] = Raised("none", NoId)
        /\ \/ outcome'[i] = Raised("ValidationError", NoId)
           \/ outcome'[i] = Raised("Unwrapped", NoId)
    BY <1>3 DEF RejectLocally, IInv, Bookkeeping, TypeOK
  <2>3. \A j \in Calls : Says(j)' = Says(j)
    BY <2>1, <2>2 DEF Says, Told, Raised
  <2> QED BY <2>1, <2>3, QuietStep
<1>4. ASSUME NEW i \in Calls,
             \/ Receive(i) \/ ReceiveUnreadable(i) \/ Misanswered(i)
             \/ ConnectTimeout(i) \/ ReadTimeout(i) \/ NetworkFails(i)
      PROVE  [Promise!Next]_(Promise!vars)
  <2>1. \E x : Return(i, x)
    BY <1>4 DEF Receive, ReceiveUnreadable, Misanswered, ConnectTimeout,
       ReadTimeout, NetworkFails
  <2> QED BY <2>1, ReturnTells
<1>5. ASSUME NEW i \in Calls,
             \/ LoseRequest(i) \/ GatewayRefuses(i) \/ GatewayRepeats(i)
             \/ GatewayReports(i)
      PROVE  UNCHANGED Promise!vars
  <2>1. leg' = leg /\ req' = req /\ outcome' = outcome
    BY <1>5 DEF LoseRequest, GatewayRefuses, GatewayRepeats, GatewayReports, Process
  <2> QED BY <2>1, QuietStep DEF Says, Told
<1>6. ASSUME NEW i \in Calls, GatewayDecides(i) PROVE [Promise!Next]_(Promise!vars)
  <2> DEFINE o == req[i].id
  <2>1. PICK s \in Verdicts : leg' = [leg EXCEPT ![i] = s]
    BY <1>6 DEF GatewayDecides
  <2>2. req' = req /\ outcome' = outcome
    BY <1>6 DEF GatewayDecides, Process
  <2>3. \A p \in RetrySafeOrders :
          /\ ToldOf(p)' = ToldOf(p)
          /\ StateOf(p)' = IF p = o THEN Abstract(s) ELSE StateOf(p)
    BY <2>1, <2>2, LegChanges
  <2>4. CASE o \in RetrySafeOrders
    <3>1. Matching(o) = {}
      BY <1>6, <2>4 DEF GatewayDecides, Deduplicated, WireMode, RetrySafeOrders, RetrySafe
    <3>2. StateOf(o) = "none"
      BY <2>4, <3>1, OneLegDecides DEF IInv, StateIsLeg
    <3>3. Abstract(s) \in Promise!Final \cup {"open"}
      BY DEF Abstract, Promise!Final
    <3> HIDE DEF o
    <3>4. Promise!Decide(o)
      BY <1>1, <2>3, <2>4, <3>2, <3>3 DEF Promise!Decide
    <3> QED BY <2>4, <3>4 DEF Promise!Next
  <2>5. CASE o \notin RetrySafeOrders
    BY <1>1, <2>3, <2>5 DEF Promise!vars
  <2> QED BY <2>4, <2>5
<1>7. ASSUME NEW i \in Calls, Settle(i) PROVE [Promise!Next]_(Promise!vars)
  <2> DEFINE o == req[i].id
  <2>1. PICK s \in {"APPROVED", "DECLINED", "FAILED"} : leg' = [leg EXCEPT ![i] = s]
    BY <1>7 DEF Settle
  <2>2. req' = req /\ outcome' = outcome /\ leg[i] \in {"PENDING", "RUNNING", Unlisted}
    BY <1>7 DEF Settle
  <2>3. \A p \in RetrySafeOrders :
          /\ ToldOf(p)' = ToldOf(p)
          /\ StateOf(p)' = IF p = o THEN Abstract(s) ELSE StateOf(p)
    BY <2>1, <2>2, LegChanges DEF TransactionStatus
  <2>4. CASE o \in RetrySafeOrders
    <3>1. i \in Matching(o)
      BY <2>2, <2>4, NoIdAssumption, UnlistedAssumption DEF Matching, RetrySafeOrders
    <3>2. StateOf(o) = Abstract(leg[i])
      BY <2>4, <3>1, OneLegDecides DEF IInv, StateIsLeg
    <3>3. Abstract(leg[i]) = "open"
      BY <2>2, UnlistedAssumption DEF Abstract, TransactionStatus
    <3>4. Abstract(s) = s /\ s \in Promise!Final
      BY DEF Abstract, Promise!Final
    <3> HIDE DEF o
    <3>5. Promise!Settle(o)
      BY <1>1, <2>3, <2>4, <3>2, <3>3, <3>4 DEF Promise!Settle
    <3> QED BY <2>4, <3>5 DEF Promise!Next
  <2>5. CASE o \notin RetrySafeOrders
    BY <1>1, <2>3, <2>5 DEF Promise!vars
  <2> QED BY <2>4, <2>5
<1>8. CASE UNCHANGED vars
  BY <1>8, QuietStep DEF vars, Says, Told
<1> QED
  BY <1>2, <1>3, <1>4, <1>5, <1>6, <1>7, <1>8 DEF Next, Transact, Status

\* The calls of retry-safe order ids, in any number and under any losses, late
\* requests and retries, behave as the promise says: one order each, decided
\* once, and nothing told of it but that decision.
THEOREM PaymentsImplementsChargeOnce == Spec => ImplementsChargeOnce
<1>1. IInv /\ IInv' /\ [Next]_vars => [Promise!Next]_(Promise!vars)
  BY ImplementsNext
<1> QED BY <1>1, ImplementsInit, InductiveInvariant, PTL
        DEF Spec, ImplementsChargeOnce, Promise!Spec
=============================================================================
