-------------------------- MODULE Recovery_proofs --------------------------
(***************************************************************************)
(* What a merchant's worker ends with, for any number of orders, calls and *)
(* faults and either policy: ResolvedMeansDecided.  The calls underneath   *)
(* are those of Payments, so its invariant carries over; Forget, which     *)
(* makes an identity serve again, has to be shown to keep it.              *)
(***************************************************************************)
EXTENDS Recovery, Payments_proofs, FiniteSetTheorems

\* The rows of a table, on the wire and told, are orders of the id asked about.
RowsAreMatching ==
    \A i \in Calls : \A x \in reply[i].rows \cup outcome[i].rows :
        x.order \in Matching(req[i].id)

\* A worker waits for a call of its own order.
WaitsForOwn(o) ==
    /\ worker[o] \in {"charging", "asking"} =>
         current[o] \in Calls /\ pc[current[o]] # "idle" /\ req[current[o]].id = o
    /\ worker[o] = "charging" => req[current[o]].action = "transact"

\* A worker that stopped knows of an order, and of its decision.
KnowsOrder(o) ==
    worker[o] = "resolved" /\ RetrySafe(o) =>
        /\ Matching(o) # {}
        /\ known[o] # "FAILED" =>
             known[o] \in Decisions /\ \E j \in Matching(o) : leg[j] = known[o]

Workers ==
    /\ worker \in [Orders -> {"charge", "charging", "ask", "asking", "resolved"}]
    /\ current \in [Orders -> Calls \cup {NoCall}]
    /\ DOMAIN known = Orders
    /\ key = [o \in Orders |-> o]

\* What holds of the calls alone.
CallsInv == IInv /\ TimeoutCarriesId /\ RowsAreMatching

RecoveryInv ==
    /\ CallsInv
    /\ Workers
    /\ \A o \in Orders : WaitsForOwn(o) /\ KnowsOrder(o)

-----------------------------------------------------------------------------
(* What the steps of Payments keep                                         *)

\* No step of Payments unmakes an order.
LEMMA OrdersStay ==
    ASSUME IInv, [Next]_vars, NEW j \in Calls, leg[j] # "none"
    PROVE  leg'[j] # "none" /\ req'[j] = req[j]
<1>1. req'[j] = req[j]
  BY DecidedOrdersStay DEF IInv, Bookkeeping
<1>2. ASSUME NEW i \in Calls, GatewayDecides(i) PROVE leg'[j] # "none"
  BY <1>2, VerdictsAssumption, UnlistedAssumption
     DEF GatewayDecides, IInv, TypeOK, TransactionStatus
<1>3. ASSUME NEW i \in Calls, Settle(i) PROVE leg'[j] # "none"
  BY <1>3 DEF Settle, IInv, TypeOK
<1>4. ASSUME leg' = leg PROVE leg'[j] # "none"
  BY <1>4
<1> QED
  BY <1>1, <1>2, <1>3, <1>4
     DEF Next, vars, Transact, Status, Post, RejectLocally, Receive, ReceiveUnreadable,
         Misanswered, ConnectTimeout, ReadTimeout, NetworkFails, Return, LoseRequest,
         GatewayRefuses, GatewayRepeats, GatewayReports

\* Nor does one take an order from an id.
LEMMA MatchingGrows ==
    ASSUME IInv, [Next]_vars, NEW id
    PROVE  Matching(id) \subseteq Matching(id)'
BY OrdersStay DEF Matching

\* to_order_status passes on the orders of the table and adds none.
LEMMA AnswerRows ==
    ASSUME NEW action, NEW r, NEW x \in Answer(action, r).rows
    PROVE  \E y \in r.rows : y.order = x.order
<1>1. CASE ApiException(r.code) # "none"
  BY <1>1 DEF Answer, Raised
<1>2. CASE ApiException(r.code) = "none" /\ action # "CCSTATUS"
  BY <1>2 DEF Answer, TransactionResult
<1>3. CASE ApiException(r.code) = "none" /\ action = "CCSTATUS"
  <2>1. Answer(action, r) = OrderStatus(r)
    BY <1>3 DEF Answer
  <2>2. r.rows # {}
    BY <2>1 DEF OrderStatus, Raised
  <2>3. x \in {[order |-> y.order, status |-> ParseStatus(y.status)] : y \in r.rows}
    BY <2>1, <2>2 DEF OrderStatus
  <2> QED BY <2>3
<1> QED BY <1>1, <1>2, <1>3

\* A row comes with a table of the gateway, or was there before the step.
LEMMA RowsComeFromTables ==
    ASSUME IInv, [Next]_vars, NEW i \in Calls,
           NEW x \in reply'[i].rows \cup outcome'[i].rows
    PROVE  \/ \E y \in reply[i].rows \cup outcome[i].rows : y.order = x.order
           \/ i \in inflight /\ x.order \in Matching(req[i].id)
<1> DEFINE Goal == \/ \E y \in reply[i].rows \cup outcome[i].rows : y.order = x.order
                   \/ i \in inflight /\ x.order \in Matching(req[i].id)
<1> SUFFICES Goal
  OBVIOUS
<1>1. ASSUME reply'[i] = reply[i] \/ reply'[i].rows = {},
             outcome'[i] = outcome[i] \/ outcome'[i].rows = {}
      PROVE  Goal
  BY <1>1
<1> HIDE DEF Goal
<1>2. ASSUME NEW j \in Calls, NEW o, Return(j, o),
             \A y \in o.rows : \E z \in reply[j].rows : z.order = y.order
      PROVE  Goal
  <2>1. CASE i = j
    <3>1. reply'[i] = NoReply /\ outcome'[i] = o
      BY <1>2, <2>1 DEF Return, IInv, TypeOK
    <3>2. x \in o.rows
      BY <3>1 DEF NoReply
    <3>3. PICK z \in reply[i].rows : z.order = x.order
      BY <1>2, <2>1, <3>2
    <3> QED BY <3>3 DEF Goal
  <2>2. CASE i # j
    <3>1. reply'[i] = reply[i] /\ outcome'[i] = outcome[i]
      BY <1>2, <2>2 DEF Return, IInv, TypeOK
    <3> QED BY <1>1, <3>1
  <2> QED BY <2>1, <2>2
<1>3. ASSUME NEW j \in Calls, NEW kind, NEW id, Return(j, Raised(kind, id)) PROVE Goal
  <2>1. Raised(kind, id).rows = {}
    BY DEF Raised
  <2> QED BY <1>2, <1>3, <2>1
<1>4. ASSUME NEW j \in Calls, NEW r, Process(j, r),
             \A y \in r.rows : y.order \in Matching(req[j].id)
      PROVE  Goal
  <2>1. outcome' = outcome /\ j \in inflight
    BY <1>4 DEF Process
  <2>2. reply'[i] = reply[i] \/ (i = j /\ reply'[i] = r)
    BY <1>4 DEF Process, IInv, TypeOK
  <2>3. CASE reply'[i] = reply[i]
    BY <1>1, <2>1, <2>3
  <2>4. CASE i = j /\ reply'[i] = r
    <3>1. x \in r.rows \/ x \in outcome[i].rows
      BY <2>1, <2>4
    <3> QED BY <1>4, <2>1, <2>4, <3>1 DEF Goal
  <2> QED BY <2>2, <2>3, <2>4
<1>5. ASSUME NEW j \in Calls, NEW action, NEW id, Post(j, action, id) PROVE Goal
  BY <1>1, <1>5 DEF Post
<1>6. ASSUME NEW j \in Calls, RejectLocally(j) PROVE Goal
  <2>1. reply' = reply /\ outcome'[i] \in {outcome[i], Raised("ValidationError", NoId),
                                          Raised("Unwrapped", NoId)}
    BY <1>6 DEF RejectLocally, IInv, TypeOK
  <2> QED BY <1>1, <2>1 DEF Raised
<1>7. ASSUME NEW j \in Calls, Receive(j) PROVE Goal
  BY <1>2, <1>7, AnswerRows DEF Receive
<1>8. ASSUME NEW j \in Calls,
             ReceiveUnreadable(j) \/ ConnectTimeout(j) \/ ReadTimeout(j) \/ NetworkFails(j)
      PROVE  Goal
  BY <1>3, <1>8 DEF ReceiveUnreadable, ConnectTimeout, ReadTimeout, NetworkFails
<1>9. ASSUME NEW j \in Calls, Misanswered(j) PROVE Goal
  <2>1. Verdict("none").rows = {}
    BY DEF Verdict
  <2>2. \A y \in Answer(req[j].action, Verdict("none")).rows : FALSE
    BY <2>1, AnswerRows
  <2> QED BY <1>2, <1>9, <2>2 DEF Misanswered
<1>10. ASSUME NEW j \in Calls, GatewayRefuses(j) \/ GatewayDecides(j) \/ GatewayRepeats(j)
       PROVE  Goal
  <2>1. ASSUME NEW r, Process(j, r), r.rows = {} PROVE Goal
    BY <1>4, <2>1
  <2>2. /\ \A code : Refusal(code).rows = {}
        /\ \A s : Verdict(s).rows = {}
    BY DEF Refusal, Verdict
  <2> QED BY <1>10, <2>1, <2>2 DEF GatewayRefuses, GatewayDecides, GatewayRepeats
<1>11. ASSUME NEW j \in Calls, GatewayReports(j) PROVE Goal
  BY <1>4, <1>11 DEF GatewayReports, Table
<1>12. ASSUME reply' = reply, outcome' = outcome PROVE Goal
  BY <1>1, <1>12
<1> QED
  BY <1>5, <1>6, <1>7, <1>8, <1>9, <1>10, <1>11, <1>12
     DEF Next, vars, Transact, Status, LoseRequest, Settle, Goal

\* So every table, on the wire or told, still speaks of orders that are there.
LEMMA RowsAreMatchingNext ==
    ASSUME IInv, RowsAreMatching, [Next]_vars
    PROVE  RowsAreMatching'
<1> SUFFICES ASSUME NEW i \in Calls, NEW x \in reply'[i].rows \cup outcome'[i].rows
             PROVE  x.order \in Matching(req[i].id)'
  BY DEF RowsAreMatching
<1>1. x.order \in Matching(req[i].id)
  BY RowsComeFromTables DEF RowsAreMatching
<1>2. pc[i] # "idle"
  <2>1. i \in inflight => pc[i] # "idle"
    BY DEF IInv, Bookkeeping
  <2>2. pc[i] = "idle" => reply[i].rows \cup outcome[i].rows = {}
    BY DEF IInv, Bookkeeping, NoReply, Raised
  <2> QED BY <2>1, <2>2, RowsComeFromTables
<1>3. req'[i] = req[i]
  BY <1>2, DecidedOrdersStay DEF IInv
<1>4. x.order \in Calls /\ leg[x.order] # "none"
      /\ req[i].id # NoId /\ req[x.order].id = req[i].id
  BY <1>1 DEF Matching
<1>5. leg'[x.order] # "none" /\ req'[x.order] = req[x.order]
  BY <1>4, OrdersStay
<1> QED BY <1>3, <1>4, <1>5 DEF Matching

\* A call that has begun is never unused again, but by Forget.
LEMMA BegunStays ==
    ASSUME IInv, [Next]_vars, NEW j \in Calls, pc[j] # "idle"
    PROVE  pc'[j] # "idle"
<1>1. ASSUME NEW i \in Calls, pc' = [pc EXCEPT ![i] = "sent"] PROVE pc'[j] # "idle"
  BY <1>1 DEF IInv, TypeOK
<1>2. ASSUME NEW i \in Calls, pc' = [pc EXCEPT ![i] = "returned"] PROVE pc'[j] # "idle"
  BY <1>2 DEF IInv, TypeOK
<1>3. ASSUME pc' = pc PROVE pc'[j] # "idle"
  BY <1>3
<1> QED
  BY <1>1, <1>2, <1>3
     DEF Next, vars, Transact, Status, Post, RejectLocally, Receive, ReceiveUnreadable,
         Misanswered, ConnectTimeout, ReadTimeout, NetworkFails, Return, LoseRequest,
         GatewayRefuses, GatewayDecides, GatewayRepeats, GatewayReports, Process, Settle

\* A worker no step is about goes on waiting for its own call, and what it knows
\* stays true: a decided order keeps its decision.
LEMMA OtherWorkers ==
    ASSUME IInv, [Next]_vars, NEW o \in Orders, WaitsForOwn(o), KnowsOrder(o),
           worker'[o] = worker[o], current'[o] = current[o], known'[o] = known[o]
    PROVE  WaitsForOwn(o)' /\ KnowsOrder(o)'
<1>1. WaitsForOwn(o)'
  <2> SUFFICES ASSUME worker[o] \in {"charging", "asking"}
               PROVE  /\ current[o] \in Calls /\ pc'[current[o]] # "idle"
                      /\ req'[current[o]].id = o
                      /\ worker[o] = "charging" => req'[current[o]].action = "transact"
    BY DEF WaitsForOwn
  <2>1. /\ current[o] \in Calls /\ pc[current[o]] # "idle" /\ req[current[o]].id = o
        /\ worker[o] = "charging" => req[current[o]].action = "transact"
    BY DEF WaitsForOwn
  <2> QED BY <2>1, BegunStays, DecidedOrdersStay DEF IInv
<1>2. KnowsOrder(o)'
  <2> SUFFICES ASSUME worker[o] = "resolved", RetrySafe(o)
               PROVE  /\ Matching(o)' # {}
                      /\ known[o] # "FAILED" =>
                           known[o] \in Decisions /\ \E j \in Matching(o)' : leg'[j] = known[o]
    BY DEF KnowsOrder, RetrySafe
  <2>1. Matching(o) \subseteq Matching(o)'
    BY MatchingGrows
  <2>2. Matching(o) \subseteq Calls
    BY DEF Matching
  <2>3. Matching(o) # {}
    BY DEF KnowsOrder
  <2>4. ASSUME known[o] # "FAILED"
        PROVE  known[o] \in Decisions /\ \E j \in Matching(o)' : leg'[j] = known[o]
    <3>1. PICK j \in Matching(o) : known[o] \in Decisions /\ leg[j] = known[o]
      BY <2>4 DEF KnowsOrder
    <3>2. leg'[j] = leg[j]
      BY <2>2, <3>1, DecidedOrdersStay DEF IInv, Decisions
    <3> QED BY <2>1, <3>1, <3>2
  <2> QED BY <2>1, <2>3, <2>4
<1> QED BY <1>1, <1>2

-----------------------------------------------------------------------------
(* Forget: an identity without order, request or waiting worker is reused  *)

\* Forget takes no order from any id.
LEMMA ForgetKeepsMatching ==
    ASSUME IInv, NEW i \in Calls, Forget(i), NEW id
    PROVE  Matching(id)' = Matching(id)
<1>1. \A j \in Calls : j # i => req'[j] = req[j]
  BY DEF Forget, IInv, TypeOK
<1> QED BY <1>1 DEF Forget, Matching

\* Nor does it take away what stands behind an answer.
LEMMA ForgetKeepsInv ==
    ASSUME CallsInv, NEW i \in Calls, Forget(i)
    PROVE  CallsInv'
<1> USE DEF CallsInv
<1>1. /\ reply' = reply /\ leg' = leg /\ inflight' = inflight
      /\ leg[i] = "none" /\ i \notin inflight /\ reply[i] = NoReply
      /\ outcome'[i] = Raised("none", NoId)
      /\ pc'[i] = "idle" /\ req'[i] = [action |-> "none", id |-> NoId]
  BY DEF Forget, IInv, TypeOK, Bookkeeping
<1>2. \A j \in Calls :
        j # i => req'[j] = req[j] /\ outcome'[j] = outcome[j] /\ pc'[j] = pc[j]
  BY DEF Forget, IInv, TypeOK
<1>3. TypeOK'
  <2>1. Raised("none", NoId) \in Outcome
    BY RaisedType DEF Kinds, Ids
  <2> QED BY <2>1 DEF Forget, IInv, TypeOK, Request, Ids
<1>4. Bookkeeping'
  BY <1>1, <1>2 DEF IInv, Bookkeeping, NoReply
<1>5. NoDoubleCharge'
  BY <1>1, <1>2 DEF IInv, NoDoubleCharge
<1>6. ASSUME NEW j \in Calls, j # i, NEW s, Vouched(j, s) PROVE Vouched(j, s)'
  <2>1. ASSUME s # "none", Evidence(j, s) PROVE Evidence(j, s)'
    <3>1. PICK k \in Calls : /\ leg[k] = s
                             /\ k = j \/ (req[j].id # NoId /\ req[k].id = req[j].id)
      BY <2>1 DEF Evidence
    <3>2. k # i
      BY <1>1, <2>1, <3>1
    <3> QED BY <1>1, <1>2, <1>6, <3>1, <3>2 DEF Evidence
  <2> QED BY <1>2, <1>6, <2>1 DEF Vouched, RetrySafe
<1>7. RepliesVouched'
  <2>1. Vouched(i, reply[i].status)' /\ \A x \in reply'[i].rows : Vouched(i, x.status)'
    BY <1>1 DEF NoReply, Vouched
  <2> QED BY <1>1, <1>6, <2>1 DEF IInv, RepliesVouched
<1>8. ToldVouched'
  <2>1. Told(i)' = {}
    BY <1>1 DEF Told, Raised
  <2>2. \A j \in Calls : j # i => Told(j)' = Told(j)
    BY <1>2 DEF Told
  <2> QED BY <1>6, <2>1, <2>2 DEF IInv, ToldVouched
<1>9. RowsAreMatching'
  <2> SUFFICES ASSUME NEW j \in Calls, NEW x \in reply'[j].rows \cup outcome'[j].rows
               PROVE  x.order \in Matching(req[j].id)'
    BY DEF RowsAreMatching
  <2>1. j # i
    BY <1>1 DEF NoReply, Raised
  <2>2. x.order \in Matching(req[j].id)
    BY <1>1, <1>2, <2>1 DEF RowsAreMatching
  <2>3. x.order # i
    BY <1>1, <2>2 DEF Matching
  <2> QED BY <1>1, <1>2, <2>1, <2>2, <2>3 DEF Matching
<1>10. TimeoutCarriesId'
  BY <1>1, <1>2 DEF TimeoutCarriesId, Raised
<1> QED BY <1>3, <1>4, <1>5, <1>7, <1>8, <1>9, <1>10 DEF IInv

-----------------------------------------------------------------------------
(* What a worker learns                                                    *)

\* A final answer comes of an order of the id asked about, and a decision among
\* its outcomes is that of an order.
LEMMA FinalMeansOrder ==
    ASSUME IInv, RowsAreMatching, NEW i \in Calls, RetrySafe(req[i].id),
           NEW s \in Final(outcome[i])
    PROVE  /\ Matching(req[i].id) # {}
           /\ s # "FAILED" =>
                s \in Decisions /\ \E j \in Matching(req[i].id) : leg[j] = s
<1>1. req[i].id # NoId
  BY NoIdAssumption DEF RetrySafe
<1>2. s \in Told(i)
  <2>1. outcome[i].kind \in {"TransactionResult", "OrderStatus"}
    BY DEF Final
  <2>2. CASE outcome[i].kind = "TransactionResult"
    BY <2>2 DEF Final, Told
  <2>3. CASE outcome[i].kind = "OrderStatus"
    BY <2>3 DEF Final, Told
  <2> QED BY <2>1, <2>2, <2>3
<1>3. ASSUME s \in Decisions PROVE \E j \in Matching(req[i].id) : leg[j] = s
  <2>1. Evidence(i, s)
    BY <1>2, <1>3 DEF IInv, ToldVouched, Vouched, Decisions
  <2>2. PICK j \in Calls : leg[j] = s /\ req[j].id = req[i].id
    BY <2>1 DEF Evidence
  <2> QED BY <1>1, <1>3, <2>2 DEF Matching, Decisions
<1>4. CASE s \in Decisions
  BY <1>3, <1>4
<1>5. CASE s \notin Decisions
  <2>1. outcome[i].kind = "OrderStatus" /\ s = "FAILED"
    BY <1>5 DEF Final, Decisions
  <2>2. PICK x \in outcome[i].rows : x.status = s
    BY <2>1 DEF Final
  <2>3. x.order \in Matching(req[i].id)
    BY DEF RowsAreMatching
  <2> QED BY <2>1, <2>3
<1> QED BY <1>4, <1>5

-----------------------------------------------------------------------------
(* The invariant, step by step                                             *)

\* The invariant holds before the first call.
LEMMA RecoveryInvInit == RecoveryInit => RecoveryInv
<1> SUFFICES ASSUME RecoveryInit PROVE RecoveryInv
  OBVIOUS
<1>1. IInv
  BY TypeInit, BookkeepingInit, VouchedInit
     DEF RecoveryInit, IInv, Init, NoDoubleCharge
<1>2. RowsAreMatching
  BY DEF RecoveryInit, Init, RowsAreMatching, NoReply, Raised
<1>3. TimeoutCarriesId
  BY DEF RecoveryInit, Init, TimeoutCarriesId, Raised
<1> QED BY <1>1, <1>2, <1>3
    DEF RecoveryInit, RecoveryInv, CallsInv, Workers, WaitsForOwn, KnowsOrder

\* A step of the calls underneath keeps what is said of the calls.
LEMMA CallsNext ==
    ASSUME CallsInv, [Next]_vars
    PROVE  CallsInv'
BY TypeNext, BookkeepingNext, NoDoubleChargeNext, VouchedNext, RowsAreMatchingNext,
   TimeoutNext DEF CallsInv, IInv

\* A step that is no worker's keeps the workers' part too.
LEMMA CallStepNext ==
    ASSUME RecoveryInv, [Next]_vars, UNCHANGED <<worker, current, key, known>>
    PROVE  RecoveryInv'
BY CallsNext, OtherWorkers DEF RecoveryInv, CallsInv, Workers

\* The worker of order o issues a call of its own under o.
LEMMA IssueNext ==
    ASSUME RecoveryInv, NEW o \in Orders, NEW action \in {"transact", "CCSTATUS"},
           NEW w \in {"charging", "asking"}, w = "charging" => action = "transact",
           Issue(o, action, o, w)
    PROVE  RecoveryInv'
<1>1. PICK i \in Calls : Post(i, action, o) /\ current' = [current EXCEPT ![o] = i]
  BY DEF Issue, Idle
<1>2. worker' = [worker EXCEPT ![o] = w] /\ known' = known /\ key' = key
  BY DEF Issue
<1>3. Next
  BY <1>1 DEF Next, Transact, Status, Ids
<1>4. WaitsForOwn(o)' /\ KnowsOrder(o)'
  BY <1>1, <1>2
     DEF RecoveryInv, CallsInv, Workers, WaitsForOwn, KnowsOrder, IInv, TypeOK, Post
<1>5. \A p \in Orders : p # o => WaitsForOwn(p)' /\ KnowsOrder(p)'
  BY <1>1, <1>2, <1>3, OtherWorkers DEF RecoveryInv, CallsInv, Workers
<1>6. Workers'
  BY <1>1, <1>2 DEF RecoveryInv, Workers
<1> QED BY <1>3, <1>4, <1>5, <1>6, CallsNext DEF RecoveryInv

\* The worker of order o takes note of the answer it waited for.
LEMMA LearnNext ==
    ASSUME RecoveryInv, NEW o \in Orders, Learn(o)
    PROVE  RecoveryInv'
<1> DEFINE i == current[o]
<1>1. i \in Calls /\ req[i].id = o
  BY DEF Learn, RecoveryInv, WaitsForOwn
<1>2. UNCHANGED vars /\ current' = [current EXCEPT ![o] = NoCall]
  BY DEF Learn
<1>3. CallsInv'
  BY <1>2, CallsNext DEF RecoveryInv
<1>k. key' = key
  <2>1. key' = IF worker[o] = "charging" /\ outcome[i].kind = "InovioTimeoutError"
               THEN [key EXCEPT ![o] = outcome[i].id] ELSE key
    BY DEF Learn
  <2>2. worker[o] = "charging" /\ outcome[i].kind = "InovioTimeoutError"
          => outcome[i].id = o
    BY <1>1 DEF RecoveryInv, CallsInv, WaitsForOwn, TimeoutCarriesId
  <2> QED BY <2>1, <2>2 DEF RecoveryInv, Workers
<1>4. \/ /\ worker' = [worker EXCEPT ![o] = Step(worker[o], outcome[i])]
         /\ known' = known
      \/ /\ worker' = [worker EXCEPT ![o] = "resolved"]
         /\ Final(outcome[i]) # {}
         /\ known' = [known EXCEPT ![o] = CHOOSE s \in Final(outcome[i]) : TRUE]
  BY DEF Learn
<1>5. Step(worker[o], outcome[i]) \in {"charge", "ask"}
  BY DEF Step
<1>6. Workers'
  BY <1>2, <1>4, <1>5, <1>k DEF RecoveryInv, Workers
<1>7. WaitsForOwn(o)'
  BY <1>4, <1>5 DEF RecoveryInv, Workers, WaitsForOwn
<1>8. KnowsOrder(o)'
  <2>1. CASE worker'[o] # "resolved"
    BY <2>1 DEF KnowsOrder
  <2>2. CASE worker'[o] = "resolved"
    <3>1. known'[o] \in Final(outcome[i])
      BY <1>4, <1>5, <2>2 DEF RecoveryInv, Workers
    <3>2. RetrySafe(o) =>
            /\ Matching(o) # {}
            /\ known'[o] # "FAILED" =>
                 known'[o] \in Decisions /\ \E j \in Matching(o) : leg[j] = known'[o]
      BY <1>1, <3>1, FinalMeansOrder DEF RecoveryInv, CallsInv
    <3>3. Matching(o)' = Matching(o) /\ leg' = leg
      BY <1>2 DEF vars, Matching
    <3> QED BY <3>2, <3>3 DEF KnowsOrder, RetrySafe
  <2> QED BY <2>1, <2>2
<1>9. ASSUME NEW p \in Orders, p # o PROVE WaitsForOwn(p)' /\ KnowsOrder(p)'
  <2>1. worker'[p] = worker[p] /\ current'[p] = current[p] /\ known'[p] = known[p]
    BY <1>2, <1>4, <1>9 DEF RecoveryInv, Workers
  <2> QED BY <1>2, <2>1, OtherWorkers DEF RecoveryInv, CallsInv
<1> QED BY <1>3, <1>6, <1>7, <1>8, <1>9 DEF RecoveryInv

\* An identity that serves again is no waiting worker's.
LEMMA ForgetNext ==
    ASSUME RecoveryInv, NEW i \in Calls, Forget(i)
    PROVE  RecoveryInv'
<1>1. CallsInv'
  BY ForgetKeepsInv DEF RecoveryInv
<1>2. UNCHANGED recoveryVars /\ \A o \in Orders : current[o] # i
  BY DEF Forget
<1>3. \A j \in Calls : j # i => req'[j] = req[j] /\ pc'[j] = pc[j]
  BY DEF Forget, RecoveryInv, CallsInv, IInv, TypeOK
<1>4. ASSUME NEW o \in Orders PROVE WaitsForOwn(o)'
  BY <1>2, <1>3 DEF recoveryVars, RecoveryInv, WaitsForOwn
<1>5. ASSUME NEW o \in Orders PROVE KnowsOrder(o)'
  <2>1. Matching(o)' = Matching(o) /\ leg' = leg
    BY ForgetKeepsMatching DEF RecoveryInv, CallsInv, Forget
  <2> QED BY <1>2, <2>1 DEF recoveryVars, RecoveryInv, KnowsOrder, RetrySafe
<1>6. Workers'
  BY <1>2 DEF recoveryVars, RecoveryInv, Workers
<1> QED BY <1>1, <1>4, <1>5, <1>6 DEF RecoveryInv

\* Every step of the workers, the calls and the gateway keeps the invariant.
LEMMA RecoveryInvNext == RecoveryInv /\ [RecoveryNext]_allVars => RecoveryInv'
<1> SUFFICES ASSUME RecoveryInv, [RecoveryNext]_allVars PROVE RecoveryInv'
  OBVIOUS
<1>1. ASSUME NEW o \in Orders, Charge(o) \/ Ask(o) PROVE RecoveryInv'
  <2>1. CASE Charge(o)
    BY <2>1, IssueNext DEF Charge
  <2>2. CASE Ask(o)
    <3>1. key[o] = o
      BY DEF RecoveryInv, Workers
    <3> QED BY <2>2, <3>1, IssueNext DEF Ask
  <2> QED BY <1>1, <2>1, <2>2
<1>2. ASSUME NEW o \in Orders, Learn(o) PROVE RecoveryInv'
  BY <1>2, LearnNext
<1>3. ASSUME NEW i \in Calls, Forget(i) PROVE RecoveryInv'
  BY <1>3, ForgetNext
<1>4. ASSUME NEW i \in Calls, Arrives(i) \/ TimesOut(i) \/ GatewayAnswers(i)
                                \/ (Settle(i) /\ UNCHANGED recoveryVars)
      PROVE  RecoveryInv'
  <2>1. Next /\ UNCHANGED recoveryVars
    BY <1>4 DEF Arrives, TimesOut, GatewayAnswers, Next
  <2> QED BY <2>1, CallStepNext DEF recoveryVars
<1>5. ASSUME NEW i \in Calls, Breaks(i) PROVE RecoveryInv'
  <2>1. Next /\ UNCHANGED <<worker, current, key, known>>
    BY <1>5 DEF Breaks, Fault, Next
  <2> QED BY <2>1, CallStepNext
<1>6. CASE UNCHANGED allVars
  BY <1>6, CallStepNext DEF allVars, recoveryVars
<1> QED BY <1>1, <1>2, <1>3, <1>4, <1>5, <1>6 DEF RecoveryNext

\* The invariant holds in every reachable state.
LEMMA RecoveryInvariant == RecoverySpec => []RecoveryInv
BY RecoveryInvInit, RecoveryInvNext, PTL DEF RecoverySpec

-----------------------------------------------------------------------------
\* With workers that repeat charges and reuse call identities, the gateway still
\* makes one order of a retry-safe id.
THEOREM WorkersChargeOnce == RecoverySpec => []NoDoubleCharge
<1>1. RecoveryInv => NoDoubleCharge
  BY DEF RecoveryInv, CallsInv, IInv
<1> QED BY <1>1, RecoveryInvariant, PTL

\* A worker that stopped has one order at the gateway, decided as it learned.
THEOREM ResolvedIsDecided == RecoverySpec => []ResolvedMeansDecided
<1>1. ASSUME RecoveryInv, NEW o \in Orders, worker[o] = "resolved", RetrySafe(o)
      PROVE  /\ Cardinality(Matching(o)) = 1
             /\ known[o] # "FAILED" => \A j \in Matching(o) : leg[j] = known[o]
  <2>1. PICK j : j \in Matching(o)
    BY <1>1 DEF RecoveryInv, KnowsOrder
  <2>2. Mode[o] # "OFF"
    BY <1>1 DEF RetrySafe
  <2>3. \A k \in Matching(o) : k = j
    BY <1>1, <2>1, <2>2 DEF Matching, RecoveryInv, CallsInv, IInv, NoDoubleCharge
  <2>4. Matching(o) = {j}
    BY <2>1, <2>3
  <2>5. Cardinality(Matching(o)) = 1
    BY <2>4, FS_Singleton
  <2>6. known[o] # "FAILED" => leg[j] = known[o]
    BY <1>1, <2>3 DEF RecoveryInv, KnowsOrder
  <2> QED BY <2>3, <2>5, <2>6
<1>2. RecoveryInv => ResolvedMeansDecided
  BY <1>1 DEF ResolvedMeansDecided
<1> QED BY <1>2, RecoveryInvariant, PTL
=============================================================================
