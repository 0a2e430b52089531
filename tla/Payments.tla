------------------------------ MODULE Payments ------------------------------
(***************************************************************************)
(* The life of a call of InovioClient: sale(), authorize() and             *)
(* force_credit() -- all of them InovioClient._transact -- and status() by *)
(* the merchant's own order id.  The merchant's threads share one client,  *)
(* which keeps no state of its own, so any number of calls may overlap and *)
(* a retry is just another call with the same order id.                    *)
(*                                                                         *)
(* Between a call and its answer stand an unreliable network (requests and *)
(* answers are lost, a request may be processed after its caller gave up,  *)
(* an intermediary may answer in the gateway's place) and the gateway,     *)
(* which is not part of this repository: GatewayRefuses ... Settle model   *)
(* what the SDK assumes of it.                                             *)
(*                                                                         *)
(* REQUEST_ACTION tells sale, authorize and force_credit apart and changes *)
(* nothing here; OrderLedger models what the actions do to an order.       *)
(***************************************************************************)
EXTENDS Naturals, FiniteSets

CONSTANTS
    Calls,        \* identities of the calls the merchant's threads make
    Orders,       \* order ids the merchant sends as idempotency.xtl_order_id
    NoId,         \* no idempotency at all, or one whose xtl_order_id is ""
    Mode,         \* the idempotency.mode the merchant uses with each order id
    Unlisted,     \* a TRANS_STATUS_NAME the generated enum does not know
    Verdicts,     \* statuses the gateway may give an order
    ErrorCodes,   \* API_RESPONSE codes the gateway may refuse a request with
    BuiltinTimeout \* is socket.timeout the builtin TimeoutError (Python 3.10+)?

TransactionStatus == {"APPROVED", "DECLINED", "PENDING", "RUNNING", "FAILED"}

Modes == {"unset", "OFF", "DECLINE_DUP", "RETURN_ORIGINAL"}

ASSUME NoIdAssumption == NoId \notin Orders
ASSUME ModeAssumption == Mode \in [Orders -> Modes]
ASSUME UnlistedAssumption == Unlisted \notin TransactionStatus \cup {"none"}
ASSUME VerdictsAssumption == Verdicts \subseteq TransactionStatus \cup {Unlisted}
ASSUME ErrorCodesAssumption == ErrorCodes \subseteq Nat \ {0}
ASSUME BuiltinTimeoutAssumption == BuiltinTimeout \in BOOLEAN

VARIABLES
    pc,        \* where each call is
    req,       \* what each call asked for
    inflight,  \* calls whose request is on its way to the gateway
    reply,     \* the answer waiting on each call's connection
    leg,       \* the gateway's order created by each call: its status, or "none"
    outcome    \* what each call returned or raised

vars == <<pc, req, inflight, reply, leg, outcome>>

Ids == Orders \cup {NoId}
WireStatus == TransactionStatus \cup {Unlisted, "none"}

Request == [action : {"none", "transact", "CCSTATUS"}, id : Ids]

\* A CCSTATUS answer is a table with one row per leg, any other answer is flat.
Row == [order : Calls, status : WireStatus]
Reply == [arrived : BOOLEAN, code : Nat, status : WireStatus, rows : SUBSET Row]
NoReply == [arrived |-> FALSE, code |-> 0, status |-> "none", rows |-> {}]
Refusal(code) == [arrived |-> TRUE, code |-> code, status |-> "none", rows |-> {}]
Verdict(s) == [arrived |-> TRUE, code |-> 0, status |-> s, rows |-> {}]
Table(rows) == [arrived |-> TRUE, code |-> 0, status |-> "none", rows |-> rows]

Exceptions == {"RateLimitError", "AuthenticationError", "ValidationError",
               "ConfigurationError"}
\* Unwrapped: an exception that is no InovioError -- a TypeError or KeyError of the
\* request builder (see RequestBuild), an OSError of http.client, a TypeError or
\* InvalidOperation of to_transaction_result (see ResultMapper).
NetworkErrors == {"InovioTimeoutError", "TransportError", "Unwrapped",
                  "socket.timeout"}
Kinds == {"none", "TransactionResult", "OrderStatus"}
             \cup Exceptions \cup NetworkErrors

\* status: of a TransactionResult; rows: the transactions of an OrderStatus, each
\* with a status of the enum; id: the xtl_order_id an InovioTimeoutError carries.
Outcome == [kind : Kinds, status : TransactionStatus \cup {"none"},
            rows : SUBSET [order : Calls, status : TransactionStatus], id : Ids]

Raised(kind, id) == [kind |-> kind, status |-> "none", rows |-> {}, id |-> id]

-----------------------------------------------------------------------------
(* What the SDK computes                                                   *)

\* Mutants: a mode left unset means no deduplication, or declines duplicates.
WireModeUnsetIsOff(id) ==
    CASE Mode[id] \in {"unset", "OFF"} -> 0
      [] Mode[id] = "DECLINE_DUP" -> 1
      [] Mode[id] = "RETURN_ORIGINAL" -> 2

WireModeUnsetDeclines(id) ==
    CASE Mode[id] = "OFF" -> 0
      [] Mode[id] \in {"unset", "DECLINE_DUP"} -> 1
      [] Mode[id] = "RETURN_ORIGINAL" -> 2

\* The UNIQUE_XTL_ORDER_ID sent beside XTL_ORDER_ID: mode or RETURN_ORIGINAL.
WireMode(id) ==
    CASE Mode[id] = "OFF" -> 0
      [] Mode[id] = "DECLINE_DUP" -> 1
      [] Mode[id] \in {"unset", "RETURN_ORIGINAL"} -> 2

\* Mutant: the key is not handed on.
ErrorKeyDropped(r) == NoId

\* The idempotency key _transact hands to send(), for the timeout error alone;
\* a status() call hands over none.
ErrorKey(r) == IF r.action = "transact" THEN r.id ELSE NoId

\* The exception _raise_if_api_error raises for an API_RESPONSE code; a code
\* that is absent, 0 or not in the generated table raises nothing.
ApiException(code) ==
    CASE code = 100 -> "RateLimitError"
      [] code \in 101..106 -> "AuthenticationError"
      [] code \in {110, 111, 112, 113, 115, 116, 118, 119, 120} ->
             "ValidationError"
      [] code \in {125, 130, 135, 136, 150, 152, 153, 155, 160, 165, 170, 176,
                   180, 181, 183, 205, 210, 211, 215, 410, 411, 414} ->
             "ConfigurationError"
      [] OTHER -> "none"

\* Mutants: an unrecognized status reads as approved, or passes as it is.
ParseStatusDefaultsToApproved(s) == IF s \in TransactionStatus THEN s ELSE "APPROVED"

ParseStatusUnchecked(s) == s

\* An unrecognized status must not read as approved.
ParseStatus(s) == IF s \in TransactionStatus THEN s ELSE "FAILED"

\* Mutant: a decline is an exception.
TransactionResultRaisesDecline(r) ==
    IF ParseStatus(r.status) = "DECLINED"
    THEN Raised("ValidationError", NoId)
    ELSE [kind |-> "TransactionResult", status |-> ParseStatus(r.status),
          rows |-> {}, id |-> NoId]

\* to_transaction_result of a flat answer that is no API error.
TransactionResult(r) ==
    [kind |-> "TransactionResult", status |-> ParseStatus(r.status),
     rows |-> {}, id |-> NoId]

\* to_order_status: without a leg there is no PO_ID to key the aggregate on.
OrderStatus(r) ==
    IF r.rows = {}
    THEN Raised("TransportError", NoId)
    ELSE [kind |-> "OrderStatus", status |-> "none", id |-> NoId,
          rows |-> {[order |-> x.order, status |-> ParseStatus(x.status)] :
                      x \in r.rows}]

\* What the caller gets for an answer that arrived in one piece.
Answer(action, r) ==
    IF ApiException(r.code) # "none"
    THEN Raised(ApiException(r.code), NoId)
    ELSE IF action = "CCSTATUS" THEN OrderStatus(r) ELSE TransactionResult(r)

-----------------------------------------------------------------------------
(* The merchant's calls                                                    *)

Init ==
    /\ pc = [i \in Calls |-> "idle"]
    /\ req = [i \in Calls |-> [action |-> "none", id |-> NoId]]
    /\ inflight = {}
    /\ reply = [i \in Calls |-> NoReply]
    /\ leg = [i \in Calls |-> "none"]
    /\ outcome = [i \in Calls |-> Raised("none", NoId)]

Post(i, action, id) ==
    /\ pc[i] = "idle"
    /\ pc' = [pc EXCEPT ![i] = "sent"]
    /\ req' = [req EXCEPT ![i] = [action |-> action, id |-> id]]
    /\ inflight' = inflight \cup {i}
    /\ UNCHANGED <<reply, leg, outcome>>

\* sale(), authorize(), force_credit(): the parameters are built and posted.
Transact(i) == \E id \in Ids : Post(i, "transact", id)

\* status(Refs.xtl_order(id)).
Status(i) == \E id \in Orders : Post(i, "CCSTATUS", id)

Return(i, o) ==
    /\ pc[i] = "sent"
    /\ pc' = [pc EXCEPT ![i] = "returned"]
    /\ reply' = [reply EXCEPT ![i] = NoReply]
    /\ outcome' = [outcome EXCEPT ![i] = o]
    /\ UNCHANGED <<req, leg>>

\* build_transaction_params refuses the request, or stops at a payment method or
\* an option it does not know: nothing is posted.
RejectLocally(i) ==
    /\ pc[i] = "idle"
    /\ pc' = [pc EXCEPT ![i] = "returned"]
    /\ \E kind \in {"ValidationError", "Unwrapped"} :
         outcome' = [outcome EXCEPT ![i] = Raised(kind, NoId)]
    /\ UNCHANGED <<req, inflight, reply, leg>>

\* A whole answer arrives while the caller waits.
Receive(i) ==
    /\ reply[i].arrived
    /\ Return(i, Answer(req[i].action, reply[i]))
    /\ UNCHANGED inflight

\* So does one that is no API error and yet cannot be mapped: the error says
\* nothing of the order the gateway may have made.
ReceiveUnreadable(i) ==
    /\ reply[i].arrived /\ ApiException(reply[i].code) = "none"
    /\ Return(i, Raised("Unwrapped", NoId))
    /\ UNCHANGED inflight

\* An intermediary answers HTTP 200 with a page of its own, which is read as
\* form-encoded text with no field the SDK knows.
Misanswered(i) ==
    /\ Return(i, Answer(req[i].action, Verdict("none")))
    /\ UNCHANGED inflight

\* No connection within the timeout: the request never leaves.  urllib wraps
\* the error in a URLError whose text says "timed out" on every Python.
ConnectTimeout(i) ==
    /\ i \in inflight
    /\ Return(i, Raised("InovioTimeoutError", ErrorKey(req[i])))
    /\ inflight' = inflight \ {i}

\* Mutant: timeout_ms does not reach urlopen, which then waits for ever.
ReadTimeoutMissing(i) == FALSE

\* No answer within the timeout.  urllib does not wrap this one: send() sees
\* socket.timeout, which its except clause names only since Python 3.10.
ReadTimeout(i) ==
    /\ Return(i, IF BuiltinTimeout
                 THEN Raised("InovioTimeoutError", ErrorKey(req[i]))
                 ELSE Raised("socket.timeout", NoId))
    /\ UNCHANGED inflight

\* Refused connection, non-2xx answer (an intermediary's too) or malformed JSON:
\* TransportError.  A connection dropped before the status line: the OSError of
\* http.client, which send() does not catch.
NetworkFails(i) ==
    /\ \E kind \in {"TransportError", "Unwrapped"} : Return(i, Raised(kind, NoId))
    /\ UNCHANGED inflight

-----------------------------------------------------------------------------
(* The network and the gateway                                             *)

LoseRequest(i) ==
    /\ i \in inflight
    /\ inflight' = inflight \ {i}
    /\ UNCHANGED <<pc, req, reply, leg, outcome>>

\* The gateway takes the request and writes its answer on the connection, if
\* the caller still holds it open.
Process(i, r) ==
    /\ i \in inflight
    /\ inflight' = inflight \ {i}
    /\ reply' = IF pc[i] = "sent" THEN [reply EXCEPT ![i] = r] ELSE reply
    /\ UNCHANGED <<pc, req, outcome>>

\* Refused at the API tier: throttled, bad credentials, a bad field, an unknown
\* merchant account.  No order is created.
GatewayRefuses(i) ==
    /\ \E code \in ErrorCodes : Process(i, Refusal(code))
    /\ UNCHANGED leg

\* The orders the gateway finds under the id of a request.
Matching(id) == {j \in Calls : leg[j] # "none" /\ id # NoId /\ req[j].id = id}

Deduplicated(i) == Matching(req[i].id) # {} /\ WireMode(req[i].id) # 0

GatewayDecides(i) ==
    /\ req[i].action = "transact"
    /\ ~Deduplicated(i)
    /\ \E s \in Verdicts :
         /\ Process(i, Verdict(s))
         /\ leg' = [leg EXCEPT ![i] = s]

\* RETURN_ORIGINAL answers with the order that is there, DECLINE_DUP declines.
GatewayRepeats(i) ==
    /\ req[i].action = "transact"
    /\ Deduplicated(i)
    /\ \E j \in Matching(req[i].id) :
         Process(i, Verdict(IF WireMode(req[i].id) = 1 THEN "DECLINED" ELSE leg[j]))
    /\ UNCHANGED leg

GatewayReports(i) ==
    /\ req[i].action = "CCSTATUS"
    /\ Process(i, Table({[order |-> j, status |-> leg[j]] :
                            j \in Matching(req[i].id)}))
    /\ UNCHANGED leg

\* An order that is not final is decided later (3DS, bank debit, review).
Settle(i) ==
    /\ leg[i] \in {"PENDING", "RUNNING", Unlisted}
    /\ \E s \in {"APPROVED", "DECLINED", "FAILED"} :
         leg' = [leg EXCEPT ![i] = s]
    /\ UNCHANGED <<pc, req, inflight, reply, outcome>>

-----------------------------------------------------------------------------
Next ==
    \E i \in Calls :
        \/ Transact(i) \/ Status(i) \/ RejectLocally(i)
        \/ Receive(i) \/ ReceiveUnreadable(i) \/ Misanswered(i)
        \/ ConnectTimeout(i) \/ ReadTimeout(i) \/ NetworkFails(i)
        \/ LoseRequest(i)
        \/ GatewayRefuses(i) \/ GatewayDecides(i) \/ GatewayRepeats(i)
        \/ GatewayReports(i) \/ Settle(i)

Spec == Init /\ [][Next]_vars

-----------------------------------------------------------------------------
(* Properties                                                              *)

\* Every request, reply and outcome is one the SDK can send, read or give: a
\* status told to a caller is always one of the enum.
TypeOK ==
    /\ pc \in [Calls -> {"idle", "sent", "returned"}]
    /\ req \in [Calls -> Request]
    /\ inflight \subseteq Calls
    /\ reply \in [Calls -> Reply]
    /\ leg \in [Calls -> WireStatus]
    /\ outcome \in [Calls -> Outcome]

RetrySafe(id) == id \in Orders /\ Mode[id] \in {"unset", "RETURN_ORIGINAL"}

\* What the answer of call i said of the order it asked about.
Told(i) ==
    IF outcome[i].kind = "TransactionResult" THEN {outcome[i].status}
    ELSE {x.status : x \in outcome[i].rows}

\* However many calls use an order id -- retries after a timeout, two workers
\* on one order, a request processed after its caller gave up -- the gateway
\* creates one order for it at most, unless the merchant chose OFF: a request
\* with an idempotency id is sent with the mode that makes it retry-safe.
NoDoubleCharge ==
    \A i, j \in Calls :
        /\ leg[i] # "none" /\ leg[j] # "none"
        /\ req[i].id = req[j].id
        /\ req[i].id # NoId /\ Mode[req[i].id] # "OFF"
        => i = j

\* APPROVED is told only of an order the gateway did approve: the call's own
\* or, for a repeat or a status(), the one under the same id; no status the
\* enum does not know, no refusal and no late answer reads as approved.
ApprovedMeansCharged ==
    \A i \in Calls : "APPROVED" \in Told(i) =>
        \E j \in Calls :
            /\ leg[j] = "APPROVED"
            /\ \/ j = i
               \/ req[i].id # NoId /\ req[j].id = req[i].id

\* Two callers of a retry-safe order id are never told contradictory final
\* outcomes, whichever of sale() and status() each one used and in whatever
\* order their answers arrive.
AnswersAgree ==
    \A i, j \in Calls :
        req[i].id = req[j].id /\ RetrySafe(req[i].id)
        => ~("APPROVED" \in Told(i) /\ "DECLINED" \in Told(j))

\* An exception _raise_if_api_error or the request builder raised means that
\* the request made no order and never will: a decline is not an exception.
ApiErrorMeansNoOrder ==
    \A i \in Calls :
        outcome[i].kind \in Exceptions => leg[i] = "none" /\ i \notin inflight

\* A call that ran out of time says so with InovioTimeoutError, on every Python
\* the package supports.
TimeoutIsInovioTimeoutError ==
    \A i \in Calls : outcome[i].kind # "socket.timeout"

-----------------------------------------------------------------------------
(* The calls of retry-safe orders implement ChargeOnce                     *)

RetrySafeOrders == {o \in Orders : RetrySafe(o)}

LegsSay(o, S) == \E j \in Matching(o) : leg[j] \in S

StateOf(o) ==
    CASE LegsSay(o, {"APPROVED"}) -> "APPROVED"
      [] LegsSay(o, {"DECLINED"}) -> "DECLINED"
      [] LegsSay(o, {"FAILED"}) -> "FAILED"
      [] LegsSay(o, {"PENDING", "RUNNING", Unlisted}) -> "open"
      [] OTHER -> "none"

ToldOf(o) ==
    {s \in {"APPROVED", "DECLINED"} :
        \E i \in Calls : req[i].id = o /\ s \in Told(i)}

Promise == INSTANCE ChargeOnce WITH
    Orders <- RetrySafeOrders,
    state <- [o \in RetrySafeOrders |-> StateOf(o)],
    told <- [o \in RetrySafeOrders |-> ToldOf(o)]

\* Seen through the answers its callers got, each retry-safe order is decided
\* once and every answer is that decision, in every interleaving of calls,
\* losses, timeouts and late requests.
ImplementsChargeOnce == Promise!Spec
=============================================================================
