------------------------------ MODULE Recovery ------------------------------
(***************************************************************************)
(* A merchant's worker that drives each order to a known outcome on top of *)
(* Payments, with the two mechanisms examples/14_timeout_recovery.py and   *)
(* InovioTimeoutError.recovery_hint offer it: the same call again under    *)
(* the same order id, and status() by that id.  The worker is the          *)
(* merchant's code; the SDK never retries by itself.  After a timeout it   *)
(* asks by the id it finds in the error, as the example does.              *)
(*                                                                         *)
(* What to_transaction_result cannot map stays as the gateway wrote it:    *)
(* the answers of such an order are unreadable however often it is asked.  *)
(*                                                                         *)
(* MaxFaults bounds what the network and the gateway's front door may do   *)
(* to the calls of all orders together.                                    *)
(***************************************************************************)
EXTENDS Payments

CONSTANTS
    Policy,     \* what the worker does when a call raised, see Step
    MaxFaults,
    NoCall

Policies == {"ask", "askThenRetry"}

ASSUME PolicyAssumption == Policy \in Policies
ASSUME MaxFaultsAssumption == MaxFaults \in Nat
ASSUME NoCallAssumption == NoCall \notin Calls

VARIABLES
    worker,   \* what the worker of each order does next
    current,  \* the call it waits for
    key,      \* the id it asks by
    known,    \* what it learned of the order, or "none"
    faults,   \* how many faults there were
    unreadable \* in which answers each order's data cannot be mapped

recoveryVars == <<worker, current, key, known, faults, unreadable>>
allVars == <<vars, recoveryVars>>

RecoveryInit ==
    /\ Init
    /\ worker = [o \in Orders |-> "charge"]
    /\ current = [o \in Orders |-> NoCall]
    /\ key = [o \in Orders |-> o]
    /\ known = [o \in Orders |-> "none"]
    /\ faults = 0
    /\ unreadable \in [Orders -> SUBSET {"transact", "CCSTATUS"}]

\* The final outcomes an answer reports.  FAILED counts only in a status(): as
\* the status of a TransactionResult it is also what an unrecognized answer, a
\* refusal the code table lacks or an intermediary's page reads as.
Final(o) ==
    CASE o.kind = "TransactionResult" -> {o.status} \cap {"APPROVED", "DECLINED"}
      [] o.kind = "OrderStatus" ->
           {x.status : x \in o.rows} \cap {"APPROVED", "DECLINED", "FAILED"}
      [] OTHER -> {}

\* What the worker does after an answer that is not final.  A status() that
\* shows no transactions would make it charge again.  An exception says nothing
\* of the order, not even a ValidationError, for an earlier request of the same
\* order may have been processed: "ask" follows the hint to the letter and goes
\* on asking, "askThenRetry" repeats the charge when asking did not answer.
Step(w, o) ==
    CASE o.kind = "TransactionResult" -> "ask"
      [] o.kind = "OrderStatus" -> IF o.rows = {} THEN "charge" ELSE "ask"
      [] OTHER -> IF Policy = "ask" \/ w = "charging" THEN "ask" ELSE "charge"

Idle == {j \in Calls : pc[j] = "idle"}

Issue(o, action, id, w) ==
    /\ Idle # {}
    /\ LET i == CHOOSE j \in Idle : TRUE IN
         /\ Post(i, action, id)
         /\ current' = [current EXCEPT ![o] = i]
    /\ worker' = [worker EXCEPT ![o] = w]
    /\ UNCHANGED <<key, known, faults, unreadable>>

Charge(o) == worker[o] = "charge" /\ Issue(o, "transact", o, "charging")

\* Without an id in the error there is nothing to ask by.
Ask(o) ==
    /\ worker[o] = "ask" /\ key[o] \in Orders
    /\ Issue(o, "CCSTATUS", key[o], "asking")

Learn(o) ==
    /\ worker[o] \in {"charging", "asking"}
    /\ pc[current[o]] = "returned"
    /\ LET answer == outcome[current[o]] IN
         /\ IF Final(answer) = {}
            THEN /\ worker' = [worker EXCEPT ![o] = Step(worker[o], answer)]
                 /\ UNCHANGED known
            ELSE /\ worker' = [worker EXCEPT ![o] = "resolved"]
                 /\ known' = [known EXCEPT ![o] = CHOOSE s \in Final(answer) : TRUE]
         /\ key' = IF worker[o] = "charging" /\ answer.kind = "InovioTimeoutError"
                   THEN [key EXCEPT ![o] = answer.id] ELSE key
    /\ current' = [current EXCEPT ![o] = NoCall]
    /\ UNCHANGED <<vars, faults, unreadable>>

\* A call nobody waits for, that made no order and left nothing on the wire,
\* is as if it had never been: its identity serves again.
Forget(i) ==
    /\ pc[i] = "returned" /\ i \notin inflight /\ leg[i] = "none"
    /\ \A o \in Orders : current[o] # i
    /\ pc' = [pc EXCEPT ![i] = "idle"]
    /\ req' = [req EXCEPT ![i] = [action |-> "none", id |-> NoId]]
    /\ outcome' = [outcome EXCEPT ![i] = Raised("none", NoId)]
    /\ UNCHANGED <<inflight, reply, leg, recoveryVars>>

Fault ==
    /\ faults < MaxFaults
    /\ faults' = faults + 1
    /\ UNCHANGED <<worker, current, key, known, unreadable>>

\* A call whose request or answer is lost can only time out: the loss is the
\* fault.
Unanswerable(i) == pc[i] = "sent" /\ i \notin inflight /\ ~reply[i].arrived

TimesOut(i) == Unanswerable(i) /\ ReadTimeout(i) /\ UNCHANGED recoveryVars

GatewayAnswers(i) ==
    /\ GatewayDecides(i) \/ GatewayRepeats(i) \/ GatewayReports(i)
    /\ UNCHANGED recoveryVars

\* Does the answer hold data of an order that cannot be mapped?
Unreadable(i) ==
    /\ ApiException(reply[i].code) = "none"
    /\ reply[i].status # "none" \/ reply[i].rows # {}
    /\ req[i].id \in Orders /\ req[i].action \in unreadable[req[i].id]

Arrives(i) ==
    /\ IF Unreadable(i) THEN ReceiveUnreadable(i) ELSE Receive(i)
    /\ UNCHANGED recoveryVars

Breaks(i) ==
    /\ \/ LoseRequest(i) \/ ConnectTimeout(i) \/ NetworkFails(i)
       \/ ~Unanswerable(i) /\ ReadTimeout(i)
       \/ GatewayRefuses(i) \/ Misanswered(i)
    /\ Fault

RecoveryNext ==
    \/ \E o \in Orders : Charge(o) \/ Ask(o) \/ Learn(o)
    \/ \E i \in Calls :
         \/ Arrives(i) \/ TimesOut(i) \/ GatewayAnswers(i) \/ Forget(i) \/ Breaks(i)
         \/ Settle(i) /\ UNCHANGED recoveryVars

\* The worker runs, urllib delivers a whole answer or raises at its timeout, and
\* the gateway takes up what reaches it and decides the orders it left open.
\* Nothing is fair about faults.
Fairness ==
    /\ \A o \in Orders :
         WF_allVars(Charge(o)) /\ WF_allVars(Ask(o)) /\ WF_allVars(Learn(o))
    /\ \A i \in Calls :
         /\ WF_allVars(Arrives(i)) /\ WF_allVars(TimesOut(i))
         /\ WF_allVars(GatewayAnswers(i)) /\ WF_allVars(Forget(i))
         /\ WF_allVars(Settle(i) /\ UNCHANGED recoveryVars)

RecoverySpec == RecoveryInit /\ [][RecoveryNext]_allVars /\ Fairness

-----------------------------------------------------------------------------
\* A worker that stops has one order at the gateway, and an APPROVED or DECLINED
\* it stopped with is the gateway's decision: it took no unknown outcome, no open
\* order and no repeat's answer for that, and did not pay twice to learn it.
\* FAILED promises less: an order under a status the enum lacks reads so while
\* it is still open.
ResolvedMeansDecided ==
    \A o \in Orders :
        worker[o] = "resolved" /\ RetrySafe(o) =>
            /\ Cardinality(Matching(o)) = 1
            /\ known[o] # "FAILED" => \A j \in Matching(o) : leg[j] = known[o]

\* Every order that status() can read is driven to a known outcome once the faults
\* are over, even when the answers to its charges are never readable: a timeout
\* leaves the worker with the id to ask by, and no exception is a dead end.
EveryOrderResolves ==
    \A o \in Orders :
        "CCSTATUS" \notin unreadable[o] => <>(worker[o] = "resolved")
=============================================================================
