----------------------------- MODULE FollowUps -----------------------------
(***************************************************************************)
(* capture() and refund() when answers get lost.  They carry no            *)
(* idempotency id, so a merchant's worker that timed out has only status() *)
(* to go by: it looks at the order's transactions before it sends, and     *)
(* when no answer came it looks again for a new one of its own amount,     *)
(* sending again if there is none.  Several workers share the order, and   *)
(* a request may be processed after its caller gave up.                    *)
(*                                                                         *)
(* The workers are the merchant's code, with amounts that may be equal;    *)
(* the gateway is OrderLedger's.  A status() that fails changes nothing    *)
(* and is asked again, so one that answers is a single step.  MaxFaults    *)
(* bounds what goes wrong.                                                 *)
(***************************************************************************)
EXTENDS OrderLedger

CONSTANTS
    Workers,
    Opening,    \* the call that opened the order
    NoCall,
    MaxFaults

ASSUME OpeningAssumption == Opening \in Calls
ASSUME NoCallAssumption == NoCall \notin Calls
ASSUME MaxFaultsAssumption == MaxFaults \in Nat

VARIABLES
    share,     \* the amount each worker is to capture or refund
    at,        \* what each worker does next
    seen,      \* the transactions it saw before it sent
    current,   \* the call it made last and has not yet given up on
    told,      \* what it took for the outcome
    sender,    \* the worker that made each call, for the calls made so far
    inflight,  \* calls whose request is on its way to the gateway
    late,      \* workers that had given up on a call when it was processed
    faults

workerVars == <<share, at, seen, current, told>>
allVars == <<vars, workerVars, sender, inflight, late, faults>>

-----------------------------------------------------------------------------
(* What the SDK does                                                       *)

\* Mutant: the amount does not reach the wire.
RequestedNothing(v) == Whole

\* LI_VALUE_1 of capture(order, amount) and refund(order, amount).
Requested(v) == v

\* Mutant: only the first row of the table is read.
TransactionsFirstOnly == {Opening}

\* status(order).transactions: one for each leg of the order.
Transactions == Legs

-----------------------------------------------------------------------------
\* An authorized order is captured from, a sold one refunded.
FollowInit ==
    /\ \E total \in Amounts, action \in {"CCAUTHORIZE", "CCAUTHCAP"} :
         /\ leg = [i \in Calls |->
                     IF i = Opening
                     THEN [action |-> action, status |-> "APPROVED",
                           amount |-> total, settled |-> FALSE]
                     ELSE NoLeg]
         /\ book = Posted([authorized |-> 0, captured |-> 0, refunded |-> 0],
                          action, total)
    /\ batched = FALSE
    /\ share \in [Workers -> Amounts]
    /\ at = [w \in Workers |-> "look"]
    /\ seen = [w \in Workers |-> {}]
    /\ current = [w \in Workers |-> NoCall]
    /\ told = [w \in Workers |-> "none"]
    /\ sender = [i \in {} |-> NoCall]
    /\ inflight = {}
    /\ late = {}
    /\ faults = 0

Captures == leg[Opening].action = "CCAUTHORIZE"
Action == IF Captures THEN "CCCAPTURE" ELSE "CCCREDIT"

(* The workers                                                             *)

Look(w) ==
    /\ at[w] = "look"
    /\ at' = [at EXCEPT ![w] = "send"]
    /\ seen' = [seen EXCEPT ![w] = Transactions]
    /\ UNCHANGED <<vars, share, current, told, sender, inflight, late, faults>>

Send(w) ==
    /\ at[w] = "send"
    /\ DOMAIN sender # Calls \ {Opening}
    /\ LET i == CHOOSE j \in Calls \ {Opening} : j \notin DOMAIN sender IN
         /\ current' = [current EXCEPT ![w] = i]
         /\ sender' = [j \in DOMAIN sender \cup {i} |->
                         IF j = i THEN w ELSE sender[j]]
         /\ inflight' = inflight \cup {i}
    /\ at' = [at EXCEPT ![w] = "wait"]
    /\ UNCHANGED <<vars, share, seen, told, late, faults>>

Finish(w, status) ==
    /\ at' = [at EXCEPT ![w] = "done"]
    /\ told' = [told EXCEPT ![w] = status]
    /\ current' = [current EXCEPT ![w] = NoCall]

\* The answer of the call is a TransactionResult, approved or declined.
Learn(w) ==
    /\ at[w] = "wait"
    /\ current[w] \in Legs
    /\ Finish(w, leg[current[w]].status)
    /\ UNCHANGED <<vars, share, seen, sender, inflight, late, faults>>

GiveUp(w, next) ==
    /\ at[w] = "wait"
    /\ at' = [at EXCEPT ![w] = next]
    /\ UNCHANGED <<vars, share, seen, current, told, sender, late>>

\* New transactions of the order that look like this worker's: they carry
\* nothing else it could tell its own by.
Mine(w) ==
    {i \in Transactions \ seen[w] :
        leg[i].action = Action /\ Magnitude(leg[i].amount) = share[w]}

Check(w) ==
    /\ at[w] = "check"
    /\ IF Mine(w) = {}
       THEN /\ at' = [at EXCEPT ![w] = "send"]
            /\ current' = [current EXCEPT ![w] = NoCall]
            /\ UNCHANGED told
       ELSE Finish(w, IF \E i \in Mine(w) : leg[i].status = "APPROVED"
                      THEN "APPROVED" ELSE "DECLINED")
    /\ UNCHANGED <<vars, share, seen, sender, inflight, late, faults>>

(* The network and the gateway                                             *)

\* The request is processed, whether or not its worker still waits for it.
Process(i) ==
    /\ i \in inflight
    /\ LET v == Requested(share[sender[i]]) IN
         IF Captures THEN CaptureOf(i, v) ELSE RefundOf(i, v)
    /\ inflight' = inflight \ {i}
    /\ late' = IF current[sender[i]] = i THEN late ELSE late \cup {sender[i]}
    /\ UNCHANGED <<workerVars, sender, faults>>

Fault == faults < MaxFaults /\ faults' = faults + 1

Lose(i) ==
    /\ i \in inflight
    /\ inflight' = inflight \ {i}
    /\ Fault
    /\ UNCHANGED <<vars, workerVars, sender, late>>

\* Mutant: timeout_ms does not reach urlopen.
TimeoutMissing(w) == FALSE

\* InovioTimeoutError or any other end of the call that says nothing of the order,
\* a FAILED result included.  A lost request can only end so, and the loss was
\* the fault.
Timeout(w) ==
    /\ GiveUp(w, "check")
    /\ UNCHANGED inflight
    /\ IF current[w] \notin inflight \cup Legs THEN UNCHANGED faults ELSE Fault

\* An API-tier exception: the gateway took nothing, the call may be made again.
Refuse(w) ==
    /\ GiveUp(w, "send")
    /\ current[w] \in inflight
    /\ inflight' = inflight \ {current[w]}
    /\ Fault

FollowNext ==
    \/ \E w \in Workers :
         Look(w) \/ Send(w) \/ Learn(w) \/ Timeout(w) \/ Refuse(w) \/ Check(w)
    \/ \E i \in Calls : Process(i) \/ Lose(i)

\* The workers run, urllib raises at its timeout and the gateway takes up what
\* reaches it; nothing is fair about faults.
Fairness ==
    /\ \A w \in Workers :
         /\ WF_allVars(Look(w)) /\ WF_allVars(Send(w)) /\ WF_allVars(Check(w))
         /\ WF_allVars(Learn(w)) /\ WF_allVars(Timeout(w))
    /\ \A i \in Calls : WF_allVars(Process(i))

FollowSpec == FollowInit /\ [][FollowNext]_allVars /\ Fairness

-----------------------------------------------------------------------------
(* Properties                                                              *)

Moved(w) ==
    {i \in DOMAIN sender : sender[i] = w /\ leg[i].status = "APPROVED"}

\* A worker moves its money once, however many of its calls time out, are
\* refused or lost -- unless the gateway processed one of them after the worker
\* had looked for it: without an idempotency id status() cannot rule that out.
TwiceOnlyWhenLate ==
    \A w \in Workers \ late : Cardinality(Moved(w)) <= 1

\* Approved since the worker looked, for its amount and by a worker with this
\* amount to move: itself, unless another has the same.
Credible(w) ==
    {i \in DOMAIN sender \ seen[w] :
        /\ leg[i].status = "APPROVED" /\ Magnitude(leg[i].amount) = share[w]
        /\ share[sender[i]] = share[w]}

\* A worker ends with APPROVED only for money of exactly its amount that moved
\* since it looked, never for another amount's or an older call's; one that ends
\* with DECLINED moved none, late calls apart.
ToldIsTrue ==
    \A w \in Workers :
        /\ told[w] = "APPROVED" => Credible(w) # {}
        /\ told[w] = "DECLINED" /\ w \notin late => Moved(w) = {}

\* Every worker finishes once the faults are over.
EveryWorkerFinishes == \A w \in Workers : <>(at[w] = "done")
=============================================================================
